------------------------------ MODULE VmProofs ------------------------------
(***************************************************************************)
(* Proofs about virtual memory, for any number of processes, pages, frames *)
(* and TLB entries.                                                        *)
(*                                                                         *)
(* FramesOwnedOnce is not inductive: that an attached segment never        *)
(* replaces the entry of a frame on a fifo needs that such a frame belongs *)
(* to a page the program uses as its own, and that a segment has one of    *)
(* the sizes that were requested (FrameInv).  PageInv says of page tables  *)
(* what their entries may be; on these two rest the invariant of the TLB   *)
(* (TlbInv), and on all three the one of the data programs store, which    *)
(* reach the swap file through the TLB (DataInv).  The last two are proved *)
(* until a program is served by an entry of another (apart).               *)
(***************************************************************************)
EXTENDS Vm, TLAPS

\* The frames of a fifo or a segment.
Elems(s) == {s[i] : i \in 1 .. Len(s)}

\* No frame is twice on a fifo.
Once(s) == \A i, j \in 1 .. Len(s) : s[i] = s[j] => i = j

VmTypes ==
  /\ fifo \in [Procs -> Seq(Frames)]
  /\ virtual \in [Frames -> Int]
  /\ pte \in [Procs -> [Pages -> Frames \cup {NoFrame}]]
  /\ free \subseteq Frames
  /\ shm_pool \in [Keys -> Seq(Frames)]
  /\ \A k \in Keys : Len(shm_pool[k]) \in ShmPages \cup {0}

\* The frames of the segments in a pool.
Segments(pool) == UNION {Elems(pool[k]) : k \in Keys}

\* A frame on the fifo of p is nobody else's and belongs to a page of p.
MineOK(Q, F, G, p) ==
  /\ Once(Q[p])
  /\ Elems(Q[p]) \cap F = {} /\ Elems(Q[p]) \cap G = {}
  /\ \A q \in Procs : q # p => Elems(Q[q]) \cap Elems(Q[p]) = {}

\* The frames on fifo s are mapped by table T at their pages, all in U, and
\* T maps no other frames than these and those of G.
TableOK(T, s, V, G, U) ==
  /\ \A f \in Elems(s) : V[f] \in U /\ T[V[f]] = f
  /\ \A v \in Pages : T[v] # NoFrame => T[v] \in Elems(s) \cup G

FrameInv ==
  /\ VmTypes
  /\ free \cap Segments(shm_pool) = {}
  /\ \A p \in Procs : /\ MineOK(fifo, free, Segments(shm_pool), p)
                      /\ TableOK(pte[p], fifo[p], virtual, Segments(shm_pool), Touches[p])

LEMMA NothingHeld == Elems(<< >>) = {} /\ Once(<< >>)
  BY DEF Elems, Once

LEMMA SegmentFrames ==
  ASSUME VmTypes
  PROVE  Shared = Segments(shm_pool)
<1>1. \A k \in Keys : shm_pool[k] \in Seq(Frames)
  BY DEF VmTypes
<1>2. \A k \in Keys : DOMAIN shm_pool[k] = 1 .. Len(shm_pool[k])
                      /\ Elems(shm_pool[k]) \subseteq Frames
  BY <1>1 DEF Elems
<1> QED
  BY <1>2 DEF Shared, Segments, Elems

\* A frame joins a fifo at its end.
LEMMA Joined ==
  ASSUME NEW s \in Seq(Frames), Once(s), NEW f \in Frames, f \notin Elems(s)
  PROVE  /\ Append(s, f) \in Seq(Frames) /\ Once(Append(s, f))
         /\ Elems(Append(s, f)) = Elems(s) \cup {f}
<1> DEFINE t == Append(s, f)
<1>1. /\ t \in Seq(Frames) /\ Len(t) = Len(s) + 1 /\ t[Len(s) + 1] = f
      /\ \A i \in 1 .. Len(s) : t[i] = s[i]
  OBVIOUS
<1>2. Len(s) \in Nat /\ \A i \in 1 .. Len(s) + 1 : i \in 1 .. Len(s) \/ i = Len(s) + 1
  OBVIOUS
<1> HIDE DEF t
<1>3. Elems(t) = Elems(s) \cup {f}
  BY <1>1, <1>2 DEF Elems
<1>4. Once(t)
  BY <1>1, <1>2 DEF Once, Elems
<1> QED
  BY <1>1, <1>3, <1>4 DEF t

\* swap_one_page puts the first frame of a fifo last.
LEMMA Rotated ==
  ASSUME NEW s \in Seq(Frames), s # << >>, Once(s)
  PROVE  /\ Append(Tail(s), s[1]) \in Seq(Frames)
         /\ Once(Append(Tail(s), s[1]))
         /\ Elems(Append(Tail(s), s[1])) = Elems(s)
         /\ s[1] \in Elems(s) /\ s[1] \in Frames
<1> DEFINE t == Tail(s)
<1>1. Len(s) \in Nat /\ Len(s) > 0
  OBVIOUS
<1>2. t \in Seq(Frames) /\ Len(t) = Len(s) - 1 /\ \A i \in 1 .. Len(s) - 1 : t[i] = s[i + 1]
  OBVIOUS
<1>3. s[1] \in Elems(s) /\ s[1] \in Frames
  BY <1>1 DEF Elems
<1> HIDE DEF t
<1>4. \A i \in 1 .. Len(t) : i + 1 \in 1 .. Len(s) /\ t[i] = s[i + 1] /\ i + 1 # 1
  BY <1>1, <1>2
<1>5. Once(t)
  BY <1>1, <1>4 DEF Once
<1>6. s[1] \notin Elems(t)
  BY <1>1, <1>4 DEF Once, Elems
<1>7. Elems(s) = Elems(t) \cup {s[1]}
  <2>1. Elems(t) \subseteq Elems(s)
    BY <1>4 DEF Elems
  <2>2. ASSUME NEW i \in 1 .. Len(s) PROVE s[i] \in Elems(t) \cup {s[1]}
    <3>1. CASE i = 1
      BY <3>1
    <3>2. CASE i # 1
      <4>1. i - 1 \in 1 .. Len(t)
        BY <3>2, <1>1, <1>2
      <4>2. t[i - 1] = s[i]
        BY <4>1, <1>4
      <4> QED
        BY <4>1, <4>2 DEF Elems
    <3> QED
      BY <3>1, <3>2
  <2> QED
    BY <2>1, <2>2, <1>3 DEF Elems
<1>8. /\ Append(t, s[1]) \in Seq(Frames) /\ Once(Append(t, s[1]))
      /\ Elems(Append(t, s[1])) = Elems(t) \cup {s[1]}
  BY <1>2, <1>3, <1>5, <1>6, Joined
<1> QED
  BY <1>3, <1>7, <1>8 DEF t

\* One fifo changes: its new frames come from what was free before.
LEMMA FifoChanges ==
  ASSUME NEW Q \in [Procs -> Seq(Frames)], NEW F, NEW F2, NEW G, NEW p \in Procs,
         NEW s \in Seq(Frames), \A q \in Procs : MineOK(Q, F, G, q), F \cap G = {},
         Once(s), Elems(s) \subseteq Elems(Q[p]) \cup F, Elems(s) \cap F2 = {},
         F2 \subseteq F \cup Elems(Q[p])
  PROVE  \A q \in Procs : MineOK([Q EXCEPT ![p] = s], F2, G, q)
<1> DEFINE Q2 == [Q EXCEPT ![p] = s]
<1>1. Q2[p] = s /\ \A q \in Procs \ {p} : Q2[q] = Q[q]
  OBVIOUS
<1> HIDE DEF Q2
<1>2. \A q \in Procs \ {p} : Elems(Q2[q]) \cap F = {} /\ Elems(Q2[q]) \cap Elems(Q[p]) = {}
  BY <1>1 DEF MineOK
<1>3. \A q \in Procs : Once(Q2[q])
  BY <1>1 DEF MineOK
<1>4. \A q \in Procs : Elems(Q2[q]) \cap F2 = {}
  BY <1>1, <1>2
<1>5. \A q \in Procs : Elems(Q2[q]) \cap G = {}
  BY <1>1 DEF MineOK
<1>6. \A q, r \in Procs : q # r => Elems(Q2[q]) \cap Elems(Q2[r]) = {}
  <2> SUFFICES ASSUME NEW q \in Procs, NEW r \in Procs, q # r
               PROVE  Elems(Q2[q]) \cap Elems(Q2[r]) = {}
    OBVIOUS
  <2>1. CASE q # p /\ r # p
    BY <2>1, <1>1 DEF MineOK
  <2>2. CASE q = p \/ r = p
    BY <2>2, <1>1, <1>2
  <2> QED
    BY <2>1, <2>2
<1>7. \A q \in Procs : MineOK(Q2, F2, G, q)
  BY <1>3, <1>4, <1>5, <1>6 DEF MineOK
<1> QED
  BY <1>7 DEF Q2

\* The table of another process does not notice pages bound to other frames.
LEMMA OthersKeepTables ==
  ASSUME NEW T, NEW s, NEW V, NEW V2, NEW G, NEW U, TableOK(T, s, V, G, U),
         \A f \in Elems(s) : V2[f] = V[f]
  PROVE  TableOK(T, s, V2, G, U)
  BY DEF TableOK

-----------------------------------------------------------------------------
(* Every action keeps the invariant.                                       *)

LEMMA FrameInit == Init => FrameInv
<1> SUFFICES ASSUME Init PROVE FrameInv
  OBVIOUS
<1>1. VmTypes
  BY DEF Init, VmTypes
<1>2. Segments(shm_pool) = {}
  BY NothingHeld DEF Init, Segments
<1>3. \A p \in Procs : fifo[p] = << >> /\ \A v \in Pages : pte[p][v] = NoFrame
  BY DEF Init
<1>4. \A p \in Procs : MineOK(fifo, free, Segments(shm_pool), p)
  BY <1>3, NothingHeld DEF MineOK
<1>5. \A p \in Procs :
        TableOK(pte[p], fifo[p], virtual, Segments(shm_pool), Touches[p])
  BY <1>3, NothingHeld DEF TableOK
<1> QED
  BY <1>1, <1>2, <1>4, <1>5 DEF FrameInv

\* Process p gets the fifo s and the table T: the other processes keep theirs
\* as long as only p's frames are bound to other pages.
LEMMA FrameChanges ==
  ASSUME FrameInv, NEW p \in Procs, NEW s \in Seq(Frames), NEW T,
         T \in [Pages -> Frames \cup {NoFrame}],
         fifo' = [fifo EXCEPT ![p] = s], pte' = [pte EXCEPT ![p] = T],
         shm_pool' = shm_pool, virtual' \in [Frames -> Int], free' \subseteq Frames,
         Once(s), Elems(s) \subseteq Elems(fifo[p]) \cup free,
         Elems(s) \cap free' = {}, free' \subseteq free \cup Elems(fifo[p]),
         \A f \in Frames : f \notin Elems(fifo[p]) \cup free => virtual'[f] = virtual[f],
         TableOK(T, s, virtual', Segments(shm_pool), Touches[p])
  PROVE  FrameInv'
<1>1. VmTypes /\ free \cap Segments(shm_pool) = {}
      /\ \A q \in Procs : MineOK(fifo, free, Segments(shm_pool), q)
  BY DEF FrameInv
<1>2. VmTypes'
  BY <1>1 DEF VmTypes
<1>3. \A q \in Procs : MineOK(fifo', free', Segments(shm_pool'), q)
  BY <1>1, FifoChanges DEF VmTypes
<1>4. free' \cap Segments(shm_pool') = {}
  BY <1>1 DEF MineOK
<1>5. ASSUME NEW q \in Procs
      PROVE  TableOK(pte'[q], fifo'[q], virtual', Segments(shm_pool'), Touches[q])
  <2>1. CASE q = p
    <3>1. pte'[q] = T /\ fifo'[q] = s
      BY <1>1, <2>1 DEF VmTypes
    <3> QED
      BY <3>1, <2>1
  <2>2. CASE q # p
    <3>1. pte'[q] = pte[q] /\ fifo'[q] = fifo[q] /\ fifo[q] \in Seq(Frames)
      BY <1>1, <2>2 DEF VmTypes
    <3>2. Elems(fifo[q]) \subseteq Frames
      BY <3>1 DEF Elems
    <3>3. Elems(fifo[q]) \cap Elems(fifo[p]) = {} /\ Elems(fifo[q]) \cap free = {}
      BY <1>1, <2>2 DEF MineOK
    <3>4. \A f \in Elems(fifo[q]) : virtual'[f] = virtual[f]
      BY <3>2, <3>3
    <3>5. TableOK(pte[q], fifo[q], virtual, Segments(shm_pool), Touches[q])
      BY DEF FrameInv
    <3>6. TableOK(pte[q], fifo[q], virtual', Segments(shm_pool), Touches[q])
      BY <3>4, <3>5, OthersKeepTables
    <3> QED
      BY <3>1, <3>6
  <2> QED
    BY <2>1, <2>2
<1> QED
  BY <1>2, <1>3, <1>4, <1>5 DEF FrameInv

\* A process with nothing mapped: a new one, or one whose frames were freed.
LEMMA FrameUnmapped ==
  ASSUME FrameInv, NEW p \in Procs, Unmapped(p), shm_pool' = shm_pool,
         virtual' \in [Frames -> Int], free' \subseteq free \cup Elems(fifo[p]),
         \A f \in Frames : f \notin Elems(fifo[p]) => virtual'[f] = virtual[f]
  PROVE  FrameInv'
<1> DEFINE T == [v \in Pages |-> NoFrame]
<1>1. fifo' = [fifo EXCEPT ![p] = << >>] /\ pte' = [pte EXCEPT ![p] = T]
  BY DEF Unmapped
<1>2. T \in [Pages -> Frames \cup {NoFrame}] /\ \A v \in Pages : T[v] = NoFrame
  OBVIOUS
<1> HIDE DEF T
<1>3. TableOK(T, << >>, virtual', Segments(shm_pool), Touches[p])
  BY <1>2, NothingHeld DEF TableOK
<1>4. free' \subseteq Frames
  <2>1. fifo[p] \in Seq(Frames) /\ free \subseteq Frames
    BY DEF FrameInv, VmTypes
  <2>2. Elems(fifo[p]) \subseteq Frames
    BY <2>1 DEF Elems
  <2> QED
    BY <2>1, <2>2
<1>5. << >> \in Seq(Frames)
  OBVIOUS
<1>6. Once(<< >>) /\ Elems(<< >>) = {}
  BY NothingHeld
<1> QED
  BY <1>1, <1>2, <1>3, <1>4, <1>5, <1>6, FrameChanges

LEMMA FrameCreate ==
  ASSUME FrameInv, NEW p \in Procs, create_mm_struct(p)
  PROVE  FrameInv'
<1>1. Unmapped(p) /\ shm_pool' = shm_pool /\ virtual' = virtual /\ free' = free
  BY DEF create_mm_struct
<1> QED
  BY <1>1, FrameUnmapped DEF FrameInv, VmTypes

LEMMA FrameFree ==
  ASSUME FrameInv, NEW p \in Procs, free_mm_struct(p)
  PROVE  FrameInv'
<1>1. Held(p) = Elems(fifo[p])
  BY DEF Held, Elems, pf_num
<1>2. /\ Unmapped(p) /\ shm_pool' = shm_pool /\ free' = free \cup Held(p)
      /\ virtual' = [f \in Frames |-> IF f \in Held(p) THEN 0 ELSE virtual[f]]
  BY DEF free_mm_struct
<1>3. virtual' \in [Frames -> Int]
  BY <1>2 DEF FrameInv, VmTypes
<1> QED
  BY <1>1, <1>2, <1>3, FrameUnmapped

\* The page a program traps at without an entry is one of its own.
LEMMA FaultsAtOwnPage ==
  ASSUME NEW p \in Procs, NEW v \in Pages, Faults(p, v)
  PROVE  v \in Touches[p] /\ pte[p][v] = NoFrame
  BY DEF Faults, Traps, Uses

LEMMA FramePagefault ==
  ASSUME FrameInv, NEW p \in Procs, NEW v \in Pages, NEW f \in Frames, do_pagefault(p, v, f)
  PROVE  FrameInv'
<1> DEFINE s == Append(fifo[p], f)
           T == [pte[p] EXCEPT ![v] = f]
<1>1. /\ Faults(p, v) /\ f \in free /\ free' = free \ {f}
      /\ virtual' = [virtual EXCEPT ![f] = v]
      /\ fifo' = [fifo EXCEPT ![p] = Append(@, f)]
      /\ pte' = [pte EXCEPT ![p][v] = f] /\ shm_pool' = shm_pool
  BY DEF do_pagefault, Bind
<1>2. VmTypes /\ fifo[p] \in Seq(Frames) /\ pte[p] \in [Pages -> Frames \cup {NoFrame}]
      /\ MineOK(fifo, free, Segments(shm_pool), p)
      /\ TableOK(pte[p], fifo[p], virtual, Segments(shm_pool), Touches[p])
  BY DEF FrameInv, VmTypes
<1>3. fifo' = [fifo EXCEPT ![p] = s] /\ pte' = [pte EXCEPT ![p] = T]
  BY <1>1, <1>2 DEF VmTypes
<1>4. f \notin Elems(fifo[p]) /\ Once(fifo[p]) /\ Elems(fifo[p]) \cap free = {}
  BY <1>1, <1>2 DEF MineOK
<1>5. s \in Seq(Frames) /\ Once(s) /\ Elems(s) = Elems(fifo[p]) \cup {f}
  BY <1>2, <1>4, Joined
<1>6. T \in [Pages -> Frames \cup {NoFrame}] /\ T[v] = f
      /\ \A u \in Pages : u # v => T[u] = pte[p][u]
  BY <1>2
<1>7. v \in Int /\ Touches[p] \subseteq Pages
  BY VmAssumption
<1>8. virtual' \in [Frames -> Int] /\ virtual'[f] = v
      /\ \A e \in Frames : e # f => virtual'[e] = virtual[e]
  BY <1>1, <1>2, <1>7 DEF VmTypes
<1>9. v \in Touches[p] /\ pte[p][v] = NoFrame
  BY <1>1, FaultsAtOwnPage
<1> HIDE DEF s, T
<1>10. Elems(fifo[p]) \subseteq Frames
  BY <1>2 DEF Elems
<1>11. TableOK(T, s, virtual', Segments(shm_pool), Touches[p])
  <2>1. ASSUME NEW e \in Elems(fifo[p])
        PROVE  virtual'[e] \in Touches[p] /\ T[virtual'[e]] = e
    <3>1. e # f /\ e \in Frames /\ virtual'[e] = virtual[e]
      BY <1>4, <1>8, <1>10
    <3>2. virtual[e] \in Touches[p] /\ pte[p][virtual[e]] = e
      BY <1>2 DEF TableOK
    <3>3. virtual[e] # v
      BY <3>1, <3>2, <1>9, VmAssumption
    <3> QED
      BY <3>1, <3>2, <3>3, <1>6, <1>7
  <2>2. \A e \in Elems(s) : virtual'[e] \in Touches[p] /\ T[virtual'[e]] = e
    BY <2>1, <1>5, <1>6, <1>8, <1>9
  <2>3. \A u \in Pages : T[u] # NoFrame => T[u] \in Elems(s) \cup Segments(shm_pool)
    BY <1>2, <1>5, <1>6 DEF TableOK
  <2> QED
    BY <2>2, <2>3 DEF TableOK
<1>12. /\ Elems(s) \subseteq Elems(fifo[p]) \cup free /\ Elems(s) \cap free' = {}
       /\ free' \subseteq free \cup Elems(fifo[p]) /\ free' \subseteq Frames
  BY <1>1, <1>2, <1>4, <1>5 DEF VmTypes
<1>13. \A e \in Frames : e \notin Elems(fifo[p]) \cup free => virtual'[e] = virtual[e]
  BY <1>1, <1>8
<1> QED
  BY <1>1, <1>3, <1>5, <1>6, <1>8, <1>11, <1>12, <1>13, FrameChanges

LEMMA FrameSwap ==
  ASSUME FrameInv, NEW p \in Procs, NEW v \in Pages, Faults(p, v), fifo[p] # << >>,
         swap_one_page(p, v)
  PROVE  FrameInv'
<1> DEFINE f == fifo[p][1]
           out == virtual[f]
           s == Append(Tail(fifo[p]), f)
           T == [pte[p] EXCEPT ![out] = NoFrame, ![v] = pte[p][out]]
<1>1. /\ virtual' = [virtual EXCEPT ![f] = v]
      /\ fifo' = [fifo EXCEPT ![p] = Append(Tail(@), f)]
      /\ pte' = [pte EXCEPT ![p][out] = NoFrame, ![p][v] = pte[p][out]]
      /\ free' = free /\ shm_pool' = shm_pool
  BY DEF swap_one_page, Bind
<1>2. VmTypes /\ fifo[p] \in Seq(Frames) /\ pte[p] \in [Pages -> Frames \cup {NoFrame}]
      /\ MineOK(fifo, free, Segments(shm_pool), p)
      /\ TableOK(pte[p], fifo[p], virtual, Segments(shm_pool), Touches[p])
  BY DEF FrameInv, VmTypes
<1>3. Once(fifo[p]) /\ Elems(fifo[p]) \cap free = {}
  BY <1>2 DEF MineOK
<1>4. s \in Seq(Frames) /\ Once(s) /\ Elems(s) = Elems(fifo[p])
      /\ f \in Elems(fifo[p]) /\ f \in Frames
  BY <1>2, <1>3, Rotated
<1>5. v \in Touches[p] /\ pte[p][v] = NoFrame /\ v \in Int /\ Touches[p] \subseteq Pages
      /\ NoFrame \notin Frames
  BY FaultsAtOwnPage, VmAssumption
<1>6. out \in Touches[p] /\ pte[p][out] = f /\ out # v /\ out \in Pages
  BY <1>2, <1>4, <1>5 DEF TableOK
<1>7. fifo' = [fifo EXCEPT ![p] = s] /\ pte' = [pte EXCEPT ![p] = T]
  BY <1>1, <1>2, <1>6 DEF VmTypes
<1>8. /\ T \in [Pages -> Frames \cup {NoFrame}] /\ T[v] = f /\ T[out] = NoFrame
      /\ \A u \in Pages : u # v /\ u # out => T[u] = pte[p][u]
  BY <1>2, <1>4, <1>6
<1>9. virtual' \in [Frames -> Int] /\ virtual'[f] = v
      /\ \A e \in Frames : e # f => virtual'[e] = virtual[e]
  BY <1>1, <1>2, <1>4, <1>5 DEF VmTypes
<1>10. Elems(fifo[p]) \subseteq Frames
  BY <1>2 DEF Elems
<1> HIDE DEF s, T, out, f
<1>11. TableOK(T, s, virtual', Segments(shm_pool), Touches[p])
  <2>1. ASSUME NEW e \in Elems(fifo[p]), e # f
        PROVE  virtual'[e] \in Touches[p] /\ T[virtual'[e]] = e
    <3>1. e \in Frames /\ virtual'[e] = virtual[e]
      BY <1>9, <1>10, <2>1
    <3>2. virtual[e] \in Touches[p] /\ pte[p][virtual[e]] = e
      BY <1>2 DEF TableOK
    <3>3. virtual[e] # v /\ virtual[e] # out
      BY <3>1, <3>2, <1>5, <1>6, <2>1
    <3> QED
      BY <3>1, <3>2, <3>3, <1>5, <1>8
  <2>2. \A e \in Elems(s) : virtual'[e] \in Touches[p] /\ T[virtual'[e]] = e
    BY <2>1, <1>4, <1>5, <1>8, <1>9
  <2>3. \A u \in Pages : T[u] # NoFrame => T[u] \in Elems(s) \cup Segments(shm_pool)
    BY <1>2, <1>4, <1>8 DEF TableOK
  <2> QED
    BY <2>2, <2>3 DEF TableOK
<1>12. /\ Elems(s) \subseteq Elems(fifo[p]) \cup free /\ Elems(s) \cap free' = {}
       /\ free' \subseteq free \cup Elems(fifo[p]) /\ free' \subseteq Frames
  BY <1>1, <1>2, <1>3, <1>4 DEF VmTypes
<1>13. \A e \in Frames : e \notin Elems(fifo[p]) \cup free => virtual'[e] = virtual[e]
  BY <1>4, <1>9
<1> QED
  BY <1>1, <1>4, <1>7, <1>8, <1>9, <1>11, <1>12, <1>13, FrameChanges

LEMMA FrameShmget ==
  ASSUME FrameInv, NEW k \in Keys, NEW n \in ShmPages, NEW F \in [1 .. n -> Frames],
         shmget(k, F)
  PROVE  FrameInv'
<1> DEFINE S == {F[i] : i \in DOMAIN F}
<1>1. /\ shm_pool[k] = << >> /\ S \subseteq free /\ free' = free \ S
      /\ shm_pool' = [shm_pool EXCEPT ![k] = F]
      /\ UNCHANGED <<fifo, virtual, pte>>
  BY DEF shmget, tables
<1>2. n \in Nat
  BY VmAssumption
<1>3. F \in Seq(Frames) /\ Len(F) = n /\ DOMAIN F = 1 .. n
  BY <1>2
<1>4. Elems(F) = S
  BY <1>3 DEF Elems
<1> HIDE DEF S
<1>5. VmTypes
  BY DEF FrameInv
<1>6. VmTypes'
  BY <1>1, <1>3, <1>5 DEF VmTypes
<1>7. shm_pool'[k] = F /\ \A j \in Keys \ {k} : shm_pool'[j] = shm_pool[j]
  BY <1>1, <1>5 DEF VmTypes
<1>8. Segments(shm_pool') = Segments(shm_pool) \cup S
  BY <1>1, <1>4, <1>7, NothingHeld DEF Segments
<1>9. free' \cap Segments(shm_pool') = {}
  BY <1>1, <1>8 DEF FrameInv
<1>10. \A p \in Procs : MineOK(fifo', free', Segments(shm_pool'), p)
  BY <1>1, <1>8 DEF FrameInv, MineOK
<1>11. \A p \in Procs :
         TableOK(pte'[p], fifo'[p], virtual', Segments(shm_pool'), Touches[p])
  BY <1>1, <1>8 DEF FrameInv, TableOK
<1> QED
  BY <1>6, <1>9, <1>10, <1>11 DEF FrameInv

\* shmat writes entries of pages the program does not use as its own, so no
\* frame on its fifo loses its entry.
LEMMA FrameShmat ==
  ASSUME FrameInv, NEW p \in Procs, NEW k \in Keys, NEW v \in Pages, shmat(p, k, v)
  PROVE  FrameInv'
<1> DEFINE N(u) == {i \in 0 .. (Len(shm_pool[k]) - 1) : Bound(k, v, u, i)}
           T == [u \in Pages |-> IF N(u) = {} THEN pte[p][u]
                                 ELSE shm_pool[k][(CHOOSE i \in N(u) : TRUE) + 1]]
<1>1. /\ v \in Attaches[p] /\ pte' = [pte EXCEPT ![p] = T]
      /\ UNCHANGED <<fifo, virtual, free, shm_pool>> /\ shm_pool[k] # << >>
  BY DEF shmat, frameVars
<1>2. VmTypes /\ fifo[p] \in Seq(Frames) /\ pte[p] \in [Pages -> Frames \cup {NoFrame}]
      /\ TableOK(pte[p], fifo[p], virtual, Segments(shm_pool), Touches[p])
      /\ MineOK(fifo, free, Segments(shm_pool), p)
  BY DEF FrameInv, VmTypes
<1>3. /\ shm_pool[k] \in Seq(Frames) /\ Len(shm_pool[k]) \in ShmPages \cup {0}
      /\ Elems(shm_pool[k]) \subseteq Segments(shm_pool)
  BY <1>2 DEF VmTypes, Segments
<1>4. ASSUME NEW u \in Pages, N(u) # {}
      PROVE  u \notin Touches[p] /\ T[u] \in Elems(shm_pool[k]) /\ T[u] \in Frames
  <2> DEFINE i == CHOOSE i \in N(u) : TRUE
  <2>1. i \in N(u)
    BY <1>4
  <2>2. i \in 0 .. (Len(shm_pool[k]) - 1) /\ Bound(k, v, u, i)
    BY <2>1
  <2>3. T[u] = shm_pool[k][i + 1]
    BY <1>4
  <2> HIDE DEF i, N, T
  <2>4. At(v, i) = u
    BY <2>2 DEF Bound
  <2>5. Len(shm_pool[k]) \in ShmPages
    BY <1>3, <2>2
  <2>6. At(v, i) \notin Touches[p]
    BY <2>2, <2>5, <1>1, VmAssumption
  <2>7. i + 1 \in 1 .. Len(shm_pool[k])
    BY <2>2, <1>3
  <2> QED
    BY <2>3, <2>4, <2>6, <2>7, <1>3 DEF Elems
<1>5. \A u \in Pages : N(u) = {} => T[u] = pte[p][u]
  OBVIOUS
<1>6. T = [u \in Pages |-> T[u]]
  OBVIOUS
<1> HIDE DEF N, T
<1>7. T \in [Pages -> Frames \cup {NoFrame}]
  <2>1. \A u \in Pages : T[u] \in Frames \cup {NoFrame}
    BY <1>2, <1>4, <1>5
  <2> QED
    BY <2>1, <1>6
<1>8. TableOK(T, fifo[p], virtual, Segments(shm_pool), Touches[p])
  <2>1. Touches[p] \subseteq Pages
    BY VmAssumption
  <2>2. \A e \in Elems(fifo[p]) : virtual[e] \in Touches[p] /\ T[virtual[e]] = e
    BY <2>1, <1>2, <1>4, <1>5 DEF TableOK
  <2>3. \A u \in Pages : T[u] # NoFrame => T[u] \in Elems(fifo[p]) \cup Segments(shm_pool)
    BY <1>2, <1>3, <1>4, <1>5 DEF TableOK
  <2> QED
    BY <2>2, <2>3 DEF TableOK
<1>9. fifo' = [fifo EXCEPT ![p] = fifo[p]]
  BY <1>1, <1>2 DEF VmTypes
<1>10. /\ virtual' \in [Frames -> Int] /\ free' \subseteq Frames
       /\ Once(fifo[p]) /\ Elems(fifo[p]) \cap free' = {}
  BY <1>1, <1>2 DEF VmTypes, MineOK
<1> QED
  BY <1>1, <1>2, <1>7, <1>8, <1>9, <1>10, FrameChanges

\* Accesses, TLB exceptions, switches and abandoned swaps change no owner.
LEMMA FrameStays ==
  ASSUME FrameInv, UNCHANGED <<pte, fifo, virtual, free, shm_pool>>
  PROVE  FrameInv'
  BY DEF FrameInv, VmTypes

\* The owner of every frame, in every reachable state.
THEOREM FrameInvariant == Spec => []FrameInv
<1>1. Init => FrameInv
  BY FrameInit
<1>2. FrameInv /\ [Next]_vars => FrameInv'
  <2> SUFFICES ASSUME FrameInv, [Next]_vars PROVE FrameInv'
    OBVIOUS
  <2>1. CASE UNCHANGED vars
    BY <2>1, FrameStays DEF vars, tables, frameVars
  <2>2. ASSUME NEW p \in Procs,
               create_mm_struct(p) \/ activateMemory(p) \/ free_mm_struct(p)
        PROVE  FrameInv'
    <3>1. activateMemory(p) => UNCHANGED <<pte, fifo, virtual, free, shm_pool>>
      BY DEF activateMemory, tables, frameVars
    <3> QED
      BY <2>2, <3>1, FrameCreate, FrameFree, FrameStays
  <2>3. ASSUME NEW p \in Procs, NEW v \in Pages,
               Load(p, v) \/ \E x \in Data[p][v] : Store(p, v, x)
        PROVE  FrameInv'
    BY <2>3, FrameStays DEF Load, Store, Access, tables, frameVars
  <2>4. ASSUME NEW p \in Procs, NEW v \in Pages, tlb_refill(p, v) \/ tlb_read_handler(p, v)
        PROVE  FrameInv'
    BY <2>4, FrameStays DEF tlb_refill, tlb_read_handler, tables, frameVars
  <2>5. ASSUME NEW p \in Procs, NEW v \in Pages, NEW f \in Frames, do_pagefault(p, v, f)
        PROVE  FrameInv'
    BY <2>5, FramePagefault
  <2>6. ASSUME NEW p \in Procs, NEW v \in Pages, do_pagefault_swaps(p, v)
        PROVE  FrameInv'
    <3>1. Faults(p, v) /\ fifo[p] # << >> /\ (swap_one_page(p, v) \/ swap_abandoned(p))
      BY <2>6 DEF do_pagefault_swaps, Swaps
    <3>2. swap_abandoned(p) => UNCHANGED <<pte, fifo, virtual, free, shm_pool>>
      BY DEF swap_abandoned, tables, frameVars
    <3> QED
      BY <3>1, <3>2, FrameSwap, FrameStays
  <2>7. ASSUME NEW p \in Procs, NEW v \in Pages, NEW k \in Keys, shmat(p, k, v)
        PROVE  FrameInv'
    BY <2>7, FrameShmat
  <2>8. ASSUME NEW k \in Keys, NEW n \in ShmPages, NEW F \in [1 .. n -> Frames], shmget(k, F)
        PROVE  FrameInv'
    BY <2>8, FrameShmget
  <2>9. ASSUME NEW p \in Procs, NEW v \in Pages, swap_of_nothing(p, v)
        PROVE  FrameInv'
    BY <2>9, FrameStays DEF swap_of_nothing, tables, frameVars
  <2> QED
    BY <2>1, <2>2, <2>3, <2>4, <2>5, <2>6, <2>7, <2>8, <2>9 DEF Next
<1> QED
  BY <1>1, <1>2, PTL DEF Spec

\* Page faults, swapping, exits and shared memory never give one frame to two
\* owners, and what a page table maps is the process's own or shared.
THEOREM FramesHaveOneOwner == Spec => []FramesOwnedOnce
<1>1. FrameInv => FramesOwnedOnce
  <2> SUFFICES ASSUME FrameInv PROVE FramesOwnedOnce
    OBVIOUS
  <2>1. VmTypes /\ Shared = Segments(shm_pool)
    BY SegmentFrames DEF FrameInv
  <2>2. \A p \in Procs : Held(p) = Elems(fifo[p])
    BY DEF Held, Elems, pf_num
  <2>3. free \cap Shared = {}
    BY <2>1 DEF FrameInv
  <2>4. ASSUME NEW p \in Procs, NEW i \in 1 .. pf_num(p)
        PROVE  /\ fifo[p][i] \notin free \cup Shared
               /\ pte[p][virtual[fifo[p][i]]] = fifo[p][i]
               /\ \A q \in Procs : \A j \in 1 .. pf_num(q) :
                    fifo[q][j] = fifo[p][i] => q = p /\ j = i
    <3>1. fifo[p][i] \in Elems(fifo[p])
      BY DEF Elems, pf_num
    <3>2. /\ MineOK(fifo, free, Segments(shm_pool), p)
          /\ TableOK(pte[p], fifo[p], virtual, Segments(shm_pool), Touches[p])
      BY DEF FrameInv
    <3>3. ASSUME NEW q \in Procs, NEW j \in 1 .. pf_num(q), fifo[q][j] = fifo[p][i]
          PROVE  q = p /\ j = i
      <4>1. fifo[q][j] \in Elems(fifo[q])
        BY DEF Elems, pf_num
      <4>2. q = p
        BY <4>1, <3>1, <3>2, <3>3 DEF MineOK
      <4> QED
        BY <4>2, <3>2, <3>3 DEF MineOK, Once, pf_num
    <3> QED
      BY <3>1, <3>2, <3>3, <2>1 DEF MineOK, TableOK
  <2>5. \A p \in Procs, v \in Pages :
          pte[p][v] # NoFrame => pte[p][v] \in Held(p) \cup Shared
    BY <2>1, <2>2 DEF FrameInv, TableOK
  <2> QED
    BY <2>3, <2>4, <2>5 DEF FramesOwnedOnce
<1> QED
  BY <1>1, FrameInvariant, PTL

-----------------------------------------------------------------------------
(* Pages and their entries.                                                *)

\* Of a page the program uses as its own the entry is of a frame bound to that
\* page, of any other page of a segment; only own pages have the G bit.
EntriesOK(T, B, s, V, G, U) ==
  \A v \in Pages :
    /\ v \in U /\ T[v] # NoFrame => T[v] \in Elems(s) /\ V[T[v]] = v
    /\ v \notin U /\ T[v] # NoFrame => T[v] \in G
    /\ B[v] => v \in U

PageInv ==
  /\ live \subseteq Procs
  /\ g \in [Procs -> [Pages -> BOOLEAN]]
  /\ \A p \in Procs :
       EntriesOK(pte[p], g[p], fifo[p], virtual, Segments(shm_pool), Touches[p])
  /\ \A p \in Procs \ live : \A v \in Pages : pte[p][v] = NoFrame

LEMMA PageInit == Init => PageInv
<1> SUFFICES ASSUME Init PROVE PageInv
  OBVIOUS
<1>1. \A p \in Procs : \A v \in Pages : pte[p][v] = NoFrame /\ ~g[p][v]
  BY DEF Init
<1>2. g \in [Procs -> [Pages -> BOOLEAN]] /\ live = {}
  BY DEF Init
<1> QED
  BY <1>1, <1>2 DEF PageInv, EntriesOK

\* Process p gets new entries, for frames that were its own or nobody's.
LEMMA PageChanges ==
  ASSUME FrameInv, PageInv, NEW p \in Procs, NEW T, NEW B, NEW s,
         T \in [Pages -> Frames \cup {NoFrame}], B \in [Pages -> BOOLEAN],
         pte' = [pte EXCEPT ![p] = T], g' = [g EXCEPT ![p] = B],
         fifo' = [fifo EXCEPT ![p] = s], shm_pool' = shm_pool,
         \A f \in Frames : f \notin Elems(fifo[p]) \cup free => virtual'[f] = virtual[f],
         EntriesOK(T, B, s, virtual', Segments(shm_pool), Touches[p]),
         live' \subseteq Procs,
         \A q \in Procs \ live' : q # p => q \notin live,
         p \in live' \/ \A v \in Pages : T[v] = NoFrame
  PROVE  PageInv'
<1>1. VmTypes /\ \A q \in Procs : MineOK(fifo, free, Segments(shm_pool), q)
  BY DEF FrameInv
<1>2. pte'[p] = T /\ g'[p] = B /\ fifo'[p] = s
  BY <1>1 DEF VmTypes, PageInv
<1>3. \A q \in Procs \ {p} : pte'[q] = pte[q] /\ g'[q] = g[q] /\ fifo'[q] = fifo[q]
  BY <1>1 DEF VmTypes, PageInv
<1>4. g' \in [Procs -> [Pages -> BOOLEAN]]
  BY DEF PageInv
<1>5. ASSUME NEW q \in Procs \ {p}
      PROVE  EntriesOK(pte'[q], g'[q], fifo'[q], virtual', Segments(shm_pool'), Touches[q])
  <2>1. EntriesOK(pte[q], g[q], fifo[q], virtual, Segments(shm_pool), Touches[q])
    BY DEF PageInv
  <2>2. fifo[q] \in Seq(Frames)
    BY <1>1 DEF VmTypes
  <2>3. Elems(fifo[q]) \subseteq Frames
    BY <2>2 DEF Elems
  <2>4. Elems(fifo[q]) \cap Elems(fifo[p]) = {} /\ Elems(fifo[q]) \cap free = {}
    BY <1>1 DEF MineOK
  <2>5. \A f \in Elems(fifo[q]) : virtual'[f] = virtual[f]
    BY <2>3, <2>4
  <2> QED
    BY <2>1, <2>5, <1>3 DEF EntriesOK
<1>6. EntriesOK(pte'[p], g'[p], fifo'[p], virtual', Segments(shm_pool'), Touches[p])
  BY <1>2
<1>7. \A q \in Procs \ live' : \A v \in Pages : pte'[q][v] = NoFrame
  BY <1>2, <1>3 DEF PageInv
<1> QED
  BY <1>4, <1>5, <1>6, <1>7 DEF PageInv

\* An address space begins or ends with nothing mapped.
LEMMA PageUnmapped ==
  ASSUME FrameInv, PageInv, NEW p \in Procs, Unmapped(p), shm_pool' = shm_pool,
         \A f \in Frames : f \notin Elems(fifo[p]) => virtual'[f] = virtual[f],
         live' \subseteq Procs,
         \A q \in Procs \ live' : q # p => q \notin live
  PROVE  PageInv'
<1> DEFINE T == [v \in Pages |-> NoFrame]
           B == [v \in Pages |-> FALSE]
<1>1. /\ fifo' = [fifo EXCEPT ![p] = << >>] /\ pte' = [pte EXCEPT ![p] = T]
      /\ g' = [g EXCEPT ![p] = B]
  BY DEF Unmapped
<1>2. T \in [Pages -> Frames \cup {NoFrame}] /\ B \in [Pages -> BOOLEAN]
      /\ \A v \in Pages : T[v] = NoFrame /\ ~B[v]
  OBVIOUS
<1> HIDE DEF T, B
<1>3. EntriesOK(T, B, << >>, virtual', Segments(shm_pool), Touches[p])
  BY <1>2 DEF EntriesOK
<1> QED
  BY <1>1, <1>2, <1>3, PageChanges

LEMMA PageCreate ==
  ASSUME FrameInv, PageInv, NEW p \in Procs, create_mm_struct(p)
  PROVE  PageInv'
<1>1. /\ Unmapped(p) /\ shm_pool' = shm_pool /\ virtual' = virtual
      /\ live' = live \cup {p}
  BY DEF create_mm_struct
<1> QED
  BY <1>1, PageUnmapped DEF PageInv

LEMMA PageFree ==
  ASSUME FrameInv, PageInv, NEW p \in Procs, free_mm_struct(p)
  PROVE  PageInv'
<1>1. Held(p) = Elems(fifo[p])
  BY DEF Held, Elems, pf_num
<1>2. /\ Unmapped(p) /\ shm_pool' = shm_pool
      /\ live' = live \ {p}
      /\ virtual' = [f \in Frames |-> IF f \in Held(p) THEN 0 ELSE virtual[f]]
  BY DEF free_mm_struct
<1>3. \A f \in Frames : f \notin Elems(fifo[p]) => virtual'[f] = virtual[f]
  BY <1>1, <1>2
<1> QED
  BY <1>2, <1>3, PageUnmapped DEF PageInv

LEMMA PagePagefault ==
  ASSUME FrameInv, PageInv, NEW p \in Procs, NEW v \in Pages, NEW f \in Frames,
         do_pagefault(p, v, f)
  PROVE  PageInv'
<1> DEFINE s == Append(fifo[p], f)
           T == [pte[p] EXCEPT ![v] = f]
           B == [g[p] EXCEPT ![v] = TRUE]
<1>1. /\ Faults(p, v) /\ f \in free /\ virtual' = [virtual EXCEPT ![f] = v]
      /\ fifo' = [fifo EXCEPT ![p] = Append(@, f)]
      /\ pte' = [pte EXCEPT ![p][v] = f] /\ g' = [g EXCEPT ![p][v] = TRUE]
      /\ shm_pool' = shm_pool /\ live' = live
  BY DEF do_pagefault, Bind
<1>2. /\ VmTypes /\ fifo[p] \in Seq(Frames) /\ pte[p] \in [Pages -> Frames \cup {NoFrame}]
      /\ g[p] \in [Pages -> BOOLEAN] /\ MineOK(fifo, free, Segments(shm_pool), p)
  BY DEF FrameInv, VmTypes, PageInv
<1>3. /\ fifo' = [fifo EXCEPT ![p] = s] /\ pte' = [pte EXCEPT ![p] = T]
      /\ g' = [g EXCEPT ![p] = B]
  BY <1>1, <1>2 DEF VmTypes, PageInv
<1>4. f \notin Elems(fifo[p]) /\ Once(fifo[p])
  BY <1>1, <1>2 DEF MineOK
<1>5. Elems(s) = Elems(fifo[p]) \cup {f}
  BY <1>2, <1>4, Joined
<1>6. /\ T \in [Pages -> Frames \cup {NoFrame}] /\ B \in [Pages -> BOOLEAN]
      /\ T[v] = f /\ \A u \in Pages : u # v => T[u] = pte[p][u] /\ B[u] = g[p][u]
  BY <1>2
<1>7. virtual'[f] = v /\ \A e \in Frames : e # f => virtual'[e] = virtual[e]
  BY <1>1, <1>2 DEF VmTypes
<1>8. v \in Touches[p]
  BY <1>1, FaultsAtOwnPage
<1>9. EntriesOK(pte[p], g[p], fifo[p], virtual, Segments(shm_pool), Touches[p])
  BY DEF PageInv
<1> HIDE DEF s, T, B
<1>10. EntriesOK(T, B, s, virtual', Segments(shm_pool), Touches[p])
  <2> SUFFICES ASSUME NEW u \in Pages
               PROVE  /\ u \in Touches[p] /\ T[u] # NoFrame =>
                           T[u] \in Elems(s) /\ virtual'[T[u]] = u
                      /\ u \notin Touches[p] /\ T[u] # NoFrame => T[u] \in Segments(shm_pool)
                      /\ B[u] => u \in Touches[p]
    BY DEF EntriesOK
  <2>1. CASE u = v
    BY <2>1, <1>5, <1>6, <1>7, <1>8
  <2>2. CASE u # v
    <3>1. T[u] = pte[p][u] /\ B[u] = g[p][u]
      BY <2>2, <1>6
    <3>2. pte[p][u] \in Frames \cup {NoFrame}
      BY <1>2
    <3>3. pte[p][u] \in Elems(fifo[p]) => virtual'[pte[p][u]] = virtual[pte[p][u]] \/ pte[p][u] = NoFrame
      BY <1>4, <1>7, <3>2
    <3> QED
      BY <3>1, <3>3, <1>5, <1>9 DEF EntriesOK
  <2> QED
    BY <2>1, <2>2
<1>11. \A e \in Frames : e \notin Elems(fifo[p]) \cup free => virtual'[e] = virtual[e]
  BY <1>1, <1>7
<1>12. p \in live
  BY <1>1 DEF Faults, Traps, Uses
<1>13. live' \subseteq Procs
  BY <1>1 DEF PageInv
<1>14. \A q \in Procs \ live' : q # p => q \notin live
  BY <1>1
<1>15. p \in live' \/ \A u \in Pages : T[u] = NoFrame
  BY <1>1, <1>12
<1>16. T \in [Pages -> Frames \cup {NoFrame}] /\ B \in [Pages -> BOOLEAN] /\ shm_pool' = shm_pool
  BY <1>1, <1>6
<1> QED
  BY <1>3, <1>10, <1>11, <1>13, <1>14, <1>15, <1>16, PageChanges

\* What a swap does to the victim, its page and the new one.
LEMMA SwapOf ==
  ASSUME FrameInv, NEW p \in Procs, NEW v \in Pages, Faults(p, v), fifo[p] # << >>,
         pte' = [pte EXCEPT ![p][virtual[fifo[p][1]]] = NoFrame,
                            ![p][v] = pte[p][virtual[fifo[p][1]]]]
  PROVE  LET f == fifo[p][1]
             out == virtual[f]
             T == [pte[p] EXCEPT ![out] = NoFrame, ![v] = pte[p][out]]
         IN /\ f \in Elems(fifo[p]) /\ f \in Frames
            /\ out \in Touches[p] /\ out \in Pages /\ out # v /\ pte[p][out] = f
            /\ v \in Touches[p] /\ pte[p][v] = NoFrame
            /\ pte' = [pte EXCEPT ![p] = T]
            /\ T \in [Pages -> Frames \cup {NoFrame}]
            /\ T[v] = f /\ T[out] = NoFrame
            /\ \A u \in Pages : u # v /\ u # out => T[u] = pte[p][u]
<1> DEFINE f == fifo[p][1]
           out == virtual[f]
           T == [pte[p] EXCEPT ![out] = NoFrame, ![v] = pte[p][out]]
<1>1. VmTypes /\ fifo[p] \in Seq(Frames) /\ pte[p] \in [Pages -> Frames \cup {NoFrame}]
      /\ MineOK(fifo, free, Segments(shm_pool), p)
      /\ TableOK(pte[p], fifo[p], virtual, Segments(shm_pool), Touches[p])
  BY DEF FrameInv, VmTypes
<1>2. f \in Elems(fifo[p]) /\ f \in Frames
  BY <1>1, Rotated DEF MineOK
<1>3. v \in Touches[p] /\ pte[p][v] = NoFrame /\ Touches[p] \subseteq Pages
      /\ NoFrame \notin Frames
  BY FaultsAtOwnPage, VmAssumption
<1>4. out \in Touches[p] /\ pte[p][out] = f /\ out # v /\ out \in Pages
  BY <1>1, <1>2, <1>3 DEF TableOK
<1>5. pte' = [pte EXCEPT ![p] = T]
  BY <1>1, <1>4 DEF VmTypes
<1>6. /\ T \in [Pages -> Frames \cup {NoFrame}] /\ T[v] = f /\ T[out] = NoFrame
      /\ \A u \in Pages : u # v /\ u # out => T[u] = pte[p][u]
  BY <1>1, <1>2, <1>4
<1> QED
  BY <1>2, <1>3, <1>4, <1>5, <1>6

LEMMA PageSwap ==
  ASSUME FrameInv, PageInv, NEW p \in Procs, NEW v \in Pages, Faults(p, v),
         fifo[p] # << >>, swap_one_page(p, v)
  PROVE  PageInv'
<1> DEFINE f == fifo[p][1]
           out == virtual[f]
           s == Append(Tail(fifo[p]), f)
           T == [pte[p] EXCEPT ![out] = NoFrame, ![v] = pte[p][out]]
           B == [g[p] EXCEPT ![v] = TRUE]
<1>1. /\ virtual' = [virtual EXCEPT ![f] = v]
      /\ fifo' = [fifo EXCEPT ![p] = Append(Tail(@), f)]
      /\ pte' = [pte EXCEPT ![p][out] = NoFrame, ![p][v] = pte[p][out]]
      /\ g' = [g EXCEPT ![p][v] = TRUE]
      /\ shm_pool' = shm_pool /\ live' = live
  BY DEF swap_one_page, Bind
<1>2. /\ f \in Elems(fifo[p]) /\ f \in Frames
      /\ out \in Touches[p] /\ out \in Pages /\ out # v /\ pte[p][out] = f
      /\ v \in Touches[p] /\ pte[p][v] = NoFrame
      /\ pte' = [pte EXCEPT ![p] = T]
      /\ T \in [Pages -> Frames \cup {NoFrame}] /\ T[v] = f /\ T[out] = NoFrame
      /\ \A u \in Pages : u # v /\ u # out => T[u] = pte[p][u]
  BY <1>1, SwapOf, ZenonT(60)
<1>3. VmTypes /\ fifo[p] \in Seq(Frames) /\ pte[p] \in [Pages -> Frames \cup {NoFrame}]
      /\ g[p] \in [Pages -> BOOLEAN] /\ MineOK(fifo, free, Segments(shm_pool), p)
  BY DEF FrameInv, VmTypes, PageInv
<1>4. Elems(s) = Elems(fifo[p])
  BY <1>3, Rotated DEF MineOK
<1>5. fifo' = [fifo EXCEPT ![p] = s] /\ g' = [g EXCEPT ![p] = B]
  BY <1>1, <1>3 DEF VmTypes, PageInv
<1>6. B \in [Pages -> BOOLEAN] /\ \A u \in Pages : u # v => B[u] = g[p][u]
  BY <1>3
<1>7. virtual'[f] = v /\ \A e \in Frames : e # f => virtual'[e] = virtual[e]
  BY <1>1, <1>2, <1>3 DEF VmTypes
<1>8. EntriesOK(pte[p], g[p], fifo[p], virtual, Segments(shm_pool), Touches[p])
  BY DEF PageInv
<1>9. p \in live
  BY DEF Faults, Traps, Uses
<1> HIDE DEF s, T, B, out, f
<1>10. EntriesOK(T, B, s, virtual', Segments(shm_pool), Touches[p])
  <2> SUFFICES ASSUME NEW u \in Pages
               PROVE  /\ u \in Touches[p] /\ T[u] # NoFrame =>
                           T[u] \in Elems(s) /\ virtual'[T[u]] = u
                      /\ u \notin Touches[p] /\ T[u] # NoFrame => T[u] \in Segments(shm_pool)
                      /\ B[u] => u \in Touches[p]
    BY DEF EntriesOK
  <2>1. CASE u = v
    BY <2>1, <1>2, <1>4, <1>7
  <2>2. CASE u = out
    <3>1. B[u] = g[p][u]
      BY <2>2, <1>2, <1>6
    <3> QED
      BY <2>2, <3>1, <1>2
  <2>3. CASE u # v /\ u # out
    <3>1. T[u] = pte[p][u] /\ B[u] = g[p][u] /\ pte[p][u] \in Frames \cup {NoFrame}
      BY <2>3, <1>2, <1>3, <1>6
    <3>2. ASSUME u \in Touches[p], T[u] # NoFrame
          PROVE  T[u] \in Elems(s) /\ virtual'[T[u]] = u
      <4>1. pte[p][u] \in Elems(fifo[p]) /\ virtual[pte[p][u]] = u /\ pte[p][u] \in Frames
        BY <3>1, <3>2, <1>8 DEF EntriesOK
      <4>2. pte[p][u] # f
        BY <4>1, <2>3 DEF out
      <4> QED
        BY <3>1, <4>1, <4>2, <1>4, <1>7
    <3>3. u \notin Touches[p] /\ T[u] # NoFrame => T[u] \in Segments(shm_pool)
      BY <3>1, <1>8 DEF EntriesOK
    <3>4. B[u] => u \in Touches[p]
      BY <3>1, <1>8 DEF EntriesOK
    <3> QED
      BY <3>2, <3>3, <3>4
  <2> QED
    BY <2>1, <2>2, <2>3
<1>11. \A e \in Frames : e \notin Elems(fifo[p]) \cup free => virtual'[e] = virtual[e]
  BY <1>2, <1>7
<1>12. live' \subseteq Procs
  BY <1>1 DEF PageInv
<1>13. \A q \in Procs \ live' : q # p => q \notin live
  BY <1>1
<1>14. p \in live' \/ \A u \in Pages : T[u] = NoFrame
  BY <1>1, <1>9
<1>15. /\ pte' = [pte EXCEPT ![p] = T] /\ T \in [Pages -> Frames \cup {NoFrame}]
       /\ shm_pool' = shm_pool
  BY <1>1, <1>2
<1> QED
  BY <1>5, <1>6, <1>10, <1>11, <1>12, <1>13, <1>14, <1>15, PageChanges

LEMMA PageShmget ==
  ASSUME FrameInv, PageInv, NEW k \in Keys, NEW n \in ShmPages, NEW F \in [1 .. n -> Frames],
         shmget(k, F)
  PROVE  PageInv'
<1>1. /\ shm_pool[k] = << >> /\ shm_pool' = [shm_pool EXCEPT ![k] = F]
      /\ UNCHANGED <<live, fifo, virtual, pte, g>>
  BY DEF shmget, tables
<1>2. \A j \in Keys \ {k} : shm_pool'[j] = shm_pool[j]
  BY <1>1 DEF FrameInv, VmTypes
<1>3. Segments(shm_pool) \subseteq Segments(shm_pool')
  <2>1. ASSUME NEW j \in Keys, NEW f \in Elems(shm_pool[j])
        PROVE  f \in Segments(shm_pool')
    <3>1. j # k
      BY <1>1, NothingHeld
    <3>2. shm_pool'[j] = shm_pool[j]
      BY <3>1, <1>2
    <3> QED
      BY <3>2 DEF Segments
  <2> QED
    BY <2>1 DEF Segments
<1>4. \A p \in Procs :
        EntriesOK(pte[p], g[p], fifo[p], virtual, Segments(shm_pool'), Touches[p])
  BY <1>3 DEF PageInv, EntriesOK
<1> QED
  BY <1>1, <1>4 DEF PageInv

\* shmat binds pages the program does not use as its own to frames of the
\* segment, at the places its loop reaches, and leaves the others alone.
LEMMA ShmatBinds ==
  ASSUME FrameInv, PageInv, NEW p \in Procs, NEW k \in Keys, NEW v \in Pages, shmat(p, k, v)
  PROVE  /\ v \in Attaches[p] /\ pte[p][v] = NoFrame /\ p \in live
         /\ \E T \in [Pages -> Frames \cup {NoFrame}], B \in [Pages -> BOOLEAN] :
              /\ pte' = [pte EXCEPT ![p] = T] /\ g' = [g EXCEPT ![p] = B]
              /\ \A u \in Pages :
                   \/ T[u] = pte[p][u] /\ (B[u] => g[p][u])
                   \/ /\ u \notin Touches[p] /\ T[u] \in Segments(shm_pool) /\ ~B[u]
                      /\ apart' => pte[p][u] = NoFrame
<1> DEFINE N(u) == {i \in 0 .. (Len(shm_pool[k]) - 1) : Bound(k, v, u, i)}
           T == [u \in Pages |-> IF N(u) = {} THEN pte[p][u]
                                 ELSE shm_pool[k][(CHOOSE i \in N(u) : TRUE) + 1]]
           B == [u \in Pages |-> g[p][u] /\ N(u) = {}]
<1>1. /\ v \in Attaches[p] /\ pte[p][v] = NoFrame /\ p \in live /\ shm_pool[k] # << >>
      /\ pte' = [pte EXCEPT ![p] = T] /\ g' = [g EXCEPT ![p] = B]
      /\ apart' => \A u \in Pages : pte[p][u] = NoFrame \/ N(u) = {}
  BY DEF shmat
<1>2. /\ VmTypes /\ pte[p] \in [Pages -> Frames \cup {NoFrame}] /\ g[p] \in [Pages -> BOOLEAN]
  BY DEF FrameInv, VmTypes, PageInv
<1>3. /\ shm_pool[k] \in Seq(Frames) /\ Len(shm_pool[k]) \in ShmPages \cup {0}
      /\ Elems(shm_pool[k]) \subseteq Segments(shm_pool)
  BY <1>2 DEF VmTypes, Segments
<1>4. ASSUME NEW u \in Pages, N(u) # {}
      PROVE  u \notin Touches[p] /\ T[u] \in Elems(shm_pool[k]) /\ T[u] \in Frames
  <2> DEFINE i == CHOOSE i \in N(u) : TRUE
  <2>1. i \in N(u)
    BY <1>4
  <2>2. i \in 0 .. (Len(shm_pool[k]) - 1) /\ Bound(k, v, u, i)
    BY <2>1
  <2>3. T[u] = shm_pool[k][i + 1]
    BY <1>4
  <2> HIDE DEF i, N, T
  <2>4. At(v, i) = u
    BY <2>2 DEF Bound
  <2>5. Len(shm_pool[k]) \in ShmPages
    BY <1>3, <2>2
  <2>6. At(v, i) \notin Touches[p]
    BY <2>2, <2>5, <1>1, VmAssumption
  <2>7. i + 1 \in 1 .. Len(shm_pool[k])
    BY <2>2, <1>3
  <2> QED
    BY <2>2, <2>3, <2>4, <2>5, <2>6, <2>7, <1>3 DEF Elems
<1>5. \A u \in Pages : /\ N(u) = {} => T[u] = pte[p][u]
                       /\ B[u] => g[p][u] /\ N(u) = {}
  OBVIOUS
<1>6. T = [u \in Pages |-> T[u]] /\ B \in [Pages -> BOOLEAN]
  BY <1>2
<1> HIDE DEF N, T, B
<1>7. T \in [Pages -> Frames \cup {NoFrame}]
  <2>1. \A u \in Pages : T[u] \in Frames \cup {NoFrame}
    BY <1>2, <1>4, <1>5
  <2> QED
    BY <2>1, <1>6
<1>8. \A u \in Pages :
        \/ T[u] = pte[p][u] /\ (B[u] => g[p][u])
        \/ /\ u \notin Touches[p] /\ T[u] \in Segments(shm_pool) /\ ~B[u]
           /\ apart' => pte[p][u] = NoFrame
  <2> SUFFICES ASSUME NEW u \in Pages
               PROVE  \/ T[u] = pte[p][u] /\ (B[u] => g[p][u])
                      \/ /\ u \notin Touches[p] /\ T[u] \in Segments(shm_pool) /\ ~B[u]
                         /\ apart' => pte[p][u] = NoFrame
    OBVIOUS
  <2>1. CASE N(u) = {}
    BY <2>1, <1>5
  <2>2. CASE N(u) # {}
    BY <2>2, <1>1, <1>3, <1>4, <1>5
  <2> QED
    BY <2>1, <2>2
<1> QED
  BY <1>1, <1>6, <1>7, <1>8

LEMMA PageShmat ==
  ASSUME FrameInv, PageInv, NEW p \in Procs, NEW k \in Keys, NEW v \in Pages, shmat(p, k, v)
  PROVE  PageInv'
<1>1. PICK T \in [Pages -> Frames \cup {NoFrame}], B \in [Pages -> BOOLEAN] :
        /\ pte' = [pte EXCEPT ![p] = T] /\ g' = [g EXCEPT ![p] = B]
        /\ \A u \in Pages :
             \/ T[u] = pte[p][u] /\ (B[u] => g[p][u])
             \/ u \notin Touches[p] /\ T[u] \in Segments(shm_pool) /\ ~B[u]
  BY ShmatBinds
<1>2. p \in live
  BY ShmatBinds
<1>3. UNCHANGED <<fifo, virtual, shm_pool, live>>
  BY DEF shmat, frameVars
<1>4. fifo' = [fifo EXCEPT ![p] = fifo[p]]
  BY <1>3 DEF FrameInv, VmTypes
<1>5. EntriesOK(T, B, fifo[p], virtual', Segments(shm_pool), Touches[p])
  BY <1>1, <1>3 DEF PageInv, EntriesOK
<1>6. live' \subseteq Procs
  BY <1>3 DEF PageInv
<1>7. \A q \in Procs \ live' : q # p => q \notin live
  BY <1>3
<1>8. \A f \in Frames : f \notin Elems(fifo[p]) \cup free => virtual'[f] = virtual[f]
  BY <1>3
<1>9. p \in live' /\ shm_pool' = shm_pool
  BY <1>2, <1>3
<1>10. pte' = [pte EXCEPT ![p] = T] /\ g' = [g EXCEPT ![p] = B]
  BY <1>1
<1> QED
  BY <1>4, <1>5, <1>6, <1>7, <1>8, <1>9, <1>10, PageChanges

LEMMA PageStays ==
  ASSUME PageInv, UNCHANGED <<pte, g, fifo, virtual, shm_pool, live>>
  PROVE  PageInv'
  BY DEF PageInv

\* Actions that leave page tables and frames alone.
LEMMA TablesStay ==
  ASSUME NEW p \in Procs, NEW v \in Pages,
         \/ activateMemory(p) \/ Load(p, v) \/ \E x \in Data[p][v] : Store(p, v, x)
         \/ tlb_refill(p, v) \/ tlb_read_handler(p, v) \/ swap_abandoned(p)
  PROVE  UNCHANGED <<pte, g, info, fifo, virtual, free, shm_pool, live>>
<1>1. activateMemory(p) => UNCHANGED <<pte, g, info, fifo, virtual, free, shm_pool, live>>
  BY DEF activateMemory, tables, frameVars
<1>2. (Load(p, v) \/ \E x \in Data[p][v] : Store(p, v, x))
        => UNCHANGED <<pte, g, info, fifo, virtual, free, shm_pool, live>>
  BY DEF Load, Store, Access, tables, frameVars
<1>3. (tlb_refill(p, v) \/ tlb_read_handler(p, v))
        => UNCHANGED <<pte, g, info, fifo, virtual, free, shm_pool, live>>
  BY DEF tlb_refill, tlb_read_handler, tables, frameVars
<1>4. swap_abandoned(p) => UNCHANGED <<pte, g, info, fifo, virtual, free, shm_pool, live>>
  BY DEF swap_abandoned, tables, frameVars
<1> QED
  BY <1>1, <1>2, <1>3, <1>4

\* The frames behind the pages of every process, in every reachable state.
THEOREM PageInvariant == Spec => []PageInv
<1>1. Init => PageInv
  BY PageInit
<1>2. FrameInv /\ PageInv /\ [Next]_vars => PageInv'
  <2> SUFFICES ASSUME FrameInv, PageInv, [Next]_vars PROVE PageInv'
    OBVIOUS
  <2>1. CASE UNCHANGED vars
    BY <2>1, PageStays DEF vars, tables, frameVars, PageInv
  <2>2. ASSUME NEW p \in Procs, create_mm_struct(p) \/ free_mm_struct(p)
        PROVE  PageInv'
    BY <2>2, PageCreate, PageFree
  <2>3. ASSUME NEW p \in Procs, activateMemory(p) PROVE PageInv'
    BY <2>3, PageStays DEF activateMemory, tables, frameVars
  <2>4. ASSUME NEW p \in Procs, NEW v \in Pages,
               \/ Load(p, v) \/ \E x \in Data[p][v] : Store(p, v, x)
               \/ tlb_refill(p, v) \/ tlb_read_handler(p, v)
        PROVE  PageInv'
    <3>1. UNCHANGED <<pte, g, info, fifo, virtual, free, shm_pool, live>>
      BY <2>4, TablesStay
    <3> QED
      BY <3>1, PageStays
  <2>5. ASSUME NEW p \in Procs, NEW v \in Pages, NEW f \in Frames, do_pagefault(p, v, f)
        PROVE  PageInv'
    BY <2>5, PagePagefault
  <2>6. ASSUME NEW p \in Procs, NEW v \in Pages, do_pagefault_swaps(p, v)
        PROVE  PageInv'
    <3>1. Faults(p, v) /\ fifo[p] # << >> /\ (swap_one_page(p, v) \/ swap_abandoned(p))
      BY <2>6 DEF do_pagefault_swaps, Swaps
    <3>2. CASE swap_abandoned(p)
      <4>1. UNCHANGED <<pte, g, info, fifo, virtual, free, shm_pool, live>>
        BY <3>2, TablesStay
      <4> QED
        BY <4>1, PageStays
    <3> QED
      BY <3>1, <3>2, PageSwap
  <2>7. ASSUME NEW p \in Procs, NEW v \in Pages, NEW k \in Keys, shmat(p, k, v)
        PROVE  PageInv'
    BY <2>7, PageShmat
  <2>8. ASSUME NEW k \in Keys, NEW n \in ShmPages, NEW F \in [1 .. n -> Frames], shmget(k, F)
        PROVE  PageInv'
    BY <2>8, PageShmget
  <2>9. ASSUME NEW p \in Procs, NEW v \in Pages, swap_of_nothing(p, v)
        PROVE  PageInv'
    BY <2>9, PageStays DEF swap_of_nothing, tables, frameVars
  <2> QED
    BY <2>1, <2>2, <2>3, <2>4, <2>5, <2>6, <2>7, <2>8, <2>9 DEF Next
<1> QED
  BY <1>1, <1>2, FrameInvariant, PTL DEF Spec

-----------------------------------------------------------------------------
(* The TLB, until a program is served by an entry of another.             *)

Halves(u) == {Page(u, h) : h \in 0 .. 1}

EntryRec == [asid : Procs \cup {0}, vpn2 : Int, g : BOOLEAN,
             lo : [0 .. 1 -> Frames \cup {NoFrame}]]

\* Entry e, unless it is as init_tlb left it, is some process's, and of either
\* page of its pair it has the frame of the page table or none.
EntryOK(e, T) ==
  e.vpn2 # -1 =>
    /\ e.asid \in Procs /\ e.vpn2 \in Nat /\ Halves(e.vpn2) \subseteq Pages
    /\ \A h \in 0 .. 1 : e.lo[h] \in {NoFrame, T[e.asid][Page(e.vpn2, h)]}

TlbInv ==
  /\ asid = mm_current
  /\ tlb \in [Slots -> EntryRec]
  /\ \A s \in Slots : EntryOK(tlb[s], pte)
  /\ \A s, t \in Slots :
       tlb[s].vpn2 # -1 /\ tlb[s].vpn2 = tlb[t].vpn2 /\ tlb[s].asid = tlb[t].asid => s = t

\* A page and its place in a pair.
LEMMA PairOf ==
  ASSUME NEW v \in Pages
  PROVE  /\ Pair(v) \in Nat /\ Half(v) \in 0 .. 1 /\ Page(Pair(v), Half(v)) = v
         /\ v \in Halves(Pair(v)) /\ Halves(Pair(v)) \subseteq Pages
<1>1. v \in Nat
  BY VmAssumption
<1>2. Pair(v) \in Nat /\ Half(v) \in 0 .. 1 /\ Page(Pair(v), Half(v)) = v
  BY <1>1 DEF Pair, Half, Page
<1>3. Page(Pair(v), 0) \in Pages /\ Page(Pair(v), 1) \in Pages
  BY <1>1, VmAssumption DEF Pair, Page
<1>4. \A h \in 0 .. 1 : h = 0 \/ h = 1
  OBVIOUS
<1>5. Halves(Pair(v)) \subseteq Pages
  BY <1>3, <1>4 DEF Halves
<1>6. v \in Halves(Pair(v))
  BY <1>2 DEF Halves
<1> QED
  BY <1>2, <1>5, <1>6

\* The place of a page is no other page's.
LEMMA OnePlace ==
  ASSUME NEW u \in Nat, NEW h \in 0 .. 1
  PROVE  Pair(Page(u, h)) = u /\ Half(Page(u, h)) = h
  BY DEF Pair, Half, Page

\* The entry the hardware finds for a page of p is p's own, and tlb_reset leaves
\* EntryHi as it was.
LEMMA MatchIsOwn ==
  ASSUME NEW p \in Procs, NEW v \in Pages, NEW V, v \in V, p = asid, FindsOwn(V)
  PROVE  /\ \A s \in Slots : Matches(s, p, v) =>
              tlb[s].asid = p /\ tlb[s].vpn2 = Pair(v) /\ tlb[s].vpn2 # -1
         /\ \A a \in EntryHiAfter(p, v) : a = p
<1>1. ASSUME NEW s \in Slots, Matches(s, p, v)
      PROVE  tlb[s].asid = p /\ tlb[s].vpn2 = Pair(v) /\ tlb[s].vpn2 # -1
  <2>1. tlb[s].vpn2 = Pair(v) /\ Pair(v) \in Nat
    BY <1>1, PairOf DEF Matches
  <2>2. tlb[s].asid = p
    BY <1>1 DEF FindsOwn
  <2>3. Pair(v) # -1
    BY <2>1
  <2> QED
    BY <2>1, <2>2, <2>3
<1>2. \A a \in EntryHiAfter(p, v) : a = p
  BY <1>1 DEF EntryHiAfter
<1> QED
  BY <1>1, <1>2

LEMMA TlbInit == Init => TlbInv
<1> SUFFICES ASSUME Init PROVE TlbInv
  OBVIOUS
<1>1. tlb = [s \in Slots |-> init_tlb]
  BY DEF Init
<1>2. init_tlb \in EntryRec /\ init_tlb.vpn2 = -1
  BY DEF init_tlb, EntryRec
<1> HIDE DEF init_tlb
<1>3. \A s \in Slots : tlb[s].vpn2 = -1
  BY <1>1, <1>2
<1> QED
  BY <1>1, <1>2, <1>3 DEF Init, TlbInv, EntryOK

\* Entries keep their place and owner and lose frames at most, those of the
\* pages V of p in any case.
Shrinks(p, V) ==
  \A s \in Slots :
    /\ tlb'[s].vpn2 = tlb[s].vpn2 /\ tlb'[s].asid = tlb[s].asid
    /\ tlb'[s].g => tlb[s].g
    /\ \A h \in 0 .. 1 :
         /\ tlb'[s].lo[h] \in {NoFrame, tlb[s].lo[h]}
         /\ tlb[s].vpn2 # -1 /\ tlb[s].asid = p /\ Page(tlb[s].vpn2, h) \in V
              => tlb'[s].lo[h] = NoFrame

\* Outside V the table of p has a new frame only where it had none.
LEMMA TlbShrinks ==
  ASSUME TlbInv, NEW p \in Procs, NEW T, NEW V,
         tlb' \in [Slots -> EntryRec], pte' = [pte EXCEPT ![p] = T], FrameInv,
         Shrinks(p, V), asid' = mm_current',
         \A v \in Pages \ V : T[v] = pte[p][v] \/ pte[p][v] = NoFrame
  PROVE  TlbInv'
<1> USE DEF Shrinks
<1>1. pte'[p] = T /\ \A q \in Procs \ {p} : pte'[q] = pte[q]
  BY DEF FrameInv, VmTypes
<1>2. ASSUME NEW s \in Slots PROVE EntryOK(tlb'[s], pte')
  <2> SUFFICES ASSUME tlb'[s].vpn2 # -1
               PROVE  /\ tlb'[s].asid \in Procs /\ tlb'[s].vpn2 \in Nat
                      /\ Halves(tlb'[s].vpn2) \subseteq Pages
                      /\ \A h \in 0 .. 1 :
                           tlb'[s].lo[h] \in {NoFrame, pte'[tlb'[s].asid][Page(tlb'[s].vpn2, h)]}
    BY DEF EntryOK
  <2>1. tlb'[s].vpn2 = tlb[s].vpn2 /\ tlb'[s].asid = tlb[s].asid
    OBVIOUS
  <2>2. /\ tlb[s].asid \in Procs /\ tlb[s].vpn2 \in Nat /\ Halves(tlb[s].vpn2) \subseteq Pages
        /\ \A h \in 0 .. 1 : tlb[s].lo[h] \in {NoFrame, pte[tlb[s].asid][Page(tlb[s].vpn2, h)]}
    BY <2>1 DEF TlbInv, EntryOK
  <2>3. ASSUME NEW h \in 0 .. 1
        PROVE  tlb'[s].lo[h] \in {NoFrame, pte'[tlb[s].asid][Page(tlb[s].vpn2, h)]}
    <3> DEFINE w == Page(tlb[s].vpn2, h)
               q == tlb[s].asid
    <3>1. tlb'[s].lo[h] \in {NoFrame, tlb[s].lo[h]} /\ tlb[s].lo[h] \in {NoFrame, pte[q][w]}
      BY <2>2
    <3>2. CASE q # p
      BY <3>1, <3>2, <1>1, <2>2
    <3>3. CASE q = p /\ w \in V
      BY <3>3, <2>1
    <3>4. CASE q = p /\ w \notin V
      <4>1. w \in Pages \ V
        BY <3>4, <2>2 DEF Halves
      <4>2. T[w] = pte[p][w] \/ pte[p][w] = NoFrame
        BY <4>1
      <4> QED
        BY <3>1, <3>4, <4>2, <1>1
    <3> QED
      BY <3>2, <3>3, <3>4
  <2> QED
    BY <2>1, <2>2, <2>3
<1>3. \A s, t \in Slots :
        tlb'[s].vpn2 # -1 /\ tlb'[s].vpn2 = tlb'[t].vpn2 /\ tlb'[s].asid = tlb'[t].asid => s = t
  BY DEF TlbInv
<1> QED
  BY <1>2, <1>3 DEF TlbInv

\* No entry changes.
LEMMA TlbKept ==
  ASSUME TlbInv, FrameInv, NEW p \in Procs, NEW T,
         tlb' = tlb, pte' = [pte EXCEPT ![p] = T], asid' = mm_current',
         \A v \in Pages : T[v] = pte[p][v] \/ pte[p][v] = NoFrame
  PROVE  TlbInv'
<1>1. tlb' \in [Slots -> EntryRec]
  BY DEF TlbInv
<1>2. Shrinks(p, {})
  BY DEF Shrinks
<1>3. \A v \in Pages \ {} : T[v] = pte[p][v] \/ pte[p][v] = NoFrame
  OBVIOUS
<1> QED
  BY <1>1, <1>2, <1>3, TlbShrinks

\* tlb_reset takes the pages V of p from the TLB.
LEMMA TlbResets ==
  ASSUME TlbInv, FrameInv, NEW p \in Procs, NEW T, NEW V,
         V \subseteq Pages, p = asid, FindsOwn(V), asid' = mm_current',
         tlb_reset(p, V), pte' = [pte EXCEPT ![p] = T],
         \A v \in Pages \ V : T[v] = pte[p][v] \/ pte[p][v] = NoFrame
  PROVE  TlbInv'
<1>2. tlb \in [Slots -> EntryRec] /\ \A s \in Slots : EntryOK(tlb[s], pte)
  BY DEF TlbInv
<1>3. ASSUME NEW s \in Slots, \E v \in V : Matches(s, p, v)
      PROVE  /\ tlb[s].asid = p
             /\ tlb'[s] = [asid |-> p, vpn2 |-> tlb[s].vpn2,
                           g |-> tlb[s].g /\ \A v \in V : Matches(s, p, v) => g[p][v],
                           lo |-> [h \in 0..1 |->
                              IF Page(tlb[s].vpn2, h) \in V THEN NoFrame ELSE tlb[s].lo[h]]]
  <2>1. tlb[s].asid = p
    BY <1>3, MatchIsOwn
  <2>2. tlb'[s] = [tlb[s] EXCEPT
                     !.g = @ /\ \A v \in V : Matches(s, p, v) => g[p][v],
                     !.lo = [h \in 0..1 |->
                               IF Page(tlb[s].vpn2, h) \in V THEN NoFrame ELSE @[h]]]
    BY <1>3 DEF tlb_reset
  <2>3. tlb[s] \in EntryRec
    BY <1>2
  <2> QED
    BY <2>1, <2>2, <2>3 DEF EntryRec
<1>4. \A s \in Slots : ~(\E v \in V : Matches(s, p, v)) => tlb'[s] = tlb[s]
  BY DEF tlb_reset
<1>5. tlb' = [s \in Slots |-> tlb'[s]]
  BY DEF tlb_reset
<1>6. ASSUME NEW s \in Slots
      PROVE  /\ tlb'[s] \in EntryRec
             /\ tlb'[s].vpn2 = tlb[s].vpn2 /\ tlb'[s].asid = tlb[s].asid
             /\ tlb'[s].g => tlb[s].g
             /\ \A h \in 0 .. 1 :
                  /\ tlb'[s].lo[h] \in {NoFrame, tlb[s].lo[h]}
                  /\ tlb[s].vpn2 # -1 /\ tlb[s].asid = p /\ Page(tlb[s].vpn2, h) \in V
                       => tlb'[s].lo[h] = NoFrame
  <2>1. tlb[s] \in EntryRec
    BY <1>2
  <2>2. CASE \E v \in V : Matches(s, p, v)
    <3> DEFINE L == [h \in 0..1 |->
                       IF Page(tlb[s].vpn2, h) \in V THEN NoFrame ELSE tlb[s].lo[h]]
               G == tlb[s].g /\ \A v \in V : Matches(s, p, v) => g[p][v]
    <3>1. tlb'[s] = [asid |-> p, vpn2 |-> tlb[s].vpn2, g |-> G, lo |-> L] /\ tlb[s].asid = p
      BY <2>2, <1>3
    <3>2. L \in [0 .. 1 -> Frames \cup {NoFrame}]
      BY <2>1 DEF EntryRec
    <3>3. \A h \in 0 .. 1 : /\ L[h] \in {NoFrame, tlb[s].lo[h]}
                            /\ Page(tlb[s].vpn2, h) \in V => L[h] = NoFrame
      OBVIOUS
    <3>4. G \in BOOLEAN /\ (G => tlb[s].g)
      BY <2>1 DEF EntryRec
    <3> HIDE DEF L, G
    <3>5. tlb'[s] \in EntryRec
      BY <2>1, <3>1, <3>2, <3>4 DEF EntryRec
    <3> QED
      BY <3>1, <3>3, <3>4, <3>5
  <2>3. CASE ~(\E v \in V : Matches(s, p, v))
    <3>1. tlb'[s] = tlb[s]
      BY <2>3, <1>4
    <3>2. ASSUME NEW h \in 0 .. 1, tlb[s].vpn2 # -1, tlb[s].asid = p,
                 Page(tlb[s].vpn2, h) \in V
          PROVE  FALSE
      <4>1. tlb[s].vpn2 \in Nat
        BY <1>2, <3>2 DEF EntryOK
      <4>2. Pair(Page(tlb[s].vpn2, h)) = tlb[s].vpn2
        BY <4>1, OnePlace
      <4>3. Matches(s, p, Page(tlb[s].vpn2, h))
        BY <4>2, <3>2 DEF Matches
      <4> QED
        BY <4>3, <3>2, <2>3
    <3> QED
      BY <2>1, <3>1, <3>2
  <2> QED
    BY <2>2, <2>3
<1>7. tlb' \in [Slots -> EntryRec]
  BY <1>5, <1>6
<1>8. Shrinks(p, V)
  BY <1>6 DEF Shrinks
<1> QED
  BY <1>7, <1>8, TlbShrinks

\* What the handlers write for a page of the running program.
LEMMA EntryOfPage ==
  ASSUME PageInv, FrameInv, NEW p \in Procs, p = asid, NEW v \in Pages
  PROVE  /\ Entry(p, v) \in EntryRec /\ EntryOK(Entry(p, v), pte)
         /\ Entry(p, v).asid = p /\ Entry(p, v).vpn2 = Pair(v)
<1> DEFINE G == \A h \in 0..1 : g[p][Page(Pair(v), h)]
           L == [h \in 0..1 |-> pte[p][Page(Pair(v), h)]]
<1>1. Entry(p, v) = [asid |-> p, vpn2 |-> Pair(v), g |-> G, lo |-> L]
  BY DEF Entry
<1>2. Pair(v) \in Nat /\ \A h \in 0..1 : Page(Pair(v), h) \in Pages
  BY PairOf DEF Halves
<1>3. pte[p] \in [Pages -> Frames \cup {NoFrame}] /\ g[p] \in [Pages -> BOOLEAN]
  BY DEF FrameInv, VmTypes, PageInv
<1>4. L \in [0 .. 1 -> Frames \cup {NoFrame}]
  BY <1>2, <1>3
<1>5. G \in BOOLEAN
  OBVIOUS
<1>6. Halves(Pair(v)) \subseteq Pages
  BY PairOf
<1>7. \A h \in 0..1 : L[h] = pte[p][Page(Pair(v), h)]
  OBVIOUS
<1> HIDE DEF G, L
<1>8. Entry(p, v) \in EntryRec
  BY <1>1, <1>2, <1>4, <1>5 DEF EntryRec
<1>9. EntryOK(Entry(p, v), pte)
  BY <1>1, <1>2, <1>6, <1>7 DEF EntryOK
<1> QED
  BY <1>1, <1>8, <1>9

\* tlbwi replaces the entry of the page, tlbwr any one if the page has none.
LEMMA TlbWrites ==
  ASSUME PageInv, FrameInv, TlbInv, NEW p \in Procs, p = asid,
         NEW v \in Pages, NEW s \in Slots, FindsOwn({v}), asid' = mm_current',
         tlb' = [tlb EXCEPT ![s] = Entry(p, v)], pte' = pte,
         Matches(s, p, v) \/ \A t \in Slots : ~Matches(t, p, v)
  PROVE  TlbInv'
<1>1. /\ Entry(p, v) \in EntryRec /\ EntryOK(Entry(p, v), pte)
      /\ Entry(p, v).asid = p /\ Entry(p, v).vpn2 = Pair(v)
  BY EntryOfPage
<1>2. tlb \in [Slots -> EntryRec] /\ \A t \in Slots : EntryOK(tlb[t], pte)
  BY DEF TlbInv
<1>3. tlb'[s] = Entry(p, v) /\ \A t \in Slots \ {s} : tlb'[t] = tlb[t]
  BY <1>2
<1>4. tlb' \in [Slots -> EntryRec]
  BY <1>1, <1>2
<1>5. \A t \in Slots : EntryOK(tlb'[t], pte')
  BY <1>1, <1>2, <1>3
\* No other entry is of this pair and of p.
<1>6. ASSUME NEW t \in Slots \ {s}, tlb[t].vpn2 = Pair(v), tlb[t].asid = p
      PROVE  FALSE
  <2>1. Matches(t, p, v)
    BY <1>6 DEF Matches
  <2>2. Matches(s, p, v)
    BY <2>1
  <2>3. tlb[s].asid = p /\ tlb[s].vpn2 = Pair(v) /\ tlb[s].vpn2 # -1
    BY <2>2, MatchIsOwn
  <2> QED
    BY <2>3, <1>6 DEF TlbInv
<1>7. ASSUME NEW a \in Slots, NEW b \in Slots, tlb'[a].vpn2 # -1,
             tlb'[a].vpn2 = tlb'[b].vpn2, tlb'[a].asid = tlb'[b].asid
      PROVE  a = b
  <2>1. CASE a = s
    BY <2>1, <1>1, <1>3, <1>6, <1>7
  <2>2. CASE b = s
    BY <2>2, <1>1, <1>3, <1>6, <1>7
  <2>3. CASE a # s /\ b # s
    BY <2>3, <1>3, <1>7 DEF TlbInv
  <2> QED
    BY <2>1, <2>2, <2>3
<1> QED
  BY <1>4, <1>5, <1>7 DEF TlbInv

LEMMA TlbStays ==
  ASSUME TlbInv, UNCHANGED <<tlb, pte>>, asid' = mm_current'
  PROVE  TlbInv'
  BY DEF TlbInv

LEMMA TlbCreate ==
  ASSUME FrameInv, PageInv, TlbInv, NEW p \in Procs, create_mm_struct(p)
  PROVE  TlbInv'
<1> DEFINE T == [v \in Pages |-> NoFrame]
<1>1. /\ tlb' = tlb /\ pte' = [pte EXCEPT ![p] = T] /\ p \notin live
      /\ asid' = mm_current'
  BY DEF create_mm_struct, Unmapped, TlbInv
<1>2. \A v \in Pages : T[v] = pte[p][v] \/ pte[p][v] = NoFrame
  BY <1>1 DEF PageInv
<1> HIDE DEF T
<1> QED
  BY <1>1, <1>2, TlbKept

\* At exit every page with a frame is taken from the TLB: a frame of an own page
\* is on the fifo, bound to that page, and nothing is attached any more.
LEMMA TlbFree ==
  ASSUME FrameInv, PageInv, TlbInv, apart', NEW p \in Procs, free_mm_struct(p)
  PROVE  TlbInv'
<1> DEFINE T == [v \in Pages |-> NoFrame]
           V == {virtual[f] : f \in Held(p)}
<1>1. /\ tlb_reset(p, V) /\ pte' = [pte EXCEPT ![p] = T] /\ FindsOwn(V)
      /\ \A v \in Pages \ Touches[p] : pte[p][v] = NoFrame
      /\ p = mm_current /\ mm_current' = mm_current
      /\ asid' \in IF fifo[p] = << >> THEN {asid} ELSE EntryHiAfter(p, virtual[fifo[p][pf_num(p)]])
  BY DEF free_mm_struct, Unmapped
<1>2. Held(p) = Elems(fifo[p]) /\ fifo[p] \in Seq(Frames)
  BY DEF Held, Elems, pf_num, FrameInv, VmTypes
<1>3. V \subseteq Touches[p]
  BY <1>2 DEF FrameInv, TableOK
<1>4. ASSUME NEW v \in Pages \ V PROVE pte[p][v] = NoFrame
  <2>1. v \in Touches[p] /\ pte[p][v] # NoFrame
          => pte[p][v] \in Elems(fifo[p]) /\ virtual[pte[p][v]] = v
    BY DEF PageInv, EntriesOK
  <2> QED
    BY <2>1, <1>1, <1>2
<1>5. V \subseteq Pages /\ p = asid
  BY <1>1, <1>3, VmAssumption DEF TlbInv
<1>6. asid' = mm_current'
  <2>1. CASE fifo[p] = << >>
    BY <2>1, <1>1, <1>5
  <2>2. CASE fifo[p] # << >>
    <3>1. pf_num(p) \in 1 .. Len(fifo[p])
      BY <2>2, <1>2 DEF pf_num
    <3>2. fifo[p][pf_num(p)] \in Held(p)
      BY <3>1, <1>2 DEF Elems
    <3>3. virtual[fifo[p][pf_num(p)]] \in V
      BY <3>2
    <3> HIDE DEF V
    <3> QED
      BY <2>2, <3>3, <1>1, <1>5, MatchIsOwn
  <2> QED
    BY <2>1, <2>2
<1> HIDE DEF T, V
<1> QED
  BY <1>1, <1>4, <1>5, <1>6, TlbResets DEF T

LEMMA TlbPagefault ==
  ASSUME FrameInv, PageInv, TlbInv, NEW p \in Procs, NEW v \in Pages,
         NEW f \in Frames, do_pagefault(p, v, f)
  PROVE  TlbInv'
<1> DEFINE T == [pte[p] EXCEPT ![v] = f]
<1>1. /\ tlb' = tlb /\ pte' = [pte EXCEPT ![p][v] = f] /\ Faults(p, v)
      /\ asid' = mm_current'
  BY DEF do_pagefault, TlbInv
<1>2. pte[p] \in [Pages -> Frames \cup {NoFrame}] /\ pte' = [pte EXCEPT ![p] = T]
  BY <1>1 DEF FrameInv, VmTypes
<1>3. pte[p][v] = NoFrame
  BY <1>1, FaultsAtOwnPage
<1>4. \A u \in Pages : T[u] = pte[p][u] \/ pte[p][u] = NoFrame
  BY <1>2, <1>3
<1> HIDE DEF T
<1> QED
  BY <1>1, <1>2, <1>4, TlbKept

LEMMA TlbSwap ==
  ASSUME FrameInv, PageInv, TlbInv, apart', NEW p \in Procs, NEW v \in Pages,
         Faults(p, v), fifo[p] # << >>, swap_one_page(p, v)
  PROVE  TlbInv'
<1> DEFINE f == fifo[p][1]
           out == virtual[f]
           T == [pte[p] EXCEPT ![out] = NoFrame, ![v] = pte[p][out]]
<1>1. /\ pte' = [pte EXCEPT ![p][out] = NoFrame, ![p][v] = pte[p][out]]
      /\ tlb_reset(p, {out}) /\ FindsOwn({out})
      /\ asid' \in EntryHiAfter(p, out) /\ mm_current' = mm_current
  BY DEF swap_one_page
<1>2. /\ out \in Touches[p] /\ pte[p][v] = NoFrame /\ pte' = [pte EXCEPT ![p] = T]
      /\ \A u \in Pages : u # v /\ u # out => T[u] = pte[p][u]
  BY <1>1, SwapOf, ZenonT(60)
<1>3. p = asid /\ p = mm_current
  BY DEF Faults, Traps, Uses, TlbInv
<1>4. \A u \in Pages \ {out} : T[u] = pte[p][u] \/ pte[p][u] = NoFrame
  BY <1>2
<1>5. out \in Pages
  BY <1>2, VmAssumption
<1> HIDE DEF T, out, f
<1>6. asid' = mm_current'
  BY <1>1, <1>3, <1>5, MatchIsOwn
<1>7. {out} \subseteq Pages
  BY <1>5
<1> QED
  BY <1>1, <1>2, <1>3, <1>4, <1>6, <1>7, TlbResets

LEMMA TlbShmat ==
  ASSUME FrameInv, PageInv, TlbInv, apart', NEW p \in Procs, NEW k \in Keys,
         NEW v \in Pages, shmat(p, k, v)
  PROVE  TlbInv'
<1>1. PICK T \in [Pages -> Frames \cup {NoFrame}], B \in [Pages -> BOOLEAN] :
        /\ pte' = [pte EXCEPT ![p] = T]
        /\ \A u \in Pages : T[u] = pte[p][u] \/ pte[p][u] = NoFrame
  BY ShmatBinds
<1>2. tlb' = tlb /\ asid' = mm_current'
  BY DEF shmat, TlbInv
<1> QED
  BY <1>1, <1>2, TlbKept

LEMMA TlbWritten ==
  ASSUME FrameInv, PageInv, TlbInv, apart', NEW p \in Procs, NEW v \in Pages,
         tlb_refill(p, v) \/ tlb_read_handler(p, v)
  PROVE  TlbInv'
<1>1. Uses(p, v) /\ pte' = pte /\ asid' = mm_current'
  BY DEF tlb_refill, tlb_read_handler, Traps, tables, TlbInv
<1>2. p = asid
  BY <1>1 DEF Uses, TlbInv
<1>3. CASE tlb_refill(p, v)
  <2>1. PICK s \in Slots : tlb' = [tlb EXCEPT ![s] = Entry(p, v)]
    BY <1>3 DEF tlb_refill
  <2>2. (\A t \in Slots : ~Matches(t, p, v)) /\ FindsOwn({v})
    BY <1>2, <1>3 DEF tlb_refill, FindsOwn
  <2> QED
    BY <2>1, <2>2, <1>1, <1>2, TlbWrites
<1>4. CASE tlb_read_handler(p, v)
  <2>1. PICK s \in Slots : Invalid(s, v) /\ tlb' = [tlb EXCEPT ![s] = Entry(p, v)]
    BY <1>4 DEF tlb_read_handler
  <2>2. Matches(s, p, v) /\ FindsOwn({v})
    BY <2>1, <1>2, <1>4 DEF Invalid, tlb_read_handler
  <2> QED
    BY <2>1, <2>2, <1>1, <1>2, TlbWrites
<1> QED
  BY <1>3, <1>4

LEMMA TlbAbandoned ==
  ASSUME FrameInv, PageInv, TlbInv, apart', NEW p \in Procs, NEW v \in Pages,
         Faults(p, v), fifo[p] # << >>, swap_abandoned(p)
  PROVE  TlbInv'
<1> DEFINE out == virtual[fifo[p][1]]
<1>1. p = asid
  BY DEF Faults, Traps, Uses, TlbInv
<1>2. PICK s \in Slots : /\ tlb' = [tlb EXCEPT ![s] = Entry(p, out)]
                         /\ Matches(s, p, out) \/ \A t \in Slots : ~Matches(t, p, out)
  BY <1>1 DEF swap_abandoned, Invalid
<1>3. FindsOwn({out}) /\ pte' = pte /\ asid' = mm_current'
  BY DEF swap_abandoned, tables, TlbInv
<1>4. fifo[p] \in Seq(Frames) /\ Once(fifo[p])
  BY DEF FrameInv, VmTypes, MineOK
<1>5. fifo[p][1] \in Elems(fifo[p])
  BY <1>4, Rotated
<1>6. out \in Touches[p]
  BY <1>5 DEF FrameInv, TableOK
<1>7. out \in Pages
  BY <1>6, VmAssumption
<1> HIDE DEF out
<1> QED
  BY <1>1, <1>2, <1>3, <1>7, TlbWrites

\* A program that was served by another's entry stays one.
LEMMA ApartBefore ==
  ASSUME [Next]_vars, apart'
  PROVE  apart
<1>1. CASE UNCHANGED vars
  BY <1>1 DEF vars, history
<1>2. ASSUME NEW p \in Procs, create_mm_struct(p) \/ activateMemory(p) \/ free_mm_struct(p)
      PROVE  apart
  BY <1>2 DEF create_mm_struct, activateMemory, free_mm_struct, history
<1>3. ASSUME NEW p \in Procs, NEW v \in Pages,
             \/ Load(p, v) \/ \E x \in Data[p][v] : Store(p, v, x)
             \/ tlb_refill(p, v) \/ tlb_read_handler(p, v)
      PROVE  apart
  BY <1>3 DEF Load, Store, Access, tlb_refill, tlb_read_handler, history
<1>4. ASSUME NEW p \in Procs, NEW v \in Pages,
             \/ \E f \in Frames : do_pagefault(p, v, f)
             \/ do_pagefault_swaps(p, v) \/ swap_of_nothing(p, v)
      PROVE  apart
  BY <1>4 DEF do_pagefault, do_pagefault_swaps, swap_one_page, swap_abandoned, swap_of_nothing
<1>5. ASSUME NEW p \in Procs, NEW v \in Pages, NEW k \in Keys, shmat(p, k, v)
      PROVE  apart
  BY <1>5 DEF shmat
<1>6. ASSUME NEW k \in Keys, NEW n \in ShmPages, NEW F \in [1 .. n -> Frames], shmget(k, F)
      PROVE  apart
  BY <1>6 DEF shmget, history
<1> QED
  BY <1>1, <1>2, <1>3, <1>4, <1>5, <1>6 DEF Next

\* The TLB and the page tables, in every reachable state until a program is
\* served by an entry of another or attaches a segment over a page it has.
THEOREM TlbInvariant == Spec => [](apart => TlbInv)
<1>1. Init => TlbInv
  BY TlbInit
<1>2. FrameInv /\ PageInv /\ (apart => TlbInv) /\ [Next]_vars => (apart => TlbInv)'
  <2> SUFFICES ASSUME FrameInv, PageInv, apart => TlbInv, [Next]_vars, apart' PROVE TlbInv'
    OBVIOUS
  <2>0. TlbInv
    BY ApartBefore
  <2>1. CASE UNCHANGED vars
    BY <2>0, <2>1, TlbStays DEF vars, tables, TlbInv
  <2>2. ASSUME NEW p \in Procs, create_mm_struct(p) \/ free_mm_struct(p)
        PROVE  TlbInv'
    BY <2>0, <2>2, TlbCreate, TlbFree
  <2>3. ASSUME NEW p \in Procs, activateMemory(p) PROVE TlbInv'
    BY <2>0, <2>3, TlbStays DEF activateMemory, tables
  <2>4. ASSUME NEW p \in Procs, NEW v \in Pages,
               Load(p, v) \/ \E x \in Data[p][v] : Store(p, v, x)
        PROVE  TlbInv'
    BY <2>0, <2>4, TlbStays DEF Load, Store, Access, tables, TlbInv
  <2>5. ASSUME NEW p \in Procs, NEW v \in Pages, tlb_refill(p, v) \/ tlb_read_handler(p, v)
        PROVE  TlbInv'
    BY <2>0, <2>5, TlbWritten
  <2>6. ASSUME NEW p \in Procs, NEW v \in Pages, NEW f \in Frames, do_pagefault(p, v, f)
        PROVE  TlbInv'
    BY <2>0, <2>6, TlbPagefault
  <2>7. ASSUME NEW p \in Procs, NEW v \in Pages, do_pagefault_swaps(p, v)
        PROVE  TlbInv'
    <3>1. Faults(p, v) /\ fifo[p] # << >> /\ (swap_one_page(p, v) \/ swap_abandoned(p))
      BY <2>7 DEF do_pagefault_swaps, Swaps
    <3> QED
      BY <2>0, <3>1, TlbSwap, TlbAbandoned
  <2>8. ASSUME NEW p \in Procs, NEW v \in Pages, NEW k \in Keys, shmat(p, k, v)
        PROVE  TlbInv'
    BY <2>0, <2>8, TlbShmat
  <2>9. ASSUME NEW k \in Keys, NEW n \in ShmPages, NEW F \in [1 .. n -> Frames], shmget(k, F)
        PROVE  TlbInv'
    BY <2>0, <2>9, TlbStays DEF shmget, tables, TlbInv
  <2>10. ASSUME NEW p \in Procs, NEW v \in Pages, swap_of_nothing(p, v)
         PROVE  TlbInv'
    BY <2>0, <2>10, TlbStays DEF swap_of_nothing, tables, TlbInv
  <2> QED
    BY <2>1, <2>2, <2>3, <2>4, <2>5, <2>6, <2>7, <2>8, <2>9, <2>10 DEF Next
<1> QED
  BY <1>1, <1>2, FrameInvariant, PageInvariant, PTL DEF Spec

\* A valid entry loaded for p has the frame of its table.
LEMMA TranslationIsTrue ==
  ASSUME TlbInv, NEW p \in Procs, NEW v \in Pages, NEW s \in Slots, LoadedFor(s, p, v)
  PROVE  FrameIn(s, v) # NoFrame => FrameIn(s, v) = pte[p][v]
<1>1. tlb[s].asid = p /\ tlb[s].vpn2 = Pair(v)
  BY DEF LoadedFor
<1>2. Half(v) \in 0 .. 1 /\ Page(Pair(v), Half(v)) = v /\ Pair(v) \in Nat
  BY PairOf
<1>3. tlb[s].vpn2 # -1
  BY <1>1, <1>2
<1>4. tlb[s].lo[Half(v)] \in {NoFrame, pte[p][v]}
  BY <1>1, <1>2, <1>3 DEF TlbInv, EntryOK
<1> QED
  BY <1>4 DEF FrameIn

\* Whatever programs run, until one is served by an entry of another or attaches
\* a segment over a page it has: an entry loaded for a live program is the only
\* one of its pair, and if it is valid it leads to the frame in the page table.
\* Eviction, swap, exit, attachment and switch leave no stale translation behind
\* (tlb.c tlb_reset, tlb_refill; vm.c swap_one_page).
THEOREM TlbIsTrue == Spec => []TlbTellsTheTruth
<1>1. PageInv /\ (apart => TlbInv) => TlbTellsTheTruth
  <2> SUFFICES ASSUME PageInv, TlbInv, NEW p \in live,
                      NEW v \in Pages, NEW s \in Slots, LoadedFor(s, p, v)
               PROVE  /\ FrameIn(s, v) # NoFrame => FrameIn(s, v) = pte[p][v]
                      /\ \A t \in Slots : LoadedFor(t, p, v) => s = t
    BY DEF TlbTellsTheTruth
  <2>1. p \in Procs
    BY DEF PageInv
  <2>2. FrameIn(s, v) # NoFrame => FrameIn(s, v) = pte[p][v]
    BY <2>1, TranslationIsTrue
  <2>3. ASSUME NEW t \in Slots, LoadedFor(t, p, v) PROVE s = t
    <3>1. Pair(v) # -1
      <4>1. Pair(v) \in Nat
        BY PairOf
      <4> QED
        BY <4>1
    <3> QED
      BY <3>1, <2>3 DEF TlbInv, LoadedFor
  <2> QED
    BY <2>2, <2>3
<1> QED
  BY <1>1, TlbInvariant, PageInvariant, PTL

-----------------------------------------------------------------------------
(* What programs stored.                                                   *)

Values == {Garbage} \cup UNION {UNION {Data[p][v] : v \in Pages} : p \in Procs}

DataTypes ==
  /\ mem \in [Frames -> Values] /\ pages \in Seq(Values)
  /\ wrote \in [Procs -> [Pages -> Values]]
  /\ info \in [Procs -> [Pages -> Nat]]
  /\ next_free \in Nat \ {0} /\ intact \in BOOLEAN

\* Every block belongs to one page, and was taken from the file's numbers.
BlocksOnce ==
  \A p, q \in Procs : \A v, u \in Pages :
    /\ info[p][v] < next_free
    /\ info[p][v] # 0 /\ info[p][v] = info[q][u] => p = q /\ v = u

\* Programs store in their own pages; and while everything is intact, every
\* block taken is in the file and every page holds what was stored in it.
Kept ==
  /\ \A p \in Procs : \A v \in Pages : wrote[p][v] # Garbage => v \in Touches[p]
  /\ intact => next_free = Len(pages) + 1
  /\ intact => \A p \in Procs : \A v \in Pages :
       wrote[p][v] # Garbage => Content(p, v) = wrote[p][v]

DataInv == DataTypes /\ BlocksOnce /\ Kept

LEMMA DataInit == Init => DataInv
<1> SUFFICES ASSUME Init PROVE DataInv
  OBVIOUS
<1>1. Garbage \in Values
  BY DEF Values
<1>2. DataTypes
  BY <1>1 DEF Init, DataTypes
<1>3. \A p \in Procs : \A v \in Pages : info[p][v] = 0 /\ wrote[p][v] = Garbage
  BY DEF Init
<1>4. next_free = 1 /\ pages = << >>
  BY DEF Init
<1>5. Len(pages) = 0
  BY <1>4
<1> QED
  BY <1>2, <1>3, <1>4, <1>5 DEF DataInv, BlocksOnce, Kept

\* A frame is behind one own page only.
LEMMA OwnFrame ==
  ASSUME FrameInv, PageInv, NEW p \in Procs, NEW q \in Procs, NEW v \in Pages, NEW u \in Pages,
         v \in Touches[p], pte[p][v] # NoFrame, pte[q][u] = pte[p][v]
  PROVE  u \in Touches[q] => q = p /\ u = v
<1> SUFFICES ASSUME u \in Touches[q] PROVE q = p /\ u = v
  OBVIOUS
<1>1. pte[p][v] \in Elems(fifo[p]) /\ virtual[pte[p][v]] = v
  BY DEF PageInv, EntriesOK
<1>2. pte[q][u] \in Elems(fifo[q]) /\ virtual[pte[q][u]] = u
  BY DEF PageInv, EntriesOK
<1>3. q = p
  BY <1>1, <1>2 DEF FrameInv, MineOK
<1> QED
  BY <1>1, <1>2, <1>3

\* A frame behind an own page is behind no page that shares its frame.
LEMMA OwnIsNotShared ==
  ASSUME FrameInv, PageInv, NEW p \in Procs, NEW q \in Procs, NEW v \in Pages, NEW u \in Pages,
         v \in Touches[p], pte[p][v] # NoFrame, pte[q][u] = pte[p][v]
  PROVE  u \in Touches[q]
<1>1. pte[p][v] \in Elems(fifo[p])
  BY DEF PageInv, EntriesOK
<1>2. u \notin Touches[q] => pte[q][u] \in Segments(shm_pool)
  BY DEF PageInv, EntriesOK
<1> QED
  BY <1>1, <1>2 DEF FrameInv, MineOK

LEMMA DataStays ==
  ASSUME DataInv, UNCHANGED <<mem, pages, wrote, info, next_free, intact, pte>>
  PROVE  DataInv'
  BY DEF DataInv, DataTypes, BlocksOnce, Kept, Content

\* An address space begins or ends: what the others stored is not in its frames.
LEMMA DataUnmapped ==
  ASSUME FrameInv, PageInv, DataInv, NEW p \in Procs, Unmapped(p),
         mem' \in [Frames -> Values],
         \A f \in Frames : f \notin Elems(fifo[p]) => mem'[f] = mem[f],
         UNCHANGED <<next_free, pages, intact>>
  PROVE  DataInv'
<1>1. /\ pte' = [pte EXCEPT ![p] = [v \in Pages |-> NoFrame]]
      /\ info' = [info EXCEPT ![p] = [v \in Pages |-> 0]]
      /\ wrote' = [wrote EXCEPT ![p] = [v \in Pages |-> Garbage]]
  BY DEF Unmapped
<1>2. DataTypes /\ BlocksOnce /\ Kept
  BY DEF DataInv
<1>3. Garbage \in Values
  BY DEF Values
<1>4. DataTypes'
  BY <1>1, <1>2, <1>3 DEF DataTypes
<1>5. \A v \in Pages : info'[p][v] = 0 /\ wrote'[p][v] = Garbage
  BY <1>1, <1>2 DEF DataTypes
<1>6. \A q \in Procs \ {p} : pte'[q] = pte[q] /\ info'[q] = info[q] /\ wrote'[q] = wrote[q]
  BY <1>1, <1>2 DEF DataTypes, FrameInv, VmTypes
<1>7. BlocksOnce'
  <2> SUFFICES ASSUME NEW q \in Procs, NEW r \in Procs, NEW v \in Pages, NEW u \in Pages
               PROVE  /\ info'[q][v] < next_free
                      /\ info'[q][v] # 0 /\ info'[q][v] = info'[r][u] => q = r /\ v = u
    BY DEF BlocksOnce
  <2>1. next_free \in Nat \ {0}
    BY <1>2 DEF DataTypes
  <2>2. CASE q = p
    BY <2>1, <2>2, <1>5
  <2>3. CASE q # p /\ r = p
    <3>1. info'[q][v] = info[q][v] /\ info'[r][u] = 0
      BY <2>3, <1>5, <1>6
    <3> QED
      BY <3>1, <1>2 DEF BlocksOnce
  <2>4. CASE q # p /\ r # p
    <3>1. info'[q][v] = info[q][v] /\ info'[r][u] = info[r][u]
      BY <2>4, <1>6
    <3> QED
      BY <3>1, <1>2 DEF BlocksOnce
  <2> QED
    BY <2>2, <2>3, <2>4
<1>8. ASSUME NEW q \in Procs, NEW v \in Pages, wrote'[q][v] # Garbage
      PROVE  v \in Touches[q] /\ (intact' => Content(q, v)' = wrote'[q][v])
  <2>1. q # p /\ wrote[q][v] # Garbage
    BY <1>5, <1>6, <1>8
  <2>2. v \in Touches[q] /\ (intact => Content(q, v) = wrote[q][v])
    BY <2>1, <1>2 DEF Kept
  <2>3. pte[q][v] # NoFrame => mem'[pte[q][v]] = mem[pte[q][v]]
    <3> SUFFICES ASSUME pte[q][v] # NoFrame PROVE mem'[pte[q][v]] = mem[pte[q][v]]
      OBVIOUS
    <3>1. pte[q][v] \in Elems(fifo[q])
      BY <2>2 DEF PageInv, EntriesOK
    <3>2. pte[q][v] \notin Elems(fifo[p])
      BY <2>1, <3>1 DEF FrameInv, MineOK
    <3>3. pte[q][v] \in Frames
      BY DEF FrameInv, VmTypes
    <3> QED
      BY <3>2, <3>3
  <2>4. Content(q, v)' = Content(q, v)
    BY <2>1, <2>3, <1>6 DEF Content
  <2> QED
    BY <2>1, <2>2, <2>4, <1>6
<1>9. Kept'
  BY <1>2, <1>8 DEF Kept
<1> QED
  BY <1>4, <1>7, <1>9 DEF DataInv

LEMMA DataCreate ==
  ASSUME FrameInv, PageInv, DataInv, NEW p \in Procs, create_mm_struct(p)
  PROVE  DataInv'
<1>1. Unmapped(p) /\ UNCHANGED <<mem, next_free, pages, intact>>
  BY DEF create_mm_struct, diskVars
<1>2. mem' \in [Frames -> Values]
  BY <1>1 DEF DataInv, DataTypes
<1> QED
  BY <1>1, <1>2, DataUnmapped

LEMMA DataFree ==
  ASSUME FrameInv, PageInv, DataInv, NEW p \in Procs, free_mm_struct(p)
  PROVE  DataInv'
<1>1. Held(p) = Elems(fifo[p])
  BY DEF Held, Elems, pf_num
<1>2. /\ Unmapped(p) /\ UNCHANGED <<next_free, pages, intact>>
      /\ mem' = [f \in Frames |-> IF f \in Held(p) THEN Garbage ELSE mem[f]]
  BY DEF free_mm_struct, diskVars
<1>3. mem' \in [Frames -> Values]
  BY <1>2 DEF DataInv, DataTypes, Values
<1>4. \A f \in Frames : f \notin Elems(fifo[p]) => mem'[f] = mem[f]
  BY <1>1, <1>2
<1> QED
  BY <1>2, <1>3, <1>4, DataUnmapped

\* An access goes through the frame of the page table.
LEMMA AccessFrame ==
  ASSUME FrameInv, TlbInv, apart', NEW p \in Procs, NEW v \in Pages,
         NEW M, NEW w, Access(p, v, M, w)
  PROVE  /\ pte[p][v] \in Frames /\ mem' = M[pte[p][v]] /\ wrote' = w
         /\ UNCHANGED <<pte, info, next_free, pages, intact>>
<1>1. /\ Uses(p, v) /\ wrote' = w /\ UNCHANGED <<pte, info, next_free, pages, intact>>
      /\ FindsOwn({v})
  BY DEF Access, tables, diskVars
<1>2. PICK s \in Slots : Matches(s, asid, v) /\ FrameIn(s, v) # NoFrame /\ mem' = M[FrameIn(s, v)]
  BY DEF Access
<1>3. p = asid
  BY <1>1 DEF Uses, TlbInv
<1>4. FrameIn(s, v) = pte[p][v]
  <2>1. LoadedFor(s, p, v)
    BY <1>1, <1>2, <1>3, MatchIsOwn DEF LoadedFor
  <2> QED
    BY <2>1, <1>2, TranslationIsTrue
<1>5. pte[p][v] \in Frames \cup {NoFrame}
  BY DEF FrameInv, VmTypes
<1> QED
  BY <1>1, <1>2, <1>4, <1>5

LEMMA DataLoad ==
  ASSUME FrameInv, PageInv, TlbInv, DataInv, apart', NEW p \in Procs, NEW v \in Pages,
         Load(p, v)
  PROVE  DataInv'
<1>1. /\ pte[p][v] \in Frames /\ mem' = [f \in Frames |-> mem][pte[p][v]] /\ wrote' = wrote
      /\ UNCHANGED <<pte, info, next_free, pages, intact>>
  BY AccessFrame DEF Load
<1>2. mem' = mem
  BY <1>1
<1> QED
  BY <1>1, <1>2, DataStays

LEMMA DataStore ==
  ASSUME FrameInv, PageInv, TlbInv, DataInv, apart', NEW p \in Procs, NEW v \in Pages,
         NEW x \in Data[p][v], Store(p, v, x)
  PROVE  DataInv'
<1> DEFINE f == pte[p][v]
           w == IF v \in Touches[p] THEN [wrote EXCEPT ![p][v] = x] ELSE wrote
<1>1. /\ f \in Frames /\ mem' = [e \in Frames |-> [mem EXCEPT ![e] = x]][f] /\ wrote' = w
      /\ UNCHANGED <<pte, info, next_free, pages, intact>>
  BY AccessFrame DEF Store
<1>2. mem' = [mem EXCEPT ![f] = x]
  BY <1>1
<1>3. DataTypes /\ BlocksOnce /\ Kept
  BY DEF DataInv
<1>4. x \in Values
  BY DEF Values
<1>5. w \in [Procs -> [Pages -> Values]]
  BY <1>3, <1>4 DEF DataTypes
<1>6. /\ v \in Touches[p] => w[p][v] = x
      /\ v \notin Touches[p] => w[p][v] = wrote[p][v]
      /\ \A q \in Procs : \A u \in Pages : q # p \/ u # v => w[q][u] = wrote[q][u]
  BY <1>3 DEF DataTypes
<1> HIDE DEF w
<1>7. DataTypes' /\ BlocksOnce'
  BY <1>1, <1>2, <1>3, <1>4, <1>5 DEF DataTypes, BlocksOnce
<1>8. mem'[f] = x /\ \A e \in Frames : e # f => mem'[e] = mem[e]
  BY <1>1, <1>2, <1>3 DEF DataTypes
<1>9. f # NoFrame
  BY <1>1, VmAssumption
<1>10. ASSUME NEW q \in Procs, NEW u \in Pages, wrote'[q][u] # Garbage
       PROVE  u \in Touches[q] /\ (intact' => Content(q, u)' = wrote'[q][u])
  <2>1. CASE q = p /\ u = v
    <3>1. v \in Touches[p]
      BY <2>1, <1>1, <1>3, <1>6, <1>10 DEF Kept
    <3>2. Content(p, v)' = x
      BY <1>1, <1>8, <1>9 DEF Content
    <3> QED
      BY <2>1, <3>1, <3>2, <1>1, <1>6
  <2>2. CASE q # p \/ u # v
    <3>1. wrote'[q][u] = wrote[q][u]
      BY <2>2, <1>1, <1>6
    <3>2. u \in Touches[q] /\ (intact => Content(q, u) = wrote[q][u])
      BY <3>1, <1>3, <1>10 DEF Kept
    <3>3. pte[q][u] # f
      <4>1. ASSUME pte[q][u] = f PROVE FALSE
        <5>1. pte[q][u] # NoFrame /\ pte[p][v] = pte[q][u]
          BY <4>1, <1>9
        <5>2. v \in Touches[p]
          BY <5>1, <3>2, OwnIsNotShared
        <5> QED
          BY <5>1, <5>2, <3>2, <2>2, OwnFrame
      <4> QED
        BY <4>1
    <3>4. pte[q][u] \in Frames \cup {NoFrame}
      BY DEF FrameInv, VmTypes
    <3>5. Content(q, u)' = Content(q, u)
      BY <3>3, <3>4, <1>1, <1>8 DEF Content
    <3> QED
      BY <3>1, <3>2, <3>5, <1>1
  <2> QED
    BY <2>1, <2>2
<1>11. Kept'
  BY <1>1, <1>3, <1>10 DEF Kept
<1> QED
  BY <1>7, <1>11 DEF DataInv

\* A page gets a fresh frame.  As long as everything is intact it was never
\* swapped out, so nothing was stored in it.
LEMMA DataPagefault ==
  ASSUME FrameInv, PageInv, DataInv, NEW p \in Procs, NEW v \in Pages, NEW f \in Frames,
         do_pagefault(p, v, f)
  PROVE  DataInv'
<1>1. /\ Faults(p, v) /\ pte' = [pte EXCEPT ![p][v] = f]
      /\ intact' = (intact /\ info[p][v] = 0)
      /\ UNCHANGED <<info, mem, next_free, pages, wrote>>
  BY DEF do_pagefault, diskVars
<1>2. DataTypes /\ BlocksOnce /\ Kept
  BY DEF DataInv
<1>3. (intact /\ info[p][v] = 0) \in BOOLEAN
  OBVIOUS
<1>4. DataTypes' /\ BlocksOnce'
  BY <1>1, <1>2, <1>3 DEF DataTypes, BlocksOnce
<1>5. pte[p][v] = NoFrame
  BY <1>1, FaultsAtOwnPage
<1>6. \A q \in Procs : \A u \in Pages : q # p \/ u # v => pte'[q][u] = pte[q][u]
  BY <1>1 DEF FrameInv, VmTypes
<1>7. ASSUME NEW q \in Procs, NEW u \in Pages, wrote'[q][u] # Garbage
      PROVE  u \in Touches[q] /\ (intact' => Content(q, u)' = wrote'[q][u])
  <2>1. u \in Touches[q] /\ (intact => Content(q, u) = wrote[q][u]) /\ wrote[q][u] # Garbage
    BY <1>1, <1>2, <1>7 DEF Kept
  <2>2. CASE q # p \/ u # v
    <3>1. Content(q, u)' = Content(q, u)
      BY <2>2, <1>1, <1>6 DEF Content
    <3> QED
      BY <3>1, <2>1, <1>1
  <2>3. CASE q = p /\ u = v
    <3>1. ASSUME intact' PROVE FALSE
      <4>1. intact /\ info[p][v] = 0
        BY <3>1, <1>1
      <4>2. Content(p, v) = Garbage
        BY <4>1, <1>5 DEF Content
      <4> QED
        BY <4>1, <4>2, <2>1, <2>3
    <3> QED
      BY <3>1, <2>1
  <2> QED
    BY <2>2, <2>3
<1>8. Kept'
  BY <1>1, <1>2, <1>7 DEF Kept
<1> QED
  BY <1>4, <1>8 DEF DataInv

\* The file after a block was written: one block longer, or as long as before.
LEMMA BlockWritten ==
  ASSUME NEW b \in Nat \ {0}, NEW x \in Values, pages \in Seq(Values), pages' = WriteAt(b, x)
  PROVE  /\ pages' \in Seq(Values)
         /\ b <= Len(pages) => Len(pages') = Len(pages)
         /\ b = Len(pages) + 1 => Len(pages') = Len(pages) + 1
         /\ b <= Len(pages) + 1 => pages'[b] = x
         /\ \A c \in 1 .. Len(pages) : c # b => pages'[c] = pages[c]
<1>1. CASE b <= Len(pages)
  <2>1. pages' = [pages EXCEPT ![b] = x]
    BY <1>1 DEF WriteAt
  <2> QED
    BY <2>1, <1>1
<1>2. CASE ~(b <= Len(pages))
  <2>1. pages' = Append(pages, x)
    BY <1>2 DEF WriteAt
  <2> QED
    BY <2>1, <1>2
<1> QED
  BY <1>1, <1>2

\* The block a page of p goes to is no other page's, and is in the file or next.
LEMMA BlockTaken ==
  ASSUME DataTypes, BlocksOnce, NEW p \in Procs, NEW v \in Pages, TakeBlock(p, v)
  PROVE  /\ BlockOf(p, v) \in Nat \ {0} /\ BlockOf(p, v) < next_free'
         /\ next_free' \in Nat \ {0} /\ next_free <= next_free'
         /\ \A q \in Procs : \A u \in Pages :
              info[q][u] = BlockOf(p, v) => q = p /\ u = v
         /\ \/ BlockOf(p, v) = next_free /\ next_free' = next_free + 1
            \/ BlockOf(p, v) < next_free /\ next_free' = next_free
<1>1. info[p][v] \in Nat /\ next_free \in Nat \ {0} /\ info[p][v] < next_free
  BY DEF DataTypes, BlocksOnce
<1>2. CASE info[p][v] = 0
  <2>1. BlockOf(p, v) = next_free /\ next_free' = next_free + 1
    BY <1>2 DEF BlockOf, TakeBlock
  <2>2. \A q \in Procs : \A u \in Pages : info[q][u] < next_free /\ info[q][u] \in Nat
    BY DEF DataTypes, BlocksOnce
  <2>3. \A q \in Procs : \A u \in Pages : info[q][u] # next_free
    <3> SUFFICES ASSUME NEW q \in Procs, NEW u \in Pages PROVE info[q][u] # next_free
      OBVIOUS
    <3>1. info[q][u] < next_free /\ info[q][u] \in Nat
      BY <2>2
    <3> QED
      BY <3>1, <1>1
  <2>4. \A q \in Procs : \A u \in Pages : info[q][u] # BlockOf(p, v)
    BY <2>1, <2>3
  <2>5. /\ BlockOf(p, v) \in Nat \ {0} /\ BlockOf(p, v) < next_free'
        /\ next_free' \in Nat \ {0} /\ next_free <= next_free'
    BY <2>1, <1>1
  <2> QED
    BY <2>1, <2>4, <2>5
<1>3. CASE info[p][v] # 0
  <2>1. BlockOf(p, v) = info[p][v] /\ next_free' = next_free
    BY <1>3 DEF BlockOf, TakeBlock
  <2>2. \A q \in Procs : \A u \in Pages : info[q][u] = info[p][v] => q = p /\ u = v
    BY <1>3 DEF BlocksOnce
  <2> QED
    BY <2>1, <2>2, <1>1, <1>3
<1> QED
  BY <1>2, <1>3

\* The victim is read through its own frame, so its block gets what it held.
LEMMA DataSwap ==
  ASSUME FrameInv, PageInv, TlbInv, DataInv, apart', NEW p \in Procs, NEW v \in Pages,
         Faults(p, v), fifo[p] # << >>, swap_one_page(p, v)
  PROVE  DataInv'
<1> DEFINE f == fifo[p][1]
           out == virtual[f]
           b == BlockOf(p, out)
           T == [pte[p] EXCEPT ![out] = NoFrame, ![v] = pte[p][out]]
<1>1. /\ TakeBlock(p, out) /\ info' = [info EXCEPT ![p][out] = b]
      /\ pte' = [pte EXCEPT ![p][out] = NoFrame, ![p][v] = pte[p][out]]
      /\ UNCHANGED <<wrote, intact>>
  BY DEF swap_one_page, history
<1>2. PICK s \in Slots : /\ Matches(s, asid, out) /\ FrameIn(s, out) # NoFrame
                         /\ pages' = WriteAt(b, mem[FrameIn(s, out)])
                         /\ mem' = [mem EXCEPT ![FrameIn(s, out)] = LoadFrom(info[p][v], @)]
  BY DEF swap_one_page
<1>3. /\ f \in Frames /\ out \in Touches[p] /\ out \in Pages /\ out # v /\ pte[p][out] = f
      /\ v \in Touches[p] /\ pte[p][v] = NoFrame /\ pte' = [pte EXCEPT ![p] = T]
      /\ T[v] = f /\ T[out] = NoFrame
      /\ \A u \in Pages : u # v /\ u # out => T[u] = pte[p][u]
  BY <1>1, SwapOf, ZenonT(60)
<1>4. p = asid /\ FindsOwn({out})
  BY DEF Faults, Traps, Uses, TlbInv, swap_one_page
<1>5. DataTypes /\ BlocksOnce /\ Kept
  BY DEF DataInv
<1>6. f # NoFrame
  BY <1>3, VmAssumption
<1> HIDE DEF T, b, out, f
<1>7. FrameIn(s, out) = f
  <2>1. LoadedFor(s, p, out)
    BY <1>2, <1>3, <1>4, MatchIsOwn DEF LoadedFor
  <2> QED
    BY <2>1, <1>2, <1>3, TranslationIsTrue
<1>8. /\ b \in Nat \ {0} /\ b < next_free' /\ next_free' \in Nat \ {0}
      /\ next_free <= next_free'
      /\ \A q \in Procs : \A u \in Pages : info[q][u] = b => q = p /\ u = out
      /\ \/ b = next_free /\ next_free' = next_free + 1
         \/ b < next_free /\ next_free' = next_free
  BY <1>1, <1>3, <1>5, BlockTaken DEF b
<1>9. mem[f] \in Values /\ pages \in Seq(Values)
  BY <1>3, <1>5 DEF DataTypes
<1>10. pages' = WriteAt(b, mem[f])
  BY <1>2, <1>7
<1>11. /\ pages' \in Seq(Values)
       /\ b <= Len(pages) => Len(pages') = Len(pages)
       /\ b = Len(pages) + 1 => Len(pages') = Len(pages) + 1
       /\ b <= Len(pages) + 1 => pages'[b] = mem[f]
       /\ \A c \in 1 .. Len(pages) : c # b => pages'[c] = pages[c]
  BY <1>8, <1>9, <1>10, BlockWritten
\* What the frame holds afterwards.
<1> DEFINE y == LoadFrom(info[p][v], mem[f])
<1>12. mem' = [mem EXCEPT ![f] = y]
  BY <1>2, <1>7
<1>13. y \in Values
  BY <1>9, <1>11 DEF LoadFrom
<1>14. info[p][v] \in 1 .. Len(pages') => y = pages'[info[p][v]]
  BY DEF LoadFrom
<1> HIDE DEF y
<1>15. mem'[f] = y /\ \A e \in Frames : e # f => mem'[e] = mem[e]
  BY <1>3, <1>5, <1>12 DEF DataTypes
<1>16. /\ info'[p][out] = b
       /\ \A q \in Procs : \A u \in Pages : q # p \/ u # out => info'[q][u] = info[q][u]
  BY <1>1, <1>3, <1>5 DEF DataTypes
<1>17. /\ pte'[p][v] = f /\ pte'[p][out] = NoFrame
       /\ \A q \in Procs : \A u \in Pages :
            q # p \/ (u # v /\ u # out) => pte'[q][u] = pte[q][u]
  BY <1>3 DEF FrameInv, VmTypes
<1>18. DataTypes'
  <2>1. info' \in [Procs -> [Pages -> Nat]]
    BY <1>1, <1>5, <1>8 DEF DataTypes
  <2>2. mem' \in [Frames -> Values]
    BY <1>5, <1>12, <1>13 DEF DataTypes
  <2> QED
    BY <2>1, <2>2, <1>1, <1>5, <1>8, <1>11 DEF DataTypes
<1>19. BlocksOnce'
  <2> SUFFICES ASSUME NEW q \in Procs, NEW r \in Procs, NEW w \in Pages, NEW u \in Pages
               PROVE  /\ info'[q][w] < next_free'
                      /\ info'[q][w] # 0 /\ info'[q][w] = info'[r][u] => q = r /\ w = u
    BY DEF BlocksOnce
  <2>1. info[q][w] \in Nat /\ next_free \in Nat /\ info[q][w] < next_free
        /\ (info[q][w] # 0 /\ info[q][w] = info[r][u] => q = r /\ w = u)
    BY <1>5 DEF BlocksOnce, DataTypes
  <2>2. CASE q = p /\ w = out
    BY <2>2, <1>8, <1>16
  <2>3. CASE (q # p \/ w # out) /\ r = p /\ u = out
    BY <2>1, <2>3, <1>8, <1>16
  <2>4. CASE (q # p \/ w # out) /\ (r # p \/ u # out)
    BY <2>1, <2>4, <1>8, <1>16
  <2> QED
    BY <2>2, <2>3, <2>4
<1>20. intact => /\ next_free' = Len(pages') + 1 /\ b <= Len(pages) + 1
                 /\ b \in 1 .. Len(pages') /\ Len(pages) <= Len(pages')
  <2>1. intact => next_free = Len(pages) + 1
    BY <1>5 DEF Kept
  <2> QED
    BY <2>1, <1>8, <1>9, <1>11
<1>21. ASSUME NEW q \in Procs, NEW u \in Pages, wrote'[q][u] # Garbage, intact
       PROVE  Content(q, u)' = wrote'[q][u]
  <2>1. u \in Touches[q] /\ Content(q, u) = wrote[q][u] /\ wrote'[q][u] = wrote[q][u]
    BY <1>1, <1>5, <1>21 DEF Kept
  <2>2. pte[q][u] = NoFrame => info[q][u] \in 1 .. Len(pages) /\ pages[info[q][u]] = wrote[q][u]
    BY <2>1, <1>21 DEF Content
  <2>3. CASE q = p /\ u = out
    <3>1. b \in 1 .. Len(pages')
      BY <1>20, <1>21
    <3>2. info'[q][u] = b /\ pte'[q][u] = NoFrame
      BY <2>3, <1>16, <1>17
    <3>3. Content(q, u)' = pages'[b]
      BY <3>1, <3>2 DEF Content
    <3>4. pages'[b] = mem[f]
      BY <1>11, <1>20, <1>21
    <3>5. Content(q, u) = mem[f]
      BY <2>3, <1>3, <1>6 DEF Content
    <3> QED
      BY <3>3, <3>4, <3>5, <2>1
  <2>4. CASE q # p \/ u # out
    <3>1. info[q][u] # b
      BY <2>4, <1>8
    <3>2. pte[q][u] = NoFrame => /\ info[q][u] \in 1 .. Len(pages')
                                 /\ pages'[info[q][u]] = wrote[q][u]
      BY <2>2, <3>1, <1>11, <1>20, <1>21, <1>9
    <3>3. CASE q = p /\ u = v
      <4>1. Content(p, v)' = y
        BY <1>6, <1>15, <1>17 DEF Content
      <4>2. y = wrote[p][v]
        BY <3>2, <3>3, <1>3, <1>14
      <4> QED
        BY <3>3, <4>1, <4>2, <2>1
    <3>4. CASE q # p \/ u # v
      <4>1. pte'[q][u] = pte[q][u] /\ info'[q][u] = info[q][u]
        BY <2>4, <3>4, <1>16, <1>17
      <4>2. pte[q][u] # f
        <5>1. pte[p][out] = f /\ f # NoFrame
          BY <1>3, <1>6
        <5>2. pte[q][u] = pte[p][out] => q = p /\ u = out
          BY <5>1, <2>1, <1>3, OwnFrame
        <5> QED
          BY <5>1, <5>2, <2>4
      <4>3. pte[q][u] \in Frames \cup {NoFrame}
        BY DEF FrameInv, VmTypes
      <4>4. CASE pte[q][u] = NoFrame
        <5>1. Content(q, u)' = pages'[info[q][u]]
          BY <4>1, <4>4, <3>2 DEF Content
        <5> QED
          BY <5>1, <4>4, <3>2, <2>1
      <4>5. CASE pte[q][u] # NoFrame
        <5>1. Content(q, u) = mem[pte[q][u]] /\ Content(q, u)' = mem'[pte[q][u]]
          BY <4>1, <4>5 DEF Content
        <5> QED
          BY <5>1, <4>2, <4>3, <4>5, <2>1, <1>15
      <4> QED
        BY <4>4, <4>5
    <3> QED
      BY <3>3, <3>4
  <2> QED
    BY <2>3, <2>4
<1>22. Kept'
  BY <1>1, <1>5, <1>20, <1>21 DEF Kept
<1> QED
  BY <1>18, <1>19, <1>22 DEF DataInv

\* An abandoned swap takes a block for nothing.
LEMMA DataAbandoned ==
  ASSUME FrameInv, DataInv, NEW p \in Procs, fifo[p] # << >>, swap_abandoned(p)
  PROVE  DataInv'
<1> DEFINE out == virtual[fifo[p][1]]
<1>1. /\ TakeBlock(p, out) /\ intact' = FALSE
      /\ UNCHANGED <<pte, info, mem, pages, wrote>>
  BY DEF swap_abandoned, tables
<1>2. DataTypes /\ BlocksOnce /\ Kept
  BY DEF DataInv
<1>3. fifo[p] \in Seq(Frames) /\ Once(fifo[p])
  BY DEF FrameInv, VmTypes, MineOK
<1>4. fifo[p][1] \in Elems(fifo[p])
  BY <1>3, Rotated
<1>5. out \in Touches[p]
  BY <1>4 DEF FrameInv, TableOK
<1>6. out \in Pages
  BY <1>5, VmAssumption
<1> HIDE DEF out
<1>7. next_free' \in Nat \ {0} /\ next_free <= next_free'
  BY <1>1, <1>2, <1>6, BlockTaken
<1>8. DataTypes'
  BY <1>1, <1>2, <1>7 DEF DataTypes
<1>9. \A q \in Procs : \A u \in Pages : info[q][u] < next_free'
  <2> SUFFICES ASSUME NEW q \in Procs, NEW u \in Pages PROVE info[q][u] < next_free'
    OBVIOUS
  <2>1. info[q][u] \in Nat /\ info[q][u] < next_free /\ next_free \in Nat
    BY <1>2 DEF DataTypes, BlocksOnce
  <2> QED
    BY <2>1, <1>7
<1>10. BlocksOnce'
  BY <1>1, <1>2, <1>9 DEF BlocksOnce
<1>11. Kept'
  BY <1>1, <1>2 DEF Kept
<1> QED
  BY <1>8, <1>10, <1>11 DEF DataInv

\* shmat changes no entry of a page that a program uses as its own.
LEMMA DataShmat ==
  ASSUME FrameInv, PageInv, DataInv, NEW p \in Procs, NEW k \in Keys, NEW v \in Pages,
         shmat(p, k, v)
  PROVE  DataInv'
<1>1. PICK T \in [Pages -> Frames \cup {NoFrame}], B \in [Pages -> BOOLEAN] :
        /\ pte' = [pte EXCEPT ![p] = T] /\ g' = [g EXCEPT ![p] = B]
        /\ \A u \in Pages :
             \/ T[u] = pte[p][u] /\ (B[u] => g[p][u])
             \/ u \notin Touches[p] /\ T[u] \in Segments(shm_pool) /\ ~B[u]
  BY ShmatBinds
<1>2. UNCHANGED <<info, mem, next_free, pages, wrote, intact>>
  BY DEF shmat, diskVars, history
<1>3. DataTypes /\ BlocksOnce /\ Kept
  BY DEF DataInv
<1>4. DataTypes' /\ BlocksOnce'
  BY <1>2, <1>3 DEF DataTypes, BlocksOnce
<1>5. ASSUME NEW q \in Procs, NEW u \in Pages, u \in Touches[q]
      PROVE  pte'[q][u] = pte[q][u]
  <2>1. pte'[p] = T /\ (q # p => pte'[q] = pte[q])
    BY <1>1 DEF FrameInv, VmTypes
  <2> QED
    BY <2>1, <1>1, <1>5
<1>6. ASSUME NEW q \in Procs, NEW u \in Pages, wrote'[q][u] # Garbage
      PROVE  u \in Touches[q] /\ (intact' => Content(q, u)' = wrote'[q][u])
  <2>1. u \in Touches[q] /\ (intact => Content(q, u) = wrote[q][u])
    BY <1>2, <1>3, <1>6 DEF Kept
  <2>2. Content(q, u)' = Content(q, u)
    BY <2>1, <1>2, <1>5 DEF Content
  <2> QED
    BY <2>1, <2>2, <1>2
<1>7. Kept'
  BY <1>2, <1>3, <1>6 DEF Kept
<1> QED
  BY <1>4, <1>7 DEF DataInv

\* What is stored where, in every reachable state until a program is served by
\* an entry of another.
THEOREM DataInvariant == Spec => [](apart => DataInv)
<1>1. Init => DataInv
  BY DataInit
<1>2. FrameInv /\ PageInv /\ (apart => TlbInv) /\ (apart => DataInv) /\ [Next]_vars
        => (apart => DataInv)'
  <2> SUFFICES ASSUME FrameInv, PageInv, apart => TlbInv, apart => DataInv,
                      [Next]_vars, apart'
               PROVE  DataInv'
    OBVIOUS
  <2>0. TlbInv /\ DataInv
    BY ApartBefore
  <2>1. CASE UNCHANGED vars
    BY <2>0, <2>1, DataStays DEF vars, tables, diskVars, history
  <2>2. ASSUME NEW p \in Procs, create_mm_struct(p) \/ free_mm_struct(p)
        PROVE  DataInv'
    BY <2>0, <2>2, DataCreate, DataFree
  <2>3. ASSUME NEW p \in Procs, activateMemory(p) PROVE DataInv'
    BY <2>0, <2>3, DataStays DEF activateMemory, tables, diskVars, history
  <2>4. ASSUME NEW p \in Procs, NEW v \in Pages, Load(p, v) PROVE DataInv'
    BY <2>0, <2>4, DataLoad
  <2>5. ASSUME NEW p \in Procs, NEW v \in Pages, NEW x \in Data[p][v], Store(p, v, x)
        PROVE  DataInv'
    BY <2>0, <2>5, DataStore
  <2>6. ASSUME NEW p \in Procs, NEW v \in Pages, tlb_refill(p, v) \/ tlb_read_handler(p, v)
        PROVE  DataInv'
    BY <2>0, <2>6, DataStays DEF tlb_refill, tlb_read_handler, tables, diskVars, history
  <2>7. ASSUME NEW p \in Procs, NEW v \in Pages, NEW f \in Frames, do_pagefault(p, v, f)
        PROVE  DataInv'
    BY <2>0, <2>7, DataPagefault
  <2>8. ASSUME NEW p \in Procs, NEW v \in Pages, do_pagefault_swaps(p, v)
        PROVE  DataInv'
    <3>1. Faults(p, v) /\ fifo[p] # << >> /\ (swap_one_page(p, v) \/ swap_abandoned(p))
      BY <2>8 DEF do_pagefault_swaps, Swaps
    <3> QED
      BY <2>0, <3>1, DataSwap, DataAbandoned
  <2>9. ASSUME NEW p \in Procs, NEW v \in Pages, NEW k \in Keys, shmat(p, k, v)
        PROVE  DataInv'
    BY <2>0, <2>9, DataShmat
  <2>10. ASSUME NEW k \in Keys, NEW n \in ShmPages, NEW F \in [1 .. n -> Frames], shmget(k, F)
         PROVE  DataInv'
    BY <2>0, <2>10, DataStays DEF shmget, tables, diskVars, history
  <2>11. ASSUME NEW p \in Procs, NEW v \in Pages, swap_of_nothing(p, v)
         PROVE  DataInv'
    BY <2>0, <2>11, DataStays DEF swap_of_nothing, tables, diskVars
  <2> QED
    BY <2>1, <2>2, <2>3, <2>4, <2>5, <2>6, <2>7, <2>8, <2>9, <2>10, <2>11 DEF Next
<1> QED
  BY <1>1, <1>2, TlbInvariant, FrameInvariant, PageInvariant, PTL DEF Spec

\* What a program stored in its page is there, in its frame or in its own swap
\* block, through every fault, swap, exit, attachment and switch, until a swap is
\* abandoned, a page in the swap file is given a new frame without being read, or
\* a program is served by an entry of another
\* (vm.c do_pagefault, swap_one_page, write_page_to_disk, load_page_from_disk).
THEOREM StoredDataSurvives == Spec => []WritesSurvive
<1>1. PageInv /\ (apart => DataInv) => WritesSurvive
  BY DEF PageInv, DataInv, Kept, WritesSurvive
<1> QED
  BY <1>1, DataInvariant, PageInvariant, PTL
=============================================================================
