----------------------------- MODULE SlabProofs -----------------------------
(***************************************************************************)
(* Proofs about the slab allocator, for any set of pages and any table of  *)
(* object sizes whose pages hold at least one object and leave room for    *)
(* the list node of the last.                                              *)
(*                                                                         *)
(* The invariants of Slab are not inductive one by one: that carving does  *)
(* not hit a used slot needs the frontier to be last, which needs the      *)
(* slots to be exactly the carved ones, and a page serves a request only   *)
(* if the lists tell the truth about it.  SlabOK gathers what one slab     *)
(* head satisfies, as a predicate of values, so that each object operation *)
(* is a lemma about values and each action only has to put one slab head   *)
(* in place of another.                                                    *)
(***************************************************************************)
EXTENDS Slab, FiniteSetTheorems, TLAPS

\* What the slab head of a page of n slots satisfies between two operations:
\* f is its free list, a its allocated list, nf and na its counters.
SlabOK(n, f, a, nf, na) ==
  /\ f \in Seq(Nat) /\ nf \in Nat /\ na \in Nat
  /\ Len(f) = nf
  /\ IsFiniteSet(a) /\ Cardinality(a) = na
  /\ na + nf <= n
  /\ \A i, j \in 1..nf : f[i] = f[j] => i = j
  /\ \A i \in 1..nf : f[i] \notin a /\ f[i] \in 1..(na + nf)
  /\ a \subseteq 1..(na + nf)
  /\ \A k \in 1..(na + nf) : k \in a \/ \E i \in 1..nf : f[i] = k
  /\ na + nf < n => nf > 0 /\ f[nf] = na + nf

LEMMA CapacityPositive ==
  ASSUME NEW c \in Caches
  PROVE  capacity(c) \in Nat /\ capacity(c) > 0
<1>1. capacity(c) \in Nat \ {0}
  BY SizesAssumption DEF Caches
<1> QED
  BY <1>1

\* init_object_in_page leaves a sound page with nothing allocated.
LEMMA NewSlabOK ==
  ASSUME NEW n \in Nat, n > 0
  PROVE  SlabOK(n, <<1>>, {}, 1, 0)
<1>1. IsFiniteSet({}) /\ Cardinality({}) = 0
  BY FS_EmptySet
<1>2. <<1>> \in Seq(Nat) /\ Len(<<1>>) = 1 /\ <<1>>[1] = 1
  OBVIOUS
<1> QED
  BY <1>1, <1>2 DEF SlabOK

\* alloc_new_object_in_page keeps a page sound: the slot behind the last free
\* one was never carved.
LEMMA CarveOK ==
  ASSUME NEW n \in Nat, NEW f, NEW a, NEW nf, NEW na,
         SlabOK(n, f, a, nf, na), na + nf < n
  PROVE  SlabOK(n, Append(f, f[Len(f)] + 1), a, nf + 1, na)
<1> DEFINE g == Append(f, f[Len(f)] + 1)
<1>1. f[Len(f)] = na + nf /\ nf > 0
  BY DEF SlabOK
<1>2. f \in Seq(Nat) /\ Len(f) = nf /\ nf \in Nat /\ na \in Nat
  BY DEF SlabOK
<1>3. g \in Seq(Nat) /\ Len(g) = nf + 1
  BY <1>1, <1>2
<1>4. \A i \in 1..nf : g[i] = f[i]
  BY <1>2
<1>5. g[nf + 1] = na + nf + 1
  BY <1>1, <1>2
<1> HIDE DEF g
<1>6. \A i, j \in 1..(nf + 1) : g[i] = g[j] => i = j
  BY <1>2, <1>4, <1>5 DEF SlabOK
<1>7. \A i \in 1..(nf + 1) : g[i] \notin a /\ g[i] \in 1..(na + nf + 1)
  BY <1>2, <1>4, <1>5 DEF SlabOK
<1>8. \A k \in 1..(na + nf + 1) : k \in a \/ \E i \in 1..(nf + 1) : g[i] = k
  <2> SUFFICES ASSUME NEW k \in 1..(na + nf + 1), k \notin a
               PROVE  \E i \in 1..(nf + 1) : g[i] = k
    OBVIOUS
  <2>1. CASE k = na + nf + 1
    BY <2>1, <1>2, <1>5
  <2>2. CASE k # na + nf + 1
    <3>1. k \in 1..(na + nf)
      BY <2>2, <1>2
    <3>2. PICK i \in 1..nf : f[i] = k
      BY <3>1 DEF SlabOK
    <3> QED
      BY <3>2, <1>2, <1>4
  <2> QED
    BY <2>1, <2>2
<1>9. a \subseteq 1..(na + nf + 1)
  BY <1>2 DEF SlabOK
<1>10. IsFiniteSet(a) /\ Cardinality(a) = na
  BY DEF SlabOK
<1>11. /\ nf + 1 \in Nat /\ na + (nf + 1) = na + nf + 1
       /\ na + (nf + 1) <= n /\ nf + 1 > 0
  BY <1>2
<1>12. SlabOK(n, g, a, nf + 1, na)
  BY <1>2, <1>3, <1>5, <1>6, <1>7, <1>8, <1>9, <1>10, <1>11 DEF SlabOK
<1> QED
  BY <1>12 DEF g

\* Taking the front object keeps a page sound if a second one is free or the
\* page is used up.
LEMMA TakeOK ==
  ASSUME NEW n \in Nat, NEW f, NEW a, NEW nf, NEW na,
         SlabOK(n, f, a, nf, na), nf > 0, nf > 1 \/ na + nf = n
  PROVE  SlabOK(n, Tail(f), a \cup {Head(f)}, nf - 1, na + 1)
<1> DEFINE g == Tail(f)
           b == a \cup {Head(f)}
<1>1. f \in Seq(Nat) /\ Len(f) = nf /\ nf \in Nat /\ na \in Nat /\ f # <<>>
  BY DEF SlabOK
<1>2. g \in Seq(Nat) /\ Len(g) = nf - 1 /\ Head(f) = f[1]
  BY <1>1
<1>3. \A i \in 1..(nf - 1) : g[i] = f[i + 1]
  BY <1>1
<1>4. f[1] \notin a /\ IsFiniteSet(a) /\ Cardinality(a) = na
  BY <1>1 DEF SlabOK
<1>5. IsFiniteSet(b) /\ Cardinality(b) = na + 1
  BY <1>2, <1>4, FS_AddElement
<1>6. b = a \cup {f[1]}
  BY <1>2
<1> HIDE DEF g, b
<1>7. \A i, j \in 1..(nf - 1) : g[i] = g[j] => i = j
  <2> SUFFICES ASSUME NEW i \in 1..(nf - 1), NEW j \in 1..(nf - 1), g[i] = g[j]
               PROVE  i = j
    OBVIOUS
  <2>1. i + 1 \in 1..nf /\ j + 1 \in 1..nf /\ f[i + 1] = f[j + 1]
    BY <1>1, <1>3
  <2>2. i + 1 = j + 1
    BY <2>1 DEF SlabOK
  <2> QED
    BY <2>2
<1>8. \A i \in 1..(nf - 1) : g[i] \notin b /\ g[i] \in 1..(na + nf)
  <2> SUFFICES ASSUME NEW i \in 1..(nf - 1)
               PROVE  g[i] \notin b /\ g[i] \in 1..(na + nf)
    OBVIOUS
  <2>1. i + 1 \in 1..nf /\ 1 \in 1..nf /\ g[i] = f[i + 1] /\ i + 1 # 1
    BY <1>1, <1>3
  <2>2. f[i + 1] # f[1]
    BY <2>1 DEF SlabOK
  <2> QED
    BY <2>1, <2>2, <1>6 DEF SlabOK
<1>9. b \subseteq 1..(na + nf)
  <2>1. 1 \in 1..nf
    BY <1>1
  <2>2. f[1] \in 1..(na + nf) /\ a \subseteq 1..(na + nf)
    BY <2>1 DEF SlabOK
  <2> QED
    BY <2>2, <1>6
<1>10. \A k \in 1..(na + nf) : k \in b \/ \E i \in 1..(nf - 1) : g[i] = k
  <2> SUFFICES ASSUME NEW k \in 1..(na + nf), k \notin b
               PROVE  \E i \in 1..(nf - 1) : g[i] = k
    OBVIOUS
  <2>1. PICK i \in 1..nf : f[i] = k
    BY <1>6 DEF SlabOK
  <2>2. i # 1
    BY <2>1, <1>6
  <2>3. i - 1 \in 1..(nf - 1) /\ (i - 1) + 1 = i
    BY <2>2, <1>1
  <2>4. g[i - 1] = f[i]
    BY <2>3, <1>3
  <2> QED
    BY <2>1, <2>3, <2>4
<1>11. (na + 1) + (nf - 1) = na + nf /\ nf - 1 \in Nat /\ na + 1 \in Nat
  BY <1>1
<1>12. na + nf < n => nf - 1 > 0 /\ g[nf - 1] = na + nf
  <2> SUFFICES ASSUME na + nf < n
               PROVE  nf - 1 > 0 /\ g[nf - 1] = na + nf
    OBVIOUS
  <2>1. nf > 1
    BY <1>1
  <2>2. nf - 1 \in 1..(nf - 1) /\ (nf - 1) + 1 = nf
    BY <2>1, <1>1
  <2> QED
    BY <2>1, <2>2, <1>1, <1>3 DEF SlabOK
<1>13. na + nf <= n
  BY DEF SlabOK
<1>14. SlabOK(n, g, b, nf - 1, na + 1)
  BY <1>2, <1>5, <1>7, <1>8, <1>9, <1>10, <1>11, <1>12, <1>13 DEF SlabOK
<1> QED
  BY <1>14 DEF g, b

\* kmem_cache_free: putting an allocated object at the front keeps a page
\* sound, and the frontier stays last unless the page is used up.
LEMMA FreeOK ==
  ASSUME NEW n \in Nat, NEW f, NEW a, NEW nf, NEW na, NEW k \in a,
         SlabOK(n, f, a, nf, na)
  PROVE  /\ SlabOK(n, <<k>> \o f, a \ {k}, nf + 1, na - 1)
         /\ na > 0
<1> DEFINE g == <<k>> \o f
           b == a \ {k}
<1>1. /\ f \in Seq(Nat) /\ Len(f) = nf /\ nf \in Nat /\ na \in Nat
      /\ k \in 1..(na + nf) /\ k \in Nat
  BY DEF SlabOK
<1>2. g \in Seq(Nat) /\ Len(g) = nf + 1 /\ g[1] = k
  BY <1>1
<1>3. \A i \in 1..nf : g[i + 1] = f[i]
  BY <1>1
<1>4. IsFiniteSet(a) /\ Cardinality(a) = na
  BY DEF SlabOK
<1>5. IsFiniteSet(b) /\ Cardinality(b) = na - 1
  BY <1>4, FS_RemoveElement
<1>6. na > 0
  <2>1. na - 1 \in Nat
    BY <1>5, FS_CardinalityType
  <2> QED
    BY <2>1, <1>1
<1> HIDE DEF g
<1>7. \A i \in 1..(nf + 1) : i = 1 \/ (i - 1 \in 1..nf /\ g[i] = f[i - 1])
  <2> SUFFICES ASSUME NEW i \in 1..(nf + 1), i # 1
               PROVE  i - 1 \in 1..nf /\ g[i] = f[i - 1]
    OBVIOUS
  <2>1. i - 1 \in 1..nf /\ (i - 1) + 1 = i
    BY <1>1
  <2>2. g[(i - 1) + 1] = f[i - 1]
    BY <2>1, <1>3
  <2> QED
    BY <2>1, <2>2
<1>8. \A i \in 1..nf : f[i] # k
  BY DEF SlabOK
<1>9. \A i, j \in 1..(nf + 1) : g[i] = g[j] => i = j
  <2> SUFFICES ASSUME NEW i \in 1..(nf + 1), NEW j \in 1..(nf + 1), g[i] = g[j]
               PROVE  i = j
    OBVIOUS
  <2>1. CASE i = 1 \/ j = 1
    BY <2>1, <1>2, <1>7, <1>8
  <2>2. CASE i # 1 /\ j # 1
    <3>1. i - 1 \in 1..nf /\ j - 1 \in 1..nf /\ f[i - 1] = f[j - 1]
      BY <2>2, <1>7
    <3>2. i - 1 = j - 1
      BY <3>1 DEF SlabOK
    <3> QED
      BY <3>2
  <2> QED
    BY <2>1, <2>2
<1>10. \A i \in 1..(nf + 1) : g[i] \notin b /\ g[i] \in 1..(na + nf)
  <2> SUFFICES ASSUME NEW i \in 1..(nf + 1)
               PROVE  g[i] \notin b /\ g[i] \in 1..(na + nf)
    OBVIOUS
  <2>1. CASE i = 1
    BY <2>1, <1>1, <1>2
  <2>2. CASE i # 1
    BY <2>2, <1>7 DEF SlabOK
  <2> QED
    BY <2>1, <2>2
<1>11. b \subseteq 1..(na + nf)
  BY DEF SlabOK
<1>12. \A j \in 1..(na + nf) : j \in b \/ \E i \in 1..(nf + 1) : g[i] = j
  <2> SUFFICES ASSUME NEW j \in 1..(na + nf), j \notin b
               PROVE  \E i \in 1..(nf + 1) : g[i] = j
    OBVIOUS
  <2>1. CASE j = k
    <3>1. 1 \in 1..(nf + 1)
      BY <1>1
    <3> QED
      BY <2>1, <3>1, <1>2
  <2>2. CASE j # k
    <3>1. PICK i \in 1..nf : f[i] = j
      BY <2>2 DEF SlabOK
    <3>2. i + 1 \in 1..(nf + 1) /\ g[i + 1] = j
      BY <3>1, <1>1, <1>3
    <3> QED
      BY <3>2
  <2> QED
    BY <2>1, <2>2
<1>13. (na - 1) + (nf + 1) = na + nf /\ nf + 1 \in Nat /\ na - 1 \in Nat /\ na + nf <= n
  BY <1>1, <1>6 DEF SlabOK
<1>14. na + nf < n => nf + 1 > 0 /\ g[nf + 1] = na + nf
  <2> SUFFICES ASSUME na + nf < n
               PROVE  nf + 1 > 0 /\ g[nf + 1] = na + nf
    OBVIOUS
  <2>1. nf > 0 /\ f[nf] = na + nf
    BY DEF SlabOK
  <2>2. nf \in 1..nf
    BY <2>1, <1>1
  <2> QED
    BY <2>1, <2>2, <1>1, <1>3
<1> HIDE DEF b
<1>15. SlabOK(n, g, b, nf + 1, na - 1)
  BY <1>2, <1>5, <1>9, <1>10, <1>11, <1>12, <1>13, <1>14 DEF SlabOK
<1> QED
  BY <1>6, <1>15 DEF g, b

\* alloc_object on a page that is not full serves the request and leaves the
\* page sound.
LEMMA AllocOK ==
  ASSUME NEW n \in Nat, NEW c \in Caches, n = capacity(c),
         NEW f, NEW a, NEW nf, NEW na,
         SlabOK(n, f, a, nf, na), na # n
  PROVE  LET s == alloc_object(c, [free |-> f, alloc |-> a, nfree |-> nf, nalloc |-> na])
         IN  SlabOK(n, s.free, s.alloc, s.nfree, s.nalloc) /\ s.nalloc = na + 1
<1> DEFINE r == [free |-> f, alloc |-> a, nfree |-> nf, nalloc |-> na]
           g == Append(f, f[Len(f)] + 1)
           t == [free |-> g, alloc |-> a, nfree |-> nf + 1, nalloc |-> na]
           s == alloc_object(c, r)
<1>1. nf \in Nat /\ na \in Nat /\ na + nf <= n /\ Len(f) = nf
  BY DEF SlabOK
<1>2. nf > 0
  BY <1>1 DEF SlabOK
<1>3. CASE nf = 1 /\ na + nf < n
  <2>1. SlabOK(n, g, a, nf + 1, na)
    BY <1>3, CarveOK
  <2> HIDE DEF g
  <2>2. nf + 1 > 0 /\ nf + 1 > 1 /\ (nf + 1) - 1 = nf
    BY <1>1, <1>2
  <2>3. SlabOK(n, Tail(g), a \cup {Head(g)}, nf, na + 1)
    BY <2>1, <2>2, TakeOK
  <2>4. alloc_new_object_in_page(c, r) = t
    BY <1>3 DEF alloc_new_object_in_page, g
  <2>5. alloc_object(c, r) = [free |-> Tail(g), alloc |-> a \cup {Head(g)},
                              nfree |-> nf, nalloc |-> na + 1]
    <3>1. (IF r.nfree = 1 THEN alloc_new_object_in_page(c, r) ELSE r) = t
      BY <2>4, <1>3
    <3>2. /\ t.nfree # 0 /\ t.free = g /\ t.alloc = a
          /\ t.nfree - 1 = nf /\ t.nalloc = na
      BY <2>2, <1>1
    <3> HIDE DEF r, t
    <3> QED
      BY <3>1, <3>2 DEF alloc_object
  <2>6. /\ s.free = Tail(g) /\ s.alloc = a \cup {Head(g)}
        /\ s.nfree = nf /\ s.nalloc = na + 1
    BY <2>5
  <2> HIDE DEF s
  <2>7. SlabOK(n, s.free, s.alloc, s.nfree, s.nalloc) /\ s.nalloc = na + 1
    BY <2>3, <2>6
  <2> QED
    BY <2>7 DEF s
<1>4. CASE ~(nf = 1 /\ na + nf < n)
  <2>1. nf > 1 \/ na + nf = n
    BY <1>1, <1>2, <1>4
  <2>2. SlabOK(n, Tail(f), a \cup {Head(f)}, nf - 1, na + 1)
    BY <2>1, <1>2, TakeOK
  <2>3. alloc_object(c, r) = [free |-> Tail(f), alloc |-> a \cup {Head(f)},
                              nfree |-> nf - 1, nalloc |-> na + 1]
    <3>1. /\ r.nfree # 0 /\ r.free = f /\ r.alloc = a
          /\ r.nfree = nf /\ r.nalloc = na
      BY <1>1, <1>2
    <3> HIDE DEF r
    <3>2. (IF r.nfree = 1 THEN alloc_new_object_in_page(c, r) ELSE r) = r
      BY <3>1, <1>4 DEF alloc_new_object_in_page
    <3> QED
      BY <3>1, <3>2 DEF alloc_object
  <2>4. /\ s.free = Tail(f) /\ s.alloc = a \cup {Head(f)}
        /\ s.nfree = nf - 1 /\ s.nalloc = na + 1
    BY <2>3
  <2> HIDE DEF s
  <2>5. SlabOK(n, s.free, s.alloc, s.nfree, s.nalloc) /\ s.nalloc = na + 1
    BY <2>2, <2>4
  <2> QED
    BY <2>5 DEF s
<1> QED
  BY <1>3, <1>4

-----------------------------------------------------------------------------
(* The inductive invariant.                                                *)

NodeTypes ==
  /\ node_partial \in [Caches -> SUBSET Pages]
  /\ node_full \in [Caches -> SUBSET Pages]
  /\ node_free \in [Caches -> SUBSET Pages]

PagesOK ==
  \A p \in Pages :
    IF cachep[p] = nullptr
    THEN alloc_list[p] = {} /\ alloc_num[p] = 0
    ELSE SlabOK(capacity(cachep[p]), free_list[p], alloc_list[p],
                free_num[p], alloc_num[p])

CurrentOK == \A c \in Caches : cpu_page[c] # nullptr => cachep[cpu_page[c]] = c

SlabInv == TypeOK /\ PagesOK /\ ListsTruthful /\ CurrentOK

\* nullptr is neither a cache nor a page.
LEMMA NullIsNothing == nullptr \notin Caches /\ nullptr \notin Pages
BY SizesAssumption DEF Caches

LEMMA InitInv == Init => SlabInv
<1> SUFFICES ASSUME Init PROVE SlabInv
  OBVIOUS
<1>1. TypeOK
  BY DEF Init, TypeOK
<1>2. PagesOK
  BY DEF Init, PagesOK
<1>3. SlabPages = {}
  BY DEF Init, SlabPages
<1>4. ListsTruthful
  BY <1>3 DEF Init, ListsTruthful
<1>5. CurrentOK
  BY DEF Init, CurrentOK
<1> QED
  BY <1>1, <1>2, <1>4, <1>5 DEF SlabInv

\* The list that a page of cache c with na allocated objects belongs on.
ListFor(c, na) ==
  IF na = capacity(c) THEN "full" ELSE IF na = 0 THEN "free" ELSE "partial"

\* Moving a page to the list its new count calls for keeps the lists
\* truthful, and so does leaving it where it is when the list is the same.
LEMMA ListsMove ==
  ASSUME TypeOK, ListsTruthful, NEW c \in Caches, NEW p \in Pages,
         NEW na \in 0..capacity(c),
         cachep[p] \in {c, nullptr},
         cachep' = [cachep EXCEPT ![p] = c],
         alloc_num' = [alloc_num EXCEPT ![p] = na],
         \/ MoveTo(ListFor(c, na), c, p)
         \/ /\ UNCHANGED nodeVars
            /\ cachep[p] = c
            /\ ListFor(c, na) = "partial" /\ ListFor(c, alloc_num[p]) = "partial"
            /\ alloc_num[p] <= capacity(c)
  PROVE  ListsTruthful' /\ NodeTypes'
<1>1. /\ cachep \in [Pages -> Caches \cup {nullptr}] /\ alloc_num \in [Pages -> Nat]
      /\ NodeTypes
  BY DEF TypeOK, NodeTypes
<1>2. capacity(c) \in Nat /\ capacity(c) > 0 /\ nullptr \notin Caches
  BY CapacityPositive, NullIsNothing
<1>3. /\ cachep'[p] = c /\ alloc_num'[p] = na
      /\ \A q \in Pages : q # p => cachep'[q] = cachep[q] /\ alloc_num'[q] = alloc_num[q]
  BY <1>1
<1>4. \A d \in Caches, q \in Pages :
        /\ q \in node_full[d] <=> cachep[q] = d /\ alloc_num[q] = capacity(d)
        /\ q \in node_free[d] <=> cachep[q] = d /\ alloc_num[q] = 0
        /\ q \in node_partial[d] <=> cachep[q] = d /\ alloc_num[q] \in 1 .. (capacity(d) - 1)
  BY <1>2 DEF ListsTruthful, SlabPages
<1>5. NodeTypes' /\ \A d \in Caches, q \in Pages : d # c \/ q # p =>
        /\ q \in node_full'[d] <=> q \in node_full[d]
        /\ q \in node_free'[d] <=> q \in node_free[d]
        /\ q \in node_partial'[d] <=> q \in node_partial[d]
  <2>1. CASE UNCHANGED nodeVars
    BY <2>1, <1>1 DEF nodeVars, NodeTypes
  <2>2. CASE MoveTo(ListFor(c, na), c, p)
    <3>1. NodeTypes'
      BY <2>2, <1>1, SMTT(30) DEF NodeTypes, MoveTo, Relink, Unlink
    <3>2. \A d \in Caches : d # c => /\ node_full'[d] = node_full[d]
                                     /\ node_free'[d] = node_free[d]
                                     /\ node_partial'[d] = node_partial[d]
      BY <2>2, <1>1 DEF NodeTypes, MoveTo, Relink, Unlink
    <3>3. \A q \in Pages : q # p => /\ q \in node_full'[c] <=> q \in node_full[c]
                                    /\ q \in node_free'[c] <=> q \in node_free[c]
                                    /\ q \in node_partial'[c] <=> q \in node_partial[c]
      BY <2>2, <1>1 DEF NodeTypes, MoveTo, Relink, Unlink
    <3> QED
      BY <3>1, <3>2, <3>3
  <2> QED
    BY <2>1, <2>2
<1>6. /\ p \in node_full'[c] <=> na = capacity(c)
      /\ p \in node_free'[c] <=> na = 0
      /\ p \in node_partial'[c] <=> na \in 1 .. (capacity(c) - 1)
  <2>1. CASE MoveTo(ListFor(c, na), c, p)
    <3>1. /\ p \in node_full'[c] <=> ListFor(c, na) = "full"
          /\ p \in node_free'[c] <=> ListFor(c, na) = "free"
          /\ p \in node_partial'[c] <=> ListFor(c, na) = "partial"
      BY <2>1, <1>1 DEF NodeTypes, MoveTo, Relink, Unlink
    <3> QED
      BY <3>1, <1>2 DEF ListFor
  <2>2. CASE /\ UNCHANGED nodeVars
             /\ cachep[p] = c
             /\ ListFor(c, na) = "partial" /\ ListFor(c, alloc_num[p]) = "partial"
             /\ alloc_num[p] <= capacity(c)
    <3>1. na # capacity(c) /\ na # 0 /\ alloc_num[p] # capacity(c) /\ alloc_num[p] # 0
      BY <2>2 DEF ListFor
    <3>2. p \notin node_full[c] /\ p \notin node_free[c]
      BY <3>1, <1>4
    <3>3. p \in node_partial[c]
      BY <2>2, <3>1, <1>1, <1>2, <1>4
    <3> QED
      BY <2>2, <3>1, <3>2, <3>3, <1>2 DEF nodeVars
  <2> QED
    BY <2>1, <2>2
<1>7. \A d \in Caches, q \in Pages :
        /\ q \in node_full'[d] <=> cachep'[q] = d /\ alloc_num'[q] = capacity(d)
        /\ q \in node_free'[d] <=> cachep'[q] = d /\ alloc_num'[q] = 0
        /\ q \in node_partial'[d] <=> cachep'[q] = d /\ alloc_num'[q] \in 1 .. (capacity(d) - 1)
  <2> SUFFICES ASSUME NEW d \in Caches, NEW q \in Pages
               PROVE  /\ q \in node_full'[d] <=> cachep'[q] = d /\ alloc_num'[q] = capacity(d)
                      /\ q \in node_free'[d] <=> cachep'[q] = d /\ alloc_num'[q] = 0
                      /\ q \in node_partial'[d] <=>
                           cachep'[q] = d /\ alloc_num'[q] \in 1 .. (capacity(d) - 1)
    OBVIOUS
  <2>1. CASE q # p
    BY <2>1, <1>3, <1>4, <1>5
  <2>2. CASE q = p /\ d # c
    BY <2>2, <1>2, <1>3, <1>4, <1>5
  <2>3. CASE q = p /\ d = c
    BY <2>3, <1>3, <1>6
  <2> QED
    BY <2>1, <2>2, <2>3
<1>8. ListsTruthful'
  BY <1>2, <1>5, <1>7 DEF ListsTruthful, SlabPages, NodeTypes
<1> QED
  BY <1>5, <1>8

\* One slab head is put in place of another; the page may be new to the cache,
\* and it may become the current one.
PutSlab(c, p, f, a, nf, na) ==
  /\ cachep[p] = c \/ cachep[p] = nullptr
  /\ cachep' = [cachep EXCEPT ![p] = c]
  /\ free_list' = [free_list EXCEPT ![p] = f]
  /\ alloc_list' = [alloc_list EXCEPT ![p] = a]
  /\ free_num' = [free_num EXCEPT ![p] = nf]
  /\ alloc_num' = [alloc_num EXCEPT ![p] = na]
  /\ cpu_page' = cpu_page \/ cpu_page' = [cpu_page EXCEPT ![c] = p]

\* If the new slab head is sound and the page lists follow, the invariant is
\* kept.
LEMMA PageChange ==
  ASSUME SlabInv, NEW c \in Caches, NEW p \in Pages,
         NEW f, NEW a, NEW nf, NEW na,
         PutSlab(c, p, f, a, nf, na),
         SlabOK(capacity(c), f, a, nf, na),
         ListsTruthful', NodeTypes'
  PROVE  SlabInv'
<1> USE DEF PutSlab
<1>1. TypeOK /\ nullptr \notin Caches /\ nullptr \notin Pages
  BY NullIsNothing DEF SlabInv
<1>2. /\ f \in Seq(Nat) /\ nf \in Nat /\ na \in Nat
      /\ a \subseteq 1..(na + nf)
  BY DEF SlabOK
<1>3. a \subseteq Nat
  BY <1>2
<1>4. TypeOK'
  <2>1. cachep' \in [Pages -> Caches \cup {nullptr}]
    BY <1>1 DEF TypeOK
  <2>2. free_list' \in [Pages -> Seq(Nat)] /\ alloc_list' \in [Pages -> SUBSET Nat]
    BY <1>1, <1>2, <1>3 DEF TypeOK
  <2>3. free_num' \in [Pages -> Nat] /\ alloc_num' \in [Pages -> Nat]
    BY <1>1, <1>2 DEF TypeOK
  <2>4. cpu_page' \in [Caches -> Pages \cup {nullptr}]
    BY <1>1 DEF TypeOK
  <2> QED
    BY <2>1, <2>2, <2>3, <2>4 DEF TypeOK, NodeTypes
<1>5. PagesOK'
  <2> SUFFICES ASSUME NEW q \in Pages
               PROVE  IF cachep'[q] = nullptr
                      THEN alloc_list'[q] = {} /\ alloc_num'[q] = 0
                      ELSE SlabOK(capacity(cachep'[q]), free_list'[q], alloc_list'[q],
                                  free_num'[q], alloc_num'[q])
    BY DEF PagesOK
  <2>1. CASE q = p
    <3>1. /\ cachep'[q] = c /\ free_list'[q] = f /\ alloc_list'[q] = a
          /\ free_num'[q] = nf /\ alloc_num'[q] = na
      BY <2>1, <1>1 DEF TypeOK
    <3> QED
      BY <3>1, <1>1
  <2>2. CASE q # p
    <3>1. /\ cachep'[q] = cachep[q] /\ free_list'[q] = free_list[q]
          /\ alloc_list'[q] = alloc_list[q]
          /\ free_num'[q] = free_num[q] /\ alloc_num'[q] = alloc_num[q]
      BY <2>2, <1>1 DEF TypeOK
    <3> QED
      BY <3>1 DEF SlabInv, PagesOK
  <2> QED
    BY <2>1, <2>2
<1>6. CurrentOK'
  <2> SUFFICES ASSUME NEW d \in Caches, cpu_page'[d] # nullptr
               PROVE  cachep'[cpu_page'[d]] = d
    BY DEF CurrentOK
  <2>1. CASE cpu_page'[d] = cpu_page[d]
    <3>1. cpu_page[d] \in Pages /\ cachep[cpu_page[d]] = d
      BY <2>1, <1>1 DEF SlabInv, CurrentOK, TypeOK
    <3> QED
      BY <2>1, <3>1, <1>1 DEF TypeOK
  <2>2. CASE cpu_page'[d] # cpu_page[d]
    <3>1. d = c /\ cpu_page'[d] = p
      BY <2>2, <1>1 DEF TypeOK
    <3> QED
      BY <3>1, <1>1 DEF TypeOK
  <2> QED
    BY <2>1, <2>2
<1> QED
  BY <1>4, <1>5, <1>6 DEF SlabInv

\* The common end of kmem_cache_alloc, for a sound page that is not full.
LEMMA AllocFromInv ==
  ASSUME SlabInv, NEW c \in Caches, NEW p \in Pages,
         cachep[p] \in {c, nullptr},
         cachep' = [cachep EXCEPT ![p] = c],
         NEW f, NEW a, NEW nf, NEW na,
         SlabOK(capacity(c), f, a, nf, na), na # capacity(c),
         cachep[p] = nullptr => na = 0,
         cachep[p] = c => na = alloc_num[p],
         AllocFrom(c, p, [free |-> f, alloc |-> a, nfree |-> nf, nalloc |-> na])
  PROVE  SlabInv'
<1> DEFINE r == [free |-> f, alloc |-> a, nfree |-> nf, nalloc |-> na]
           s == alloc_object(c, r)
<1>1. capacity(c) \in Nat /\ capacity(c) > 0 /\ TypeOK /\ ListsTruthful /\ nullptr \notin Caches
  BY CapacityPositive, NullIsNothing DEF SlabInv
<1>2. SlabOK(capacity(c), s.free, s.alloc, s.nfree, s.nalloc) /\ s.nalloc = na + 1
  BY <1>1, AllocOK
<1>3. r.nalloc = na
  OBVIOUS
<1>4. /\ SetSlab(p, s)
      /\ cpu_page' = [cpu_page EXCEPT ![c] = p]
      /\ CASE s.nalloc = capacity(c) -> MoveTo("full", c, p)
           [] s.nalloc # capacity(c) /\ na = 0 -> MoveTo("partial", c, p)
           [] OTHER -> UNCHANGED nodeVars
  BY <1>3 DEF AllocFrom
<1> HIDE DEF r, s
<1>5. na \in Nat /\ na < capacity(c) /\ s.nalloc \in 0..capacity(c) /\ s.nalloc # 0
  BY <1>1, <1>2 DEF SlabOK
<1>6. \/ MoveTo(ListFor(c, s.nalloc), c, p)
      \/ /\ UNCHANGED nodeVars
         /\ cachep[p] = c
         /\ ListFor(c, s.nalloc) = "partial" /\ ListFor(c, alloc_num[p]) = "partial"
         /\ alloc_num[p] <= capacity(c)
  <2>1. CASE s.nalloc = capacity(c)
    BY <2>1, <1>4 DEF ListFor
  <2>2. CASE s.nalloc # capacity(c) /\ na = 0
    BY <2>2, <1>4, <1>5 DEF ListFor
  <2>3. CASE s.nalloc # capacity(c) /\ na # 0
    <3>1. UNCHANGED nodeVars
      BY <2>3, <1>4
    <3>2. cachep[p] = c /\ na = alloc_num[p] /\ na <= capacity(c)
      BY <2>3, <1>1, <1>5
    <3>3. ListFor(c, s.nalloc) = "partial" /\ ListFor(c, alloc_num[p]) = "partial"
      BY <2>3, <3>2, <1>5 DEF ListFor
    <3> QED
      BY <3>1, <3>2, <3>3
  <2> QED
    BY <2>1, <2>2, <2>3
<1>7. alloc_num' = [alloc_num EXCEPT ![p] = s.nalloc]
  BY <1>4 DEF SetSlab
<1>8. ListsTruthful' /\ NodeTypes'
  BY <1>1, <1>5, <1>6, <1>7, ListsMove
<1>9. PutSlab(c, p, s.free, s.alloc, s.nfree, s.nalloc)
  BY <1>4 DEF SetSlab, PutSlab
<1>10. SlabOK(capacity(c), s.free, s.alloc, s.nfree, s.nalloc)
  BY <1>2
<1> QED
  BY <1>8, <1>9, <1>10, PageChange

\* A page of a cache is sound, and is full exactly when its list says so.
LEMMA PageOfCache ==
  ASSUME SlabInv, NEW p \in Pages, cachep[p] # nullptr
  PROVE  /\ cachep[p] \in Caches
         /\ SlabOK(capacity(cachep[p]), free_list[p], alloc_list[p],
                   free_num[p], alloc_num[p])
         /\ alloc_num[p] \in 0..capacity(cachep[p])
<1>1. cachep[p] \in Caches
  BY DEF SlabInv, TypeOK
<1>2. SlabOK(capacity(cachep[p]), free_list[p], alloc_list[p],
             free_num[p], alloc_num[p])
  BY DEF SlabInv, PagesOK
<1>3. alloc_num[p] \in 0..capacity(cachep[p])
  BY <1>1, <1>2, CapacityPositive DEF SlabOK
<1> QED
  BY <1>1, <1>2, <1>3

\* Whichever page kmem_cache_alloc serves from belongs to the cache and has
\* an object left.
LEMMA ServingPagesServe ==
  ASSUME SlabInv, NEW c \in Caches, ~NeedsPage(c), NEW p \in ServingPages(c)
  PROVE  p \in Pages /\ cachep[p] = c /\ alloc_num[p] # capacity(c)
<1>1. TypeOK /\ ListsTruthful /\ CurrentOK /\ nullptr \notin Pages
  BY NullIsNothing DEF SlabInv
<1>2. CASE ~CurrentUnusable(c)
  <2>1. p = cpu_page[c] /\ cpu_page[c] # nullptr /\ ~slab_is_full(c, cpu_page[c])
    BY <1>2 DEF ServingPages, CurrentUnusable
  <2> QED
    BY <2>1, <1>1 DEF TypeOK, CurrentOK, slab_is_full
<1>3. CASE CurrentUnusable(c)
  <2>1. capacity(c) \in Nat /\ capacity(c) > 0
    BY CapacityPositive
  <2>2. p \in node_partial[c] \/ p \in node_free[c]
    BY <1>3 DEF ServingPages, NeedsPage
  <2>3. p \in Pages /\ cachep[p] = c /\ alloc_num[p] \in 0..(capacity(c) - 1)
    BY <2>1, <2>2, <1>1 DEF ListsTruthful, SlabPages
  <2> QED
    BY <2>1, <2>3
<1> QED
  BY <1>2, <1>3

LEMMA AllocInv ==
  ASSUME SlabInv, NEW c \in Caches, kmem_cache_alloc(c)
  PROVE  SlabInv'
<1>1. PICK p \in ServingPages(c) : AllocFrom(c, p, SlabOf(p))
  BY DEF kmem_cache_alloc
<1>2. p \in Pages /\ cachep[p] = c /\ alloc_num[p] # capacity(c)
  BY ServingPagesServe DEF kmem_cache_alloc
<1>3. cachep' = [cachep EXCEPT ![p] = c]
  BY <1>2 DEF kmem_cache_alloc, SlabInv, TypeOK
<1>4. SlabOK(capacity(c), free_list[p], alloc_list[p], free_num[p], alloc_num[p])
  BY <1>2, PageOfCache, NullIsNothing
<1>5. AllocFrom(c, p, [free |-> free_list[p], alloc |-> alloc_list[p],
                       nfree |-> free_num[p], nalloc |-> alloc_num[p]])
  BY <1>1 DEF SlabOf
<1>6. cachep[p] \in {c, nullptr} /\ (cachep[p] = nullptr => alloc_num[p] = 0)
  BY <1>2, NullIsNothing
<1> QED
  BY <1>2, <1>3, <1>4, <1>5, <1>6, AllocFromInv

LEMMA GrowInv ==
  ASSUME SlabInv, NEW c \in Caches, NEW p \in BuddyPages, kmem_cache_grow(c, p)
  PROVE  SlabInv'
<1>1. p \in Pages /\ cachep[p] = nullptr /\ nullptr # c
  BY NullIsNothing DEF BuddyPages
<1>2. cachep' = [cachep EXCEPT ![p] = c]
  BY DEF kmem_cache_grow
<1>3. AllocFrom(c, p, [free |-> <<1>>, alloc |-> {}, nfree |-> 1, nalloc |-> 0])
  BY DEF kmem_cache_grow, init_object_in_page
<1>4. SlabOK(capacity(c), <<1>>, {}, 1, 0) /\ 0 # capacity(c)
  BY NewSlabOK, CapacityPositive
<1>5. cachep[p] \in {c, nullptr}
  BY <1>1
<1> QED
  BY <1>1, <1>2, <1>3, <1>4, <1>5, AllocFromInv

LEMMA FreeInv ==
  ASSUME SlabInv, NEW p \in Pages, NEW k \in alloc_list[p], kmem_cache_free(p, k)
  PROVE  SlabInv'
<1> DEFINE c == cachep[p]
           na == alloc_num[p] - 1
<1>1. cachep[p] # nullptr
  BY DEF SlabInv, PagesOK
<1>2. /\ c \in Caches /\ alloc_num[p] \in 0..capacity(c)
      /\ SlabOK(capacity(c), free_list[p], alloc_list[p], free_num[p], alloc_num[p])
      /\ capacity(c) \in Nat
  BY <1>1, PageOfCache, CapacityPositive
<1>3. /\ SlabOK(capacity(c), <<k>> \o free_list[p], alloc_list[p] \ {k},
                free_num[p] + 1, na)
      /\ alloc_num[p] > 0
  BY <1>2, FreeOK
<1>4. /\ SetSlab(p, [free |-> <<k>> \o free_list[p], alloc |-> alloc_list[p] \ {k},
                     nfree |-> free_num[p] + 1, nalloc |-> na])
      /\ CASE na = 0 -> MoveTo("free", c, p)
           [] na # 0 /\ slab_is_full(c, p) -> MoveTo("partial", c, p)
           [] OTHER -> UNCHANGED nodeVars
      /\ UNCHANGED <<cachep, cpu_page>>
  BY DEF kmem_cache_free
<1>5. cachep' = [cachep EXCEPT ![p] = c]
  BY <1>4 DEF SlabInv, TypeOK
<1>6. PutSlab(c, p, <<k>> \o free_list[p], alloc_list[p] \ {k}, free_num[p] + 1, na)
  BY <1>4, <1>5 DEF PutSlab, SetSlab
<1>7. na \in 0..capacity(c) /\ na # capacity(c)
  BY <1>2, <1>3
<1>8. \/ MoveTo(ListFor(c, na), c, p)
      \/ /\ UNCHANGED nodeVars
         /\ cachep[p] = c
         /\ ListFor(c, na) = "partial" /\ ListFor(c, alloc_num[p]) = "partial"
         /\ alloc_num[p] <= capacity(c)
  <2>1. CASE na = 0
    BY <2>1, <1>4, <1>7 DEF ListFor
  <2>2. CASE na # 0 /\ slab_is_full(c, p)
    BY <2>2, <1>4, <1>7 DEF ListFor
  <2>3. CASE na # 0 /\ ~slab_is_full(c, p)
    <3>1. UNCHANGED nodeVars
      BY <2>3, <1>4
    <3>2. alloc_num[p] # 0 /\ alloc_num[p] # capacity(c) /\ alloc_num[p] <= capacity(c)
      BY <2>3, <1>2, <1>3 DEF slab_is_full
    <3> QED
      BY <2>3, <3>1, <3>2, <1>7 DEF ListFor
  <2> QED
    BY <2>1, <2>2, <2>3
<1>9. alloc_num' = [alloc_num EXCEPT ![p] = na]
  BY <1>6 DEF PutSlab
<1>10. TypeOK /\ ListsTruthful
  BY DEF SlabInv
<1>11. cachep[p] \in {c, nullptr}
  OBVIOUS
<1>12. ListsTruthful' /\ NodeTypes'
  BY <1>2, <1>5, <1>7, <1>8, <1>9, <1>10, <1>11, ListsMove
<1> QED
  BY <1>2, <1>3, <1>6, <1>12, PageChange

LEMMA StutterInv ==
  ASSUME SlabInv, UNCHANGED vars
  PROVE  SlabInv'
BY DEF SlabInv, TypeOK, PagesOK, ListsTruthful, CurrentOK, SlabPages, vars, slabVars, nodeVars

LEMMA StepInv == SlabInv /\ [Next]_vars => SlabInv'
<1> SUFFICES ASSUME SlabInv, [Next]_vars PROVE SlabInv'
  OBVIOUS
<1>1. ASSUME NEW c \in Caches, kmem_cache_alloc(c) PROVE SlabInv'
  BY <1>1, AllocInv
<1>2. ASSUME NEW c \in Caches, NEW p \in BuddyPages, kmem_cache_grow(c, p) PROVE SlabInv'
  BY <1>2, GrowInv
<1>3. ASSUME NEW c \in Caches, kmem_cache_refuse(c) PROVE SlabInv'
  BY <1>3, StutterInv DEF kmem_cache_refuse
<1>4. ASSUME NEW p \in Pages, NEW k \in alloc_list[p], kmem_cache_free(p, k) PROVE SlabInv'
  BY <1>4, FreeInv
<1>5. CASE UNCHANGED vars
  BY <1>5, StutterInv
<1> QED
  BY <1>1, <1>2, <1>3, <1>4, <1>5 DEF Next

-----------------------------------------------------------------------------
(* What kmalloc sees of the slab allocator.                                *)

\* alloc_object takes one slot of the page that was not allocated.
LEMMA AllocTakesOne ==
  ASSUME NEW n \in Nat, NEW c \in Caches, n = capacity(c),
         NEW f, NEW a, NEW nf, NEW na,
         SlabOK(n, f, a, nf, na), na # n
  PROVE  LET s == alloc_object(c, [free |-> f, alloc |-> a, nfree |-> nf, nalloc |-> na])
         IN  \E k \in 1..n : k \notin a /\ s.alloc = a \cup {k}
<1> DEFINE r == [free |-> f, alloc |-> a, nfree |-> nf, nalloc |-> na]
           g == Append(f, f[Len(f)] + 1)
           t == [free |-> g, alloc |-> a, nfree |-> nf + 1, nalloc |-> na]
           s == alloc_object(c, r)
<1>1. nf \in Nat /\ na \in Nat /\ na + nf <= n /\ Len(f) = nf /\ f \in Seq(Nat)
  BY DEF SlabOK
<1>2. nf > 0
  BY <1>1 DEF SlabOK
<1>3. f[1] \notin a /\ f[1] \in 1..(na + nf)
  BY <1>1, <1>2 DEF SlabOK
<1>4. f[1] \in 1..n
  BY <1>1, <1>3
<1>5. s.alloc = a \cup {f[1]}
  <2>1. CASE nf = 1 /\ na + nf < n
    <3>1. alloc_new_object_in_page(c, r) = t
      BY <2>1 DEF alloc_new_object_in_page
    <3>2. /\ r.nfree = 1 /\ t.nfree # 0 /\ t.alloc = a /\ t.free = g
      BY <1>1, <2>1
    <3>3. Head(g) = f[1]
      BY <1>1, <1>2
    <3> HIDE DEF r, t, g
    <3> QED
      BY <3>1, <3>2, <3>3 DEF alloc_object
  <2>2. CASE ~(nf = 1 /\ na + nf < n)
    <3>1. /\ r.nfree # 0 /\ r.free = f /\ r.alloc = a
          /\ r.nfree = nf /\ r.nalloc = na
      BY <1>1, <1>2
    <3>2. Head(f) = f[1]
      BY <1>1, <1>2
    <3> HIDE DEF r
    <3>3. (IF r.nfree = 1 THEN alloc_new_object_in_page(c, r) ELSE r) = r
      BY <3>1, <2>2 DEF alloc_new_object_in_page
    <3> QED
      BY <3>1, <3>2, <3>3 DEF alloc_object
  <2> QED
    BY <2>1, <2>2
<1> HIDE DEF s
<1>6. \E k \in 1..n : k \notin a /\ s.alloc = a \cup {k}
  BY <1>3, <1>4, <1>5
<1> QED
  BY <1>6 DEF s

\* kmem_cache_alloc hands out one free slot of a page of its cache.
LEMMA AllocTakes ==
  ASSUME SlabInv, NEW c \in Caches, kmem_cache_alloc(c)
  PROVE  /\ cachep' = cachep
         /\ \E p \in Pages, k \in 1..capacity(c) :
              /\ cachep[p] = c /\ k \notin alloc_list[p]
              /\ alloc_list' = [alloc_list EXCEPT ![p] = @ \cup {k}]
<1>1. PICK p \in ServingPages(c) : AllocFrom(c, p, SlabOf(p))
  BY DEF kmem_cache_alloc
<1>2. p \in Pages /\ cachep[p] = c /\ alloc_num[p] # capacity(c)
  BY ServingPagesServe DEF kmem_cache_alloc
<1>3. SlabOK(capacity(c), free_list[p], alloc_list[p], free_num[p], alloc_num[p])
  BY <1>2, PageOfCache, NullIsNothing
<1>4. capacity(c) \in Nat
  BY CapacityPositive
<1>5. PICK k \in 1..capacity(c) :
         k \notin alloc_list[p] /\ alloc_object(c, SlabOf(p)).alloc = alloc_list[p] \cup {k}
  BY <1>2, <1>3, <1>4, AllocTakesOne DEF SlabOf
<1>6. alloc_list' = [alloc_list EXCEPT ![p] = alloc_object(c, SlabOf(p)).alloc]
  BY <1>1 DEF AllocFrom, SetSlab
<1>7. alloc_list' = [alloc_list EXCEPT ![p] = @ \cup {k}]
  BY <1>5, <1>6
<1> QED
  BY <1>2, <1>5, <1>7 DEF kmem_cache_alloc

\* A page from the buddy system becomes a page of the cache with one object
\* handed out.
LEMMA GrowTakes ==
  ASSUME SlabInv, NEW c \in Caches, NEW p \in BuddyPages, kmem_cache_grow(c, p)
  PROVE  /\ cachep' = [cachep EXCEPT ![p] = c] /\ alloc_list[p] = {}
         /\ \E k \in 1..capacity(c) : alloc_list' = [alloc_list EXCEPT ![p] = {k}]
<1>1. p \in Pages /\ cachep[p] = nullptr
  BY DEF BuddyPages
<1>2. SlabOK(capacity(c), <<1>>, {}, 1, 0) /\ 0 # capacity(c) /\ capacity(c) \in Nat
  BY NewSlabOK, CapacityPositive
<1>3. PICK k \in 1..capacity(c) : alloc_object(c, init_object_in_page).alloc = {} \cup {k}
  BY <1>2, AllocTakesOne DEF init_object_in_page
<1>4. alloc_list' = [alloc_list EXCEPT ![p] = alloc_object(c, init_object_in_page).alloc]
  BY DEF kmem_cache_grow, AllocFrom, SetSlab
<1> QED
  BY <1>1, <1>3, <1>4 DEF kmem_cache_grow, SlabInv, PagesOK

\* kmem_cache_free takes one slot back.
LEMMA FreeReturns ==
  ASSUME NEW p \in Pages, NEW k \in alloc_list[p], kmem_cache_free(p, k)
  PROVE  cachep' = cachep /\ alloc_list' = [alloc_list EXCEPT ![p] = @ \ {k}]
BY DEF kmem_cache_free, SetSlab

\* The slots a page has handed out, if it is a page of a cache at all.
LEMMA SlotsHandedOut ==
  ASSUME SlabInv, NEW p \in Pages
  PROVE  /\ cachep[p] = nullptr => alloc_list[p] = {} /\ alloc_num[p] = 0
         /\ cachep[p] # nullptr => /\ cachep[p] \in Caches
                                   /\ alloc_list[p] \subseteq 1..capacity(cachep[p])
         /\ alloc_list[p] = {} => alloc_num[p] = 0
<1>1. cachep[p] = nullptr => alloc_list[p] = {} /\ alloc_num[p] = 0
  BY DEF SlabInv, PagesOK
<1>2. ASSUME cachep[p] # nullptr
      PROVE  /\ cachep[p] \in Caches
             /\ alloc_list[p] \subseteq 1..capacity(cachep[p])
             /\ alloc_list[p] = {} => alloc_num[p] = 0
  <2>1. /\ cachep[p] \in Caches
        /\ SlabOK(capacity(cachep[p]), free_list[p], alloc_list[p],
                  free_num[p], alloc_num[p])
    BY <1>2, PageOfCache
  <2>2. capacity(cachep[p]) \in Nat
    BY <2>1, CapacityPositive
  <2>3. alloc_list[p] \subseteq 1..capacity(cachep[p])
    BY <2>1, <2>2 DEF SlabOK
  <2>4. Cardinality({}) = 0
    BY FS_EmptySet
  <2> QED
    BY <2>1, <2>3, <2>4 DEF SlabOK
<1> QED
  BY <1>1, <1>2

\* The bytes of two slots of a page do not overlap and lie in the page.
LEMMA ObjectBytes ==
  ASSUME NEW c \in Caches, NEW j \in 1..capacity(c), NEW k \in 1..capacity(c)
  PROVE  /\ ObjectAt(c, j) \in Nat /\ object_size(c) \in Nat \ {0}
         /\ ObjectAt(c, j) + object_size(c) <= PAGE_SIZE
         /\ j < k => ObjectAt(c, j) + object_size(c) <= ObjectAt(c, k)
<1> DEFINE n == capacity(c)
           z == size(c)
<1>1. n \in Nat /\ c \in Nat \ {0}
  BY CapacityPositive, SizesAssumption DEF Caches
<1>2. /\ z \in Nat /\ object_size(c) \in Nat \ {0} /\ z >= object_size(c) + 8
  BY <1>1 DEF size, object_size, upper_align, SLAB_ALIGN, SizeofListHead
<1>3. 24 + n * z + 8 <= PAGE_SIZE /\ PAGE_SIZE \in Nat
  BY SizesAssumption DEF Caches, NodeAt, SizeofSlabHead, SizeofListHead
<1>4. j \in Nat /\ k \in Nat /\ j <= n /\ k <= n /\ j >= 1
  BY <1>1
<1>5. /\ ObjectAt(c, j) = 24 + j * z - object_size(c)
      /\ ObjectAt(c, k) = 24 + k * z - object_size(c)
  BY <1>2, <1>4 DEF NodeAt, ObjectAt, SizeofSlabHead
<1> HIDE DEF n, z
<1>6. /\ j * z <= n * z /\ z <= j * z /\ j * z \in Nat /\ k * z \in Nat /\ n * z \in Nat
  BY <1>1, <1>2, <1>4
<1>7. j < k => j * z + z <= k * z
  <2>1. ASSUME NEW i \in Nat, i <= k PROVE i * z <= k * z
    BY <2>1, <1>2, <1>4
  <2>2. (j + 1) * z = j * z + z
    BY <1>2, <1>4
  <2>3. j < k => (j + 1) * z <= k * z
    BY <2>1, <1>4
  <2> QED
    BY <2>2, <2>3
<1> QED
  BY <1>2, <1>3, <1>5, <1>6, <1>7

-----------------------------------------------------------------------------
(* The theorems.                                                           *)

\* Every reachable state satisfies the inductive invariant: kmem_cache_alloc
\* and kmem_cache_free keep every slab head sound and every page list true.
THEOREM SlabInvariant == Spec => []SlabInv
<1>1. Init => SlabInv
  BY InitInv
<1>2. SlabInv /\ [Next]_vars => SlabInv'
  BY StepInv
<1> QED
  BY <1>1, <1>2, PTL DEF Spec

\* The counters, lists and current pages of slab.c always have their types.
THEOREM TypeCorrect == Spec => []TypeOK
<1>1. SlabInv => TypeOK
  BY DEF SlabInv
<1> QED
  BY <1>1, SlabInvariant, PTL

\* kmem_cache_alloc never hands out an object twice: no object is free and
\* allocated at once, and none is on a free list twice.
THEOREM ObjectsAreNotDoubled == Spec => []NoDoubleObject
<1>1. SlabInv => NoDoubleObject
  <2> SUFFICES ASSUME SlabInv, NEW p \in SlabPages
               PROVE  /\ FreeSlots(p) \cap alloc_list[p] = {}
                      /\ \A i, j \in 1..Len(free_list[p]) :
                           free_list[p][i] = free_list[p][j] => i = j
    BY DEF NoDoubleObject
  <2>1. SlabOK(capacity(cachep[p]), free_list[p], alloc_list[p], free_num[p], alloc_num[p])
    BY PageOfCache DEF SlabPages
  <2> QED
    BY <2>1 DEF SlabOK, FreeSlots
<1> QED
  BY <1>1, SlabInvariant, PTL

\* The slots of a page that are free or allocated are exactly those that
\* alloc_new_object_in_page carved, never more than the page holds, and the
\* counters of the slab head count them.
THEOREM CarvingIsExact == Spec => []CarvedExactly
<1>1. SlabInv => CarvedExactly
  <2> SUFFICES ASSUME SlabInv, NEW p \in SlabPages
               PROVE  /\ Carved(p) <= capacity(cachep[p])
                      /\ FreeSlots(p) \cup alloc_list[p] = 1..Carved(p)
                      /\ Len(free_list[p]) = free_num[p]
                      /\ Cardinality(alloc_list[p]) = alloc_num[p]
    BY DEF CarvedExactly
  <2>1. SlabOK(capacity(cachep[p]), free_list[p], alloc_list[p], free_num[p], alloc_num[p])
    BY PageOfCache DEF SlabPages
  <2>2. FreeSlots(p) \cup alloc_list[p] = 1..Carved(p)
    BY <2>1 DEF SlabOK, FreeSlots, Carved
  <2> QED
    BY <2>1, <2>2 DEF SlabOK, Carved
<1> QED
  BY <1>1, SlabInvariant, PTL

\* alloc_new_object_in_page never writes outside its page: objects lie behind
\* the slab head, do not overlap, and the last list node ends in the page.
THEOREM ObjectsStayInside == Spec => []InsidePage
<1>1. SlabInv => InsidePage
  <2> SUFFICES ASSUME SlabInv, NEW p \in SlabPages,
                      NEW k \in FreeSlots(p) \cup alloc_list[p]
               PROVE  /\ ObjectAt(cachep[p], k) >= SizeofSlabHead
                      /\ NodeAt(cachep[p], k) + SizeofListHead <= PAGE_SIZE
                      /\ k > 1 => NodeAt(cachep[p], k - 1) + SizeofListHead
                                    <= ObjectAt(cachep[p], k)
    BY DEF InsidePage
  <2> DEFINE c == cachep[p]
             n == capacity(c)
             z == size(c)
  <2>1. c \in Caches /\ SlabOK(n, free_list[p], alloc_list[p], free_num[p], alloc_num[p])
    BY PageOfCache DEF SlabPages
  <2>2. n \in Nat /\ c \in Nat
    BY <2>1, CapacityPositive, SizesAssumption DEF Caches
  <2>3. k \in 1..n
    <3>1. k \in 1..(alloc_num[p] + free_num[p])
      BY <2>1 DEF SlabOK, FreeSlots
    <3> QED
      BY <2>1, <2>2, <3>1 DEF SlabOK
  <2>4. z \in Nat /\ object_size(c) \in Nat /\ z >= object_size(c) + 8
    BY <2>2 DEF size, object_size, upper_align, SLAB_ALIGN, SizeofListHead
  <2>5. 24 + n * z + 8 <= PAGE_SIZE /\ PAGE_SIZE \in Nat
    BY <2>1, SizesAssumption DEF Caches, NodeAt, SizeofSlabHead, SizeofListHead
  <2> HIDE DEF c, n, z
  <2>6. k * z <= n * z /\ k * z >= z /\ k * z = (k - 1) * z + z
        /\ k * z \in Nat /\ n * z \in Nat /\ (k - 1) * z \in Nat
    BY <2>2, <2>3, <2>4
  <2>7. /\ NodeAt(c, k) = 24 + k * z /\ NodeAt(c, k - 1) = 24 + (k - 1) * z
        /\ ObjectAt(c, k) = 24 + k * z - object_size(c)
    BY <2>3, <2>4, <2>6 DEF NodeAt, ObjectAt, SizeofSlabHead, z
  <2>8. /\ ObjectAt(c, k) >= SizeofSlabHead
        /\ NodeAt(c, k) + SizeofListHead <= PAGE_SIZE
        /\ NodeAt(c, k - 1) + SizeofListHead <= ObjectAt(c, k)
    BY <2>4, <2>5, <2>6, <2>7 DEF SizeofSlabHead, SizeofListHead
  <2> QED
    BY <2>8 DEF c
<1> QED
  BY <1>1, SlabInvariant, PTL

\* While a page has slots to carve, its last free object is the frontier from
\* which alloc_new_object_in_page goes on.
THEOREM FrontierStaysLast == Spec => []FrontierIsLast
<1>1. SlabInv => FrontierIsLast
  <2> SUFFICES ASSUME SlabInv, NEW p \in SlabPages, Carved(p) < capacity(cachep[p])
               PROVE  free_num[p] > 0 /\ free_list[p][Len(free_list[p])] = Carved(p)
    BY DEF FrontierIsLast
  <2>1. SlabOK(capacity(cachep[p]), free_list[p], alloc_list[p], free_num[p], alloc_num[p])
    BY PageOfCache DEF SlabPages
  <2> QED
    BY <2>1 DEF SlabOK, Carved
<1> QED
  BY <1>1, SlabInvariant, PTL

\* Every page of a cache is on the one list its allocated count calls for.
THEOREM ListsTellTheTruth == Spec => []ListsTruthful
<1>1. SlabInv => ListsTruthful
  BY DEF SlabInv
<1> QED
  BY <1>1, SlabInvariant, PTL

\* The current page belongs to its cache, and a page that is not full always
\* has an object to give, so alloc_object never returns null.
THEOREM CurrentPagesServe == Spec => []CurrentServes
<1>1. SlabInv => CurrentServes
  <2> SUFFICES ASSUME SlabInv, NEW c \in Caches
               PROVE  /\ cpu_page[c] # nullptr => cachep[cpu_page[c]] = c
                      /\ \A p \in SlabPages :
                           cachep[p] = c /\ ~slab_is_full(c, p) => free_num[p] > 0
    BY DEF CurrentServes
  <2>1. cpu_page[c] # nullptr => cachep[cpu_page[c]] = c
    BY DEF SlabInv, CurrentOK
  <2>2. ASSUME NEW p \in SlabPages, cachep[p] = c, ~slab_is_full(c, p)
        PROVE  free_num[p] > 0
    <3>1. /\ SlabOK(capacity(c), free_list[p], alloc_list[p], free_num[p], alloc_num[p])
          /\ alloc_num[p] # capacity(c) /\ capacity(c) \in Nat
      BY <2>2, PageOfCache, CapacityPositive DEF SlabPages, slab_is_full
    <3> QED
      BY <3>1 DEF SlabOK
  <2> QED
    BY <2>1, <2>2
<1> QED
  BY <1>1, SlabInvariant, PTL

\* kmem_cache_alloc asks the buddy system for a page only when every page of
\* the cache is full.
THEOREM GrowthIsNeeded == Spec => GrowsOnlyWhenFull
<1> DEFINE Needed ==
      \A c \in Caches, p \in Pages :
        cachep[p] = nullptr /\ cachep'[p] = c =>
          \A q \in SlabPages : cachep[q] = c => slab_is_full(c, q)
<1>1. SlabInv /\ [Next]_vars => [Needed]_vars
  <2> SUFFICES ASSUME SlabInv, Next, NEW c \in Caches, NEW p \in Pages,
                      cachep[p] = nullptr, cachep'[p] = c,
                      NEW q \in SlabPages, cachep[q] = c
               PROVE  slab_is_full(c, q)
    OBVIOUS
  <2>1. cachep' # cachep
    BY NullIsNothing
  <2>2. PICK d \in Caches, r \in BuddyPages : kmem_cache_grow(d, r)
    BY <2>1 DEF Next, kmem_cache_alloc, kmem_cache_refuse, kmem_cache_free, vars
  <2>3. d = c
    BY <2>2, NullIsNothing DEF kmem_cache_grow, SlabInv, TypeOK
  <2>4. node_partial[c] = {} /\ node_free[c] = {}
    BY <2>2, <2>3 DEF kmem_cache_grow, NeedsPage
  <2>5. q \in Pages /\ alloc_num[q] \in 0..capacity(c) /\ capacity(c) \in Nat
    BY PageOfCache, CapacityPositive DEF SlabPages
  <2>6. alloc_num[q] # 0 /\ alloc_num[q] \notin 1..(capacity(c) - 1)
    BY <2>4 DEF SlabInv, ListsTruthful
  <2> QED
    BY <2>5, <2>6 DEF slab_is_full
<1> QED
  BY <1>1, SlabInvariant, PTL DEF Spec, GrowsOnlyWhenFull
=============================================================================
