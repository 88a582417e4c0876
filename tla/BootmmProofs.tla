---------------------------- MODULE BootmmProofs ----------------------------
(***************************************************************************)
(* Proofs about the boot memory manager: what find_pages returns, that no  *)
(* page is given twice, and that the zone of the buddy system is free.     *)
(***************************************************************************)
EXTENDS Bootmm, WellFoundedInduction, TLAPS

-----------------------------------------------------------------------------
(* Arithmetic.                                                             *)

\* A set of naturals that is not empty has a least element.
LEMMA LeastNumber ==
  ASSUME NEW S, S \subseteq Nat, S # {}
  PROVE  \E m \in S : \A k \in S : m <= k
<1>1. IsWellFoundedOn(OpToRel(<, Nat), Nat)
  BY NatLessThanWellFounded
<1>2. PICK m \in S : \A k \in S : ~(<<k, m>> \in OpToRel(<, Nat))
  BY <1>1, WFMin
<1>3. \A k \in S : ~(k < m)
  BY <1>2 DEF OpToRel
<1> QED BY <1>3

\* Division by a page or an alignment.
LEMMA DivMul ==
  ASSUME NEW n \in Nat, NEW a \in Nat \ {0}
  PROVE  /\ n \div a \in Nat
         /\ (n \div a) * a <= n
         /\ n < (n \div a) * a + a
         /\ n % a = n - (n \div a) * a
  BY SMT

\* A larger factor gives a larger product.
LEMMA MulMonotone ==
  ASSUME NEW p \in Int, NEW q \in Int, NEW a \in Nat, p <= q
  PROVE  p * a <= q * a
  BY SMT

LEMMA MulCancel ==
  ASSUME NEW p \in Nat, NEW a \in Nat \ {0}
  PROVE  (p * a) \div a = p /\ (p * a) % a = 0
  BY SMT

\* upper_align: the least multiple of a that is not below n.
LEMMA UpIsLeast ==
  ASSUME NEW n \in Nat, NEW a \in Nat \ {0}
  PROVE  /\ Up(n, a) \in Nat
         /\ Up(n, a) % a = 0
         /\ n <= Up(n, a)
         /\ Up(n, a) < n + a
         /\ \A m \in Nat : n <= m /\ m % a = 0 => Up(n, a) <= m
<1> DEFINE q == (n + a - 1) \div a
<1>1. q \in Nat /\ q * a <= n + a - 1 /\ n + a - 1 < q * a + a
  BY DivMul
<1>2. Up(n, a) = q * a
  BY DEF Up
<1> HIDE DEF q
<1>3. q * a \in Nat /\ (q * a) % a = 0
  BY <1>1, MulCancel
<1>4. ASSUME NEW m \in Nat, n <= m, m % a = 0, m < q * a PROVE FALSE
  <2>1. m = (m \div a) * a /\ m \div a \in Nat
    BY <1>4, DivMul
  <2>2. m \div a < q
    BY <2>1, <1>1, <1>4, MulMonotone
  <2>3. (m \div a + 1) * a <= q * a
    BY <2>1, <2>2, <1>1, MulMonotone
  <2>4. (m \div a + 1) * a = m + a
    BY <2>1
  <2> QED BY <2>3, <2>4, <1>1, <1>3, <1>4
<1> QED BY <1>1, <1>2, <1>3, <1>4

\* Rounding up is monotone.
LEMMA UpMonotone ==
  ASSUME NEW n \in Nat, NEW m \in Nat, NEW a \in Nat \ {0}, n <= m
  PROVE  Up(n, a) <= Up(m, a)
<1>1. Up(m, a) \in Nat /\ Up(m, a) % a = 0 /\ m <= Up(m, a)
  BY UpIsLeast
<1>2. \A k \in Nat : n <= k /\ k % a = 0 => Up(n, a) <= k
  BY UpIsLeast
<1> QED BY <1>1, <1>2

-----------------------------------------------------------------------------
(* The search.                                                             *)

\* A recursive definition whose argument grows up to N has a solution.
LEMMA Recursion ==
  \A N \in Nat : \A blocked \in SUBSET (0 .. N) :
    \A next \in [blocked -> 0 .. N], res \in [0 .. N -> Nat] :
      (\A i \in blocked : i < next[i]) =>
        \E f \in [0 .. N -> Nat] : \A i \in 0 .. N :
          f[i] = IF i \in blocked THEN f[next[i]] ELSE res[i]
<1> SUFFICES ASSUME NEW N \in Nat, NEW blocked \in SUBSET (0 .. N),
                    NEW next \in [blocked -> 0 .. N], NEW res \in [0 .. N -> Nat],
                    \A i \in blocked : i < next[i]
             PROVE  \E f \in [0 .. N -> Nat] : \A i \in 0 .. N :
                      f[i] = IF i \in blocked THEN f[next[i]] ELSE res[i]
  OBVIOUS
<1> DEFINE Solves(f, m) == \A i \in m .. N :
             f[i] = IF i \in blocked THEN f[next[i]] ELSE res[i]
           Bad == {k \in 0 .. N : ~ \E f \in [(N - k) .. N -> Nat] : Solves(f, N - k)}
<1> HIDE DEF Bad
<1>1. ASSUME Bad # {} PROVE FALSE
  <2>1. PICK k \in Bad : \A x \in Bad : k <= x
    <3>1. Bad \subseteq Nat
      BY DEF Bad
    <3> QED BY <1>1, <3>1, LeastNumber
  <2>2. k \in 0 .. N /\ ~ \E f \in [(N - k) .. N -> Nat] : Solves(f, N - k)
    BY <2>1 DEF Bad
  <2>3. CASE k = 0
    <3> DEFINE f == [i \in N .. N |-> res[i]]
    <3>1. N .. N = {N} /\ N \notin blocked
      BY SMT
    <3>2. f \in [N .. N -> Nat] /\ \A i \in N .. N : f[i] = res[i] /\ i \notin blocked
      BY <3>1
    <3> HIDE DEF f
    <3>3. Solves(f, N)
      BY <3>2
    <3>4. N - k = N
      BY <2>3
    <3> QED BY <2>2, <3>2, <3>3, <3>4
  <2>4. CASE k # 0
    <3> DEFINE m == N - k
    <3>1. m \in 0 .. N /\ m + 1 <= N /\ k - 1 \in 0 .. N /\ N - (k - 1) = m + 1
      BY <2>2, <2>4
    <3>2. k - 1 \notin Bad
      BY <2>1, <2>2, <3>1
    <3>3. PICK f \in [(m + 1) .. N -> Nat] : Solves(f, m + 1)
      BY <3>1, <3>2 DEF Bad
    <3> HIDE DEF m
    <3> DEFINE g == [i \in m .. N |->
                      IF i # m THEN f[i] ELSE IF m \in blocked THEN f[next[m]] ELSE res[m]]
    <3>4. \A i \in m .. N : i # m => i \in (m + 1) .. N
      BY <3>1
    <3>5. \A i \in blocked : i >= m => next[i] \in (m + 1) .. N /\ next[i] \in m .. N /\ next[i] # m
      BY <3>1
    <3>6. m \in m .. N
      BY <3>1
    <3>7. g \in [m .. N -> Nat]
      BY <3>1, <3>3, <3>4, <3>5
    <3>8. ASSUME NEW i \in m .. N
          PROVE  g[i] = IF i \in blocked THEN g[next[i]] ELSE res[i]
      <4>1. CASE i = m
        <5>1. m \in blocked => g[next[m]] = f[next[m]]
          BY <3>1, <3>5
        <5> QED BY <4>1, <5>1
      <4>2. CASE i # m
        <5>1. i \in (m + 1) .. N /\ g[i] = f[i]
          BY <4>2, <3>4
        <5>2. i \in blocked => g[next[i]] = f[next[i]]
          BY <3>5, <3>1, <3>8
        <5>3. f[i] = IF i \in blocked THEN f[next[i]] ELSE res[i]
          BY <3>3, <5>1
        <5> QED BY <5>1, <5>2, <5>3
      <4> QED BY <4>1, <4>2
    <3>9. Solves(g, m)
      BY <3>8
    <3> QED BY <2>2, <3>7, <3>9 DEF m
  <2> QED BY <2>3, <2>4
<1>2. Bad = {}
  BY <1>1
<1>3. N \in 0 .. N /\ N - N = 0
  OBVIOUS
<1>4. \E f \in [(N - N) .. N -> Nat] : Solves(f, N - N)
  BY <1>2, <1>3 DEF Bad
<1> QED BY <1>3, <1>4

\* The function Scan satisfies its definition.
LEMMA ScanStep ==
  ASSUME NEW n \in Nat, NEW stop \in Nat, stop < PageNum, NEW a \in Nat \ {0}
  PROVE  \A i \in 0 .. Up(PageNum, a) :
           Scan(n, stop, a)[i] =
             IF Obstacle(n, i, stop) # {}
             THEN Scan(n, stop, a)[Up((CHOOSE j \in Obstacle(n, i, stop) : TRUE) + 1, a)]
             ELSE IF n = 0 \/ i + n - 1 > stop THEN 0 ELSE i
<1> DEFINE N == Up(PageNum, a)
           met(i) == CHOOSE j \in Obstacle(n, i, stop) : TRUE
           blocked == {i \in 0 .. N : Obstacle(n, i, stop) # {}}
           next == [i \in blocked |-> Up(met(i) + 1, a)]
           res == [i \in 0 .. N |-> IF n = 0 \/ i + n - 1 > stop THEN 0 ELSE i]
<1>0. PageNum \in Nat
  BY BootmmAssumption
<1>1. N \in Nat
  BY <1>0, UpIsLeast
<1> HIDE DEF N
<1>2. ASSUME NEW i \in blocked PROVE Up(met(i) + 1, a) \in 0 .. N /\ i < Up(met(i) + 1, a)
  <2>1. met(i) \in Obstacle(n, i, stop) /\ i \in 0 .. N
    OBVIOUS
  <2>2. Obstacle(n, i, stop) \subseteq i .. stop
    BY DEF Obstacle
  <2> HIDE DEF met
  <2>3. met(i) + 1 \in Nat /\ met(i) + 1 <= PageNum /\ i < met(i) + 1
    BY <2>1, <2>2, <1>1, <1>0
  <2>4. Up(met(i) + 1, a) \in Nat /\ met(i) + 1 <= Up(met(i) + 1, a)
    BY <2>3, UpIsLeast
  <2>5. Up(met(i) + 1, a) <= N
    BY <2>3, <1>0, UpMonotone DEF N
  <2> QED BY <2>3, <2>4, <2>5, <2>1, <1>1
<1>3. blocked \subseteq 0 .. N /\ next \in [blocked -> 0 .. N] /\ \A i \in blocked : i < next[i]
  <2> HIDE DEF met
  <2> QED BY <1>2
<1>4. res \in [0 .. N -> Nat]
  BY <1>1
<1> HIDE DEF met, blocked, next, res
<1>5. PICK f \in [0 .. N -> Nat] : \A i \in 0 .. N :
        f[i] = IF i \in blocked THEN f[next[i]] ELSE res[i]
  <2>1. blocked \in SUBSET (0 .. N)
    BY <1>3
  <2>2. \A nx \in [blocked -> 0 .. N], rs \in [0 .. N -> Nat] :
          (\A i \in blocked : i < nx[i]) =>
            \E f \in [0 .. N -> Nat] : \A i \in 0 .. N :
              f[i] = IF i \in blocked THEN f[nx[i]] ELSE rs[i]
    BY <1>1, <2>1, Recursion, Zenon
  <2> QED BY <1>3, <1>4, <2>2, Zenon
<1> DEFINE body(g) == [i \in 0 .. N |->
             IF Obstacle(n, i, stop) # {}
             THEN g[Up((CHOOSE j \in Obstacle(n, i, stop) : TRUE) + 1, a)]
             ELSE IF n = 0 \/ i + n - 1 > stop THEN 0 ELSE i]
<1>6. \A i \in 0 .. N : f[i] = body(f)[i]
  <2> SUFFICES ASSUME NEW i \in 0 .. N PROVE f[i] = body(f)[i]
    OBVIOUS
  <2>1. CASE i \in blocked
    <3>1. f[i] = f[Up(met(i) + 1, a)]
      BY <1>5, <2>1 DEF next
    <3> QED BY <2>1, <3>1 DEF blocked, met
  <2>2. CASE i \notin blocked
    <3>1. f[i] = IF n = 0 \/ i + n - 1 > stop THEN 0 ELSE i
      BY <1>5, <2>2 DEF res
    <3> QED BY <2>2, <3>1 DEF blocked
  <2> QED BY <2>1, <2>2
<1>7. f = body(f)
  BY <1>6
<1>8. Scan(n, stop, a) = CHOOSE g : g = body(g)
  BY DEF Scan, N
<1> DEFINE F == Scan(n, stop, a)
<1>9. F = body(F)
  <2> HIDE DEF body, F
  <2>1. \E g : g = body(g)
    BY <1>7
  <2> QED BY <1>8, <2>1 DEF F
<1> HIDE DEF F
<1>10. \A i \in 0 .. N : F[i] = body(F)[i]
  BY <1>9
<1> QED BY <1>10 DEF F, N

\* got is the lowest of the runs, and 0 if there is none.
Lowest(got, runs) ==
  IF runs = {} THEN got = 0 ELSE got \in runs /\ \A i \in runs : got <= i

\* When no used page is met among n pages, none of them is used.
LEMMA NothingMet ==
  ASSUME NEW n \in Nat \ {0}, NEW i \in Nat, NEW stop \in Nat,
         Obstacle(n, i, stop) = {}, i + n - 1 <= stop
  PROVE  \A p \in i .. (i + n - 1) : ~Used(p)
<1> DEFINE met == {p \in i .. (i + n - 1) : Used(p)}
<1>1. ASSUME met # {} PROVE FALSE
  <2>1. met \subseteq Nat
    OBVIOUS
  <2> HIDE DEF met
  <2>2. PICK j \in met : \A k \in met : j <= k
    BY <1>1, <2>1, LeastNumber
  <2>3. j \in i .. (i + n - 1) /\ Used(j) /\ j \in i .. stop /\ j < i + n
    BY <2>2 DEF met
  <2>4. ASSUME NEW k \in i .. (j - 1) PROVE ~Used(k)
    BY <2>2, <2>3 DEF met
  <2> QED BY <2>3, <2>4 DEF Obstacle
<1> QED BY <1>1

\* A used page met from i on lies in every run that starts between them.
LEMMA MetBlocks ==
  ASSUME NEW n \in Nat \ {0}, NEW i \in Nat, NEW stop \in Nat, NEW a \in Nat \ {0},
         NEW j \in Obstacle(n, i, stop), NEW k \in FreeRuns(n, a, i, stop)
  PROVE  Up(j + 1, a) <= k
<1>1. /\ j \in i .. stop /\ Used(j) /\ j < i + n
  BY DEF Obstacle
<1>2. k \in i .. stop /\ k % a = 0 /\ \A p \in k .. (k + n - 1) : ~Used(p)
  BY DEF FreeRuns
<1>3. j + 1 <= k
  <2>1. ASSUME k <= j PROVE FALSE
    <3>1. j \in k .. (k + n - 1)
      BY <1>1, <1>2, <2>1
    <3> QED BY <3>1, <1>1, <1>2
  <2> QED BY <2>1, <1>1, <1>2
<1>4. j + 1 \in Nat /\ k \in Nat
  BY <1>1, <1>2
<1> QED BY <1>2, <1>3, <1>4, UpIsLeast

\* What the loop returns from an aligned candidate on.
LEMMA ScanLowest ==
  ASSUME NEW n \in Nat, NEW stop \in Nat, stop < PageNum, NEW a \in Nat \ {0}
  PROVE  \A i \in 0 .. Up(PageNum, a) :
           i % a = 0 => Lowest(Scan(n, stop, a)[i], FreeRuns(n, a, i, stop))
<1> DEFINE N == Up(PageNum, a)
           Right(i) == Lowest(Scan(n, stop, a)[i], FreeRuns(n, a, i, stop))
           Wrong == {d \in 0 .. N : (N - d) % a = 0 /\ ~Right(N - d)}
<1>0. PageNum \in Nat /\ N \in Nat /\ PageNum <= N
  BY BootmmAssumption, UpIsLeast
<1> HIDE DEF N, Wrong
<1>1. ASSUME Wrong # {} PROVE FALSE
  <2>0. Wrong \subseteq Nat
    BY DEF Wrong
  <2>1. PICK d \in Wrong : \A x \in Wrong : d <= x
    BY <1>1, <2>0, LeastNumber
  <2>2. PICK i \in 0 .. N : i = N - d
    BY <2>1, <1>0 DEF Wrong
  <2>3. i % a = 0 /\ ~Right(i)
    BY <2>1, <2>2 DEF Wrong
  <2>4. \A k \in 0 .. N : i < k /\ k % a = 0 => Right(k)
    <3> SUFFICES ASSUME NEW k \in 0 .. N, i < k, k % a = 0, ~Right(k) PROVE FALSE
      OBVIOUS
    <3>1. N - k \in 0 .. N /\ N - (N - k) = k /\ N - k < d
      BY <2>2, <2>0, <1>0
    <3>2. N - k \in Wrong
      BY <3>1 DEF Wrong
    <3> QED BY <3>1, <3>2, <2>1, <2>0
  <2> HIDE DEF Right
  <2>5. CASE Obstacle(n, i, stop) # {}
    <3> DEFINE j == CHOOSE j \in Obstacle(n, i, stop) : TRUE
    <3>1. j \in Obstacle(n, i, stop) /\ j \in i .. stop
      BY <2>5 DEF Obstacle
    <3>2. Scan(n, stop, a)[i] = Scan(n, stop, a)[Up(j + 1, a)]
      BY <2>5, ScanStep DEF N
    <3> HIDE DEF j
    <3>3. PICK k \in Nat : k = Up(j + 1, a)
      <4>1. j + 1 \in Nat
        BY <3>1
      <4> QED BY <4>1, UpIsLeast
    <3>4. k \in 0 .. N /\ i < k /\ k % a = 0
      <4>1. j + 1 \in Nat /\ j + 1 <= PageNum /\ i < j + 1
        BY <3>1, <1>0
      <4>2. j + 1 <= k /\ k % a = 0
        BY <4>1, <3>3, UpIsLeast
      <4>3. k <= N
        BY <4>1, <3>3, <1>0, UpMonotone DEF N
      <4> QED BY <4>1, <4>2, <4>3
    <3>5. FreeRuns(n, a, i, stop) = FreeRuns(n, a, k, stop)
      <4>1. ASSUME NEW r \in FreeRuns(n, a, k, stop) PROVE r \in FreeRuns(n, a, i, stop)
        <5>1. r \in k .. stop => r \in i .. stop
          BY <3>4
        <5> QED BY <5>1 DEF FreeRuns
      <4>2. ASSUME NEW r \in FreeRuns(n, a, i, stop) PROVE r \in FreeRuns(n, a, k, stop)
        <5>1. n # 0 /\ r \in i .. stop
          BY DEF FreeRuns
        <5>2. Up(j + 1, a) <= r
          BY <5>1, <3>1, MetBlocks
        <5>3. r \in k .. stop
          BY <5>1, <5>2, <3>3
        <5> QED BY <5>3 DEF FreeRuns
      <4> QED BY <4>1, <4>2
    <3>6. Right(k)
      BY <2>4, <3>4
    <3> QED BY <3>2, <3>3, <3>5, <3>6, <2>3 DEF Right
  <2>6. CASE Obstacle(n, i, stop) = {}
    <3>1. Scan(n, stop, a)[i] = IF n = 0 \/ i + n - 1 > stop THEN 0 ELSE i
      BY <2>6, ScanStep DEF N
    <3>2. CASE n = 0 \/ i + n - 1 > stop
      <4>1. FreeRuns(n, a, i, stop) = {}
        BY <3>2 DEF FreeRuns
      <4> QED BY <3>1, <3>2, <4>1, <2>3 DEF Right, Lowest
    <3>3. CASE ~(n = 0 \/ i + n - 1 > stop)
      <4>1. i \in FreeRuns(n, a, i, stop)
        <5>1. \A p \in i .. (i + n - 1) : ~Used(p)
          BY <3>3, <2>6, NothingMet
        <5> QED BY <5>1, <3>3, <2>3 DEF FreeRuns
      <4>2. \A k \in FreeRuns(n, a, i, stop) : i <= k
        BY DEF FreeRuns
      <4> QED BY <3>1, <3>3, <4>1, <4>2, <2>3 DEF Right, Lowest
    <3> QED BY <3>2, <3>3
  <2> QED BY <2>5, <2>6
<1>2. ASSUME NEW i \in 0 .. N, i % a = 0 PROVE Right(i)
  <2>1. N - i \in 0 .. N /\ N - (N - i) = i
    BY <1>0
  <2>2. N - i \notin Wrong
    BY <1>1
  <2> QED BY <2>1, <2>2, <1>2 DEF Wrong
<1> QED BY <1>2 DEF N

\* find_pages returns the lowest aligned free run between its bounds.
LEMMA FindPages ==
  \A n \in Nat, lo \in 0 .. PageNum, hi \in Pages, align \in Nat :
    Lowest(find_pages(n, lo, hi, align), FreeRuns(n, align, lo, hi))
<1> SUFFICES ASSUME NEW n \in Nat, NEW lo \in 0 .. PageNum, NEW hi \in Pages,
                    NEW align \in Nat
             PROVE  Lowest(find_pages(n, lo, hi, align), FreeRuns(n, align, lo, hi))
  OBVIOUS
<1>0. PageNum \in Nat /\ hi \in Nat /\ hi < PageNum /\ lo \in Nat
  BY BootmmAssumption DEF Pages
<1>1. PICK a \in Nat \ {0} : a = IF align = 0 THEN 1 ELSE align
  OBVIOUS
<1>2. find_pages(n, lo, hi, align) = Scan(n, hi, a)[Up(lo, a)]
  <2>1. (IF PageNum - 1 < hi THEN PageNum - 1 ELSE hi) = hi
    BY <1>0
  <2> QED BY <1>1, <2>1 DEF find_pages
<1>3. Up(lo, a) \in 0 .. Up(PageNum, a) /\ Up(lo, a) % a = 0 /\ lo <= Up(lo, a)
  <2>1. Up(lo, a) \in Nat /\ Up(PageNum, a) \in Nat /\ Up(lo, a) % a = 0 /\ lo <= Up(lo, a)
    BY <1>0, UpIsLeast
  <2>2. Up(lo, a) <= Up(PageNum, a)
    BY <1>0, UpMonotone
  <2> QED BY <2>1, <2>2
<1>4. FreeRuns(n, align, lo, hi) = FreeRuns(n, a, Up(lo, a), hi)
  <2>1. (IF align = 0 THEN 1 ELSE align) = a /\ (IF a = 0 THEN 1 ELSE a) = a
    BY <1>1
  <2>2. \A i \in lo .. hi : i % a = 0 => i \in Up(lo, a) .. hi
    <3> SUFFICES ASSUME NEW i \in lo .. hi, i % a = 0 PROVE i \in Up(lo, a) .. hi
      OBVIOUS
    <3>1. i \in Nat /\ lo <= i
      BY <1>0
    <3>2. Up(lo, a) <= i
      BY <1>0, <3>1, UpIsLeast
    <3> QED BY <3>2, <1>3, <1>0
  <2>3. \A i \in Up(lo, a) .. hi : i \in lo .. hi
    BY <1>0, <1>3
  <2> QED BY <2>1, <2>2, <2>3 DEF FreeRuns
<1> QED BY <1>2, <1>3, <1>4, <1>0, ScanLowest

-----------------------------------------------------------------------------
(* Sizes in pages.                                                         *)

\* The page count of a size is the least number of pages that hold it.
LEMMA PageCntIsLeast ==
  \A size \in Nat :
    /\ PageCnt(size) \in Nat
    /\ size <= PageCnt(size) * PageSize
    /\ size \div PageSize \in Nat
    /\ size \div PageSize <= PageCnt(size)
    /\ PageSize <= size => PageCnt(size) > 0
    /\ \A k \in Nat : size <= k * PageSize => PageCnt(size) <= k
<1> SUFFICES ASSUME NEW size \in Nat
             PROVE  /\ PageCnt(size) \in Nat
                    /\ size <= PageCnt(size) * PageSize
                    /\ size \div PageSize \in Nat
                    /\ size \div PageSize <= PageCnt(size)
                    /\ PageSize <= size => PageCnt(size) > 0
                    /\ \A k \in Nat : size <= k * PageSize => PageCnt(size) <= k
  OBVIOUS
<1>0. PageSize \in Nat \ {0}
  BY BootmmAssumption
<1>1. PICK u \in Nat : /\ u = Up(size, PageSize) /\ u % PageSize = 0 /\ size <= u
                       /\ \A m \in Nat : size <= m /\ m % PageSize = 0 => u <= m
  BY <1>0, UpIsLeast
<1>2. PICK c \in Nat : c = u \div PageSize
  BY <1>0, DivMul
<1>3. c = PageCnt(size) /\ u = c * PageSize
  <2>1. u % PageSize = u - c * PageSize
    BY <1>0, <1>2, DivMul
  <2>2. u = c * PageSize
    BY <2>1, <1>1, <1>0
  <2> QED BY <1>1, <1>2, <2>2 DEF PageCnt
<1>4. PICK d \in Nat : d = size \div PageSize /\ d * PageSize <= size
  BY <1>0, DivMul
<1>5. d <= c
  <2>1. ASSUME c < d PROVE FALSE
    <3>1. (c + 1) * PageSize <= d * PageSize
      BY <2>1, <1>0, MulMonotone
    <3>2. (c + 1) * PageSize = u + PageSize
      BY <1>3, <1>0
    <3> QED BY <3>1, <3>2, <1>1, <1>4, <1>0, <1>3
  <2> QED BY <2>1
<1>6. PageSize <= size => c > 0
  <2>1. c = 0 => u = 0
    BY <1>3, <1>0
  <2> QED BY <2>1, <1>1, <1>0
<1>7. ASSUME NEW k \in Nat, size <= k * PageSize PROVE c <= k
  <2>1. k * PageSize \in Nat /\ (k * PageSize) % PageSize = 0
    BY <1>0, MulCancel
  <2>2. c * PageSize <= k * PageSize
    BY <2>1, <1>1, <1>3, <1>7
  <2>3. ASSUME k < c PROVE FALSE
    <3>1. (k + 1) * PageSize <= c * PageSize
      BY <2>3, <1>0, MulMonotone
    <3>2. (k + 1) * PageSize = k * PageSize + PageSize
      BY <1>0
    <3> QED BY <3>1, <3>2, <2>1, <2>2, <1>0
  <2> QED BY <2>3
<1> QED BY <1>1, <1>3, <1>4, <1>5, <1>6, <1>7

LEMMA PfnAlignNat == \A align \in Nat : PfnAlign(align) \in Nat
  BY BootmmAssumption, DivMul DEF PfnAlign

-----------------------------------------------------------------------------
(* The invariant.                                                          *)

\* Before the first allocation the table has the one record of the kernel.
KernelRecord ==
  /\ info_cnt = 1
  /\ info = [i \in 0 .. (MaxInfo - 1) |->
               [start |-> 0, length |-> IF i = 0 THEN KernelPages * PageSize ELSE 0]]

\* Pages and callers agree, whatever the table says; and until something was
\* allocated, nothing is held and the table is the one of Init.
BootInv ==
  /\ page_map \subseteq Pages
  /\ last_alloc_end \in Pages
  /\ held \in [Pages -> Nat]
  /\ GivenOnce
  /\ last_alloc_end = 0 => KernelRecord /\ \A p \in Pages : held[p] = 0
  /\ ZoneIsFree

LEMMA PageZero == BootInv => 0 \in page_map
  BY BootmmAssumption DEF BootInv, GivenOnce, Kernel

\* What the two searches of a request find: free pages of the memory.
LEMMA FoundIsFree ==
  BootInv => \A size \in Nat, align \in Nat :
    Found(size, align) # 0 =>
      LET res == Found(size, align)
      IN  /\ res \in Nat /\ PageCnt(size) \in Nat /\ PageCnt(size) > 0
          /\ res + PageCnt(size) - 1 \in Pages
          /\ \A p \in res .. (res + PageCnt(size) - 1) : p \in Pages /\ p \notin page_map
<1> SUFFICES ASSUME BootInv, NEW size \in Nat, NEW align \in Nat, NEW res,
                    res = Found(size, align), res # 0
             PROVE  /\ res \in Nat /\ PageCnt(size) \in Nat /\ PageCnt(size) > 0
                    /\ res + PageCnt(size) - 1 \in Pages
                    /\ \A p \in res .. (res + PageCnt(size) - 1) : p \in Pages /\ p \notin page_map
  OBVIOUS
<1>1. PICK n \in Nat, al \in Nat : n = PageCnt(size) /\ al = PfnAlign(align)
  BY PageCntIsLeast, PfnAlignNat
<1>2. PICK l \in Pages : l = last_alloc_end
  BY DEF BootInv
<1>3. PageNum \in Nat /\ PageNum - 1 \in Pages /\ l \in Nat /\ l + 1 \in 0 .. PageNum /\ 0 \in 0 .. PageNum
  BY BootmmAssumption DEF Pages
<1>4. \E lo \in 0 .. PageNum, hi \in Pages : res = find_pages(n, lo, hi, al)
  BY <1>1, <1>2, <1>3 DEF Found
<1>5. PICK lo \in 0 .. PageNum, hi \in Pages : res = find_pages(n, lo, hi, al)
  BY <1>4
<1>6. Lowest(res, FreeRuns(n, al, lo, hi))
  BY <1>5, FindPages
<1>7. res \in FreeRuns(n, al, lo, hi)
  BY <1>6 DEF Lowest
<1>8. /\ res \in lo .. hi /\ n > 0 /\ res + n - 1 <= hi
      /\ \A p \in res .. (res + n - 1) : ~Used(p)
  BY <1>7 DEF FreeRuns
<1> QED BY <1>1, <1>3, <1>8 DEF Pages, Used

\* find_pages keeps what it promises in every state of the invariant.
LEMMA InvFindsLowest == BootInv => FindsLowest
<1> SUFFICES ASSUME BootInv,
                    NEW n \in {PageCnt(s) : s \in Sizes},
                    NEW a \in {PfnAlign(x) : x \in Aligns},
                    NEW lo \in Pages, NEW hi \in Pages
             PROVE  Lowest(find_pages(n, lo, hi, a), FreeRuns(n, a, lo, hi))
  BY DEF FindsLowest, Lowest
<1>1. n \in Nat /\ a \in Nat
  BY BootmmAssumption, PageCntIsLeast, PfnAlignNat
<1>2. lo \in 0 .. PageNum
  BY BootmmAssumption DEF Pages
<1> QED BY <1>1, <1>2, FindPages

LEMMA InvRefuses == BootInv => RefusesOnlyCrossing
<1> SUFFICES ASSUME BootInv, NEW size \in Sizes, NEW align \in Aligns,
                    Found(size, align) = 0,
                    NEW i \in FreeRuns(PageCnt(size), PfnAlign(align), 0, PageNum - 1),
                    last_alloc_end \notin i .. (i + PageCnt(size) - 2)
             PROVE  FALSE
  BY DEF RefusesOnlyCrossing
<1>1. PICK n \in Nat, al \in Nat : n = PageCnt(size) /\ al = PfnAlign(align)
  BY BootmmAssumption, PageCntIsLeast, PfnAlignNat
<1>2. PICK l \in Pages : l = last_alloc_end
  BY DEF BootInv
<1>3. PageNum \in Nat /\ PageNum - 1 \in Pages /\ l \in Nat /\ l <= PageNum - 1
      /\ l + 1 \in 0 .. PageNum /\ 0 \in 0 .. PageNum
  BY BootmmAssumption DEF Pages
<1>4. /\ i \in 0 .. (PageNum - 1) /\ n > 0 /\ i + n - 1 <= PageNum - 1
      /\ i \in FreeRuns(n, al, 0, PageNum - 1)
  BY <1>1 DEF FreeRuns
<1>5. /\ find_pages(n, l + 1, PageNum - 1, al) = 0
      /\ find_pages(n, 0, l, al) = 0
  BY <1>1, <1>2 DEF Found
<1>6. /\ Lowest(0, FreeRuns(n, al, l + 1, PageNum - 1))
      /\ Lowest(0, FreeRuns(n, al, 0, l))
  BY <1>3, <1>5, FindPages
<1>7. CASE l < i
  <2>1. i \in FreeRuns(n, al, l + 1, PageNum - 1)
    BY <1>3, <1>4, <1>7 DEF FreeRuns
  <2>2. 0 \in FreeRuns(n, al, l + 1, PageNum - 1)
    BY <2>1, <1>6 DEF Lowest
  <2> QED BY <2>2, <1>3 DEF FreeRuns
<1>8. CASE i + n - 1 <= l
  <2>1. i \in FreeRuns(n, al, 0, l)
    BY <1>3, <1>4, <1>8 DEF FreeRuns
  <2>2. 0 \in FreeRuns(n, al, 0, l)
    BY <2>1, <1>6 DEF Lowest
  <2>3. ~Used(0)
    BY <2>2, <1>4 DEF FreeRuns
  <2> QED BY <2>3, PageZero DEF Used
<1> QED BY <1>1, <1>2, <1>3, <1>4, <1>7, <1>8

-----------------------------------------------------------------------------
(* The steps.                                                              *)

\* An allocation takes free pages and marks them; its end is behind page 0.
LEMMA AllocateKeeps ==
  ASSUME BootInv, NEW size \in Nat, NEW align \in Nat, Allocate(size, align)
  PROVE  /\ page_map' \subseteq Pages
         /\ last_alloc_end' \in Pages /\ last_alloc_end' # 0
         /\ held' \in [Pages -> Nat]
         /\ GivenOnce'
<1>1. PICK res : res = Found(size, align)
  OBVIOUS
<1>2. PICK n \in Nat : n = PageCnt(size)
  BY PageCntIsLeast
<1>3. /\ res # 0
      /\ page_map' = page_map \cup (res .. (res + n - 1))
      /\ last_alloc_end' = res + n - 1
      /\ held' = [p \in Pages |-> IF p \in res .. (res + n - 1) THEN held[p] + 1 ELSE held[p]]
  BY <1>1, <1>2 DEF Allocate
<1>4. /\ res \in Nat /\ n > 0 /\ res + n - 1 \in Pages
      /\ \A p \in res .. (res + n - 1) : p \in Pages /\ p \notin page_map
  BY <1>1, <1>2, <1>3, FoundIsFree
<1>5. /\ page_map \subseteq Pages /\ held \in [Pages -> Nat] /\ Kernel \subseteq page_map
      /\ \A p \in Pages : held[p] <= (IF p \in page_map \ Kernel THEN 1 ELSE 0)
  BY DEF BootInv, GivenOnce
<1>6. held' \in [Pages -> Nat] /\ page_map' \subseteq Pages
  BY <1>3, <1>4, <1>5
<1>7. ASSUME NEW p \in Pages
      PROVE  held'[p] <= (IF p \in page_map' \ Kernel THEN 1 ELSE 0)
  <2>1. CASE p \in res .. (res + n - 1)
    <3>1. held[p] = 0 /\ p \notin Kernel
      BY <2>1, <1>4, <1>5
    <3>2. held'[p] = 1 /\ p \in page_map' \ Kernel
      BY <3>1, <2>1, <1>3
    <3> QED BY <3>2
  <2>2. CASE p \notin res .. (res + n - 1)
    <3>1. held'[p] = held[p] /\ (p \in page_map' <=> p \in page_map)
      BY <2>2, <1>3
    <3> QED BY <3>1, <1>5
  <2> QED BY <2>1, <2>2
<1>8. GivenOnce'
  BY <1>3, <1>5, <1>7 DEF GivenOnce, Kernel
<1>9. last_alloc_end' # 0
  BY <1>3, <1>4
<1> QED BY <1>3, <1>4, <1>6, <1>8, <1>9

LEMMA AllocPageStep ==
  ASSUME BootInv, NEW size \in Sizes, NEW align \in Aligns, bootmm_alloc_page(size, align)
  PROVE  BootInv'
<1>1. size \in Nat /\ align \in Nat
  BY BootmmAssumption
<1>2. Allocate(size, align) /\ zone' = zone /\ zone = NoZone
  BY DEF bootmm_alloc_page
<1>3. /\ page_map' \subseteq Pages
      /\ last_alloc_end' \in Pages /\ last_alloc_end' # 0
      /\ held' \in [Pages -> Nat]
      /\ GivenOnce'
  BY <1>1, <1>2, AllocateKeeps
<1>4. ZoneIsFree'
  BY <1>2 DEF ZoneIsFree, NoZone
<1> QED BY <1>3, <1>4 DEF BootInv, Pages

\* A caller that gives pages back holds them all, and only whole pages of its
\* own are marked free.
LEMMA FreePageStep ==
  ASSUME BootInv, NEW pfn \in Pages, NEW size \in Sizes, bootmm_free_page(pfn, size)
  PROVE  BootInv'
<1>1. size \in Nat /\ pfn \in Nat /\ KernelPages \in Nat /\ PageSize \in Nat
  BY BootmmAssumption DEF Pages
<1>2. PICK n \in Nat, d \in Nat : n = PageCnt(size) /\ d = size \div PageSize /\ d <= n
                                  /\ (PageSize <= size => n > 0)
  BY <1>1, PageCntIsLeast
<1> DEFINE mine == pfn .. (pfn + n - 1)
<1>3. /\ zone = NoZone /\ zone' = zone /\ last_alloc_end' = last_alloc_end
      /\ pfn >= KernelPages /\ size >= PageSize
      /\ \A p \in mine : p \in Pages /\ held[p] > 0
      /\ \/ page_map' = page_map
         \/ page_map' = page_map \ (pfn .. (pfn + d - 1))
      /\ held' = [p \in Pages |-> IF p \in mine THEN held[p] - 1 ELSE held[p]]
  BY <1>2 DEF bootmm_free_page, Freed
<1>4. /\ page_map \subseteq Pages /\ held \in [Pages -> Nat] /\ Kernel \subseteq page_map
      /\ \A p \in Pages : held[p] <= (IF p \in page_map \ Kernel THEN 1 ELSE 0)
      /\ last_alloc_end \in Pages
      /\ last_alloc_end = 0 => \A p \in Pages : held[p] = 0
  BY DEF BootInv, GivenOnce
<1>5. held' \in [Pages -> Nat]
  BY <1>3, <1>4
<1>6. \A p \in pfn .. (pfn + d - 1) : p \in mine /\ p \notin Kernel
  BY <1>1, <1>2, <1>3 DEF Kernel
<1>7. page_map' \subseteq Pages /\ Kernel \subseteq page_map'
  BY <1>3, <1>4, <1>6
<1>8. ASSUME NEW p \in Pages
      PROVE  held'[p] <= (IF p \in page_map' \ Kernel THEN 1 ELSE 0)
  <2>1. CASE p \in mine
    <3>1. held'[p] = held[p] - 1 /\ held[p] <= 1 /\ held[p] \in Nat
      BY <2>1, <1>3, <1>4
    <3> QED BY <3>1
  <2>2. CASE p \notin mine
    <3>1. held'[p] = held[p] /\ (p \in page_map' <=> p \in page_map)
      BY <2>2, <1>3, <1>6
    <3> QED BY <3>1, <1>4
  <2> QED BY <2>1, <2>2
<1>9. GivenOnce'
  BY <1>7, <1>8 DEF GivenOnce, Kernel
<1>10. last_alloc_end # 0
  <2>1. pfn \in mine
    BY <1>1, <1>2, <1>3
  <2>2. held[pfn] > 0
    BY <2>1, <1>3
  <2> QED BY <2>2, <1>4
<1>11. ZoneIsFree'
  BY <1>3 DEF ZoneIsFree, NoZone
<1> QED BY <1>3, <1>4, <1>5, <1>7, <1>9, <1>10, <1>11 DEF BootInv, Pages

\* The record of the kernel absorbs one that begins where it ends.
LEMMA KernelRecordGrows ==
  ASSUME KernelRecord, NEW size \in Nat, NEW start, start = KernelPages * PageSize
  PROVE  LET r == insert_bootmm_info(Table, start, size).T.info[0]
         IN  End(r) \in Nat /\ start + size <= End(r)
<1>0. KernelPages \in Nat /\ PageSize \in Nat /\ MaxInfo \in Nat \ {0}
      /\ Beyond \in [start : Nat, length : Nat]
  BY BootmmAssumption
<1>1. start \in Nat
  BY <1>0
<1> DEFINE T == Table
           K == [start |-> 0, length |-> start]
<1>2. /\ T.cnt = 1 /\ DOMAIN T.info = 0 .. (MaxInfo - 1) /\ 0 \in DOMAIN T.info
      /\ T.info[0] = K
      /\ T = [info |-> T.info, cnt |-> 1]
  BY <1>0 DEF KernelRecord, Table
<1>3. Slot(T, 1) \in [start : Nat, length : Nat]
  <2>1. CASE 1 < MaxInfo
    <3>1. 1 \in 0 .. (MaxInfo - 1)
      BY <2>1, <1>0
    <3>2. T.info[1] = [start |-> 0, length |-> 0]
      BY <3>1 DEF KernelRecord, Table
    <3> QED BY <3>2, <2>1 DEF Slot
  <2>2. CASE ~(1 < MaxInfo)
    BY <2>2, <1>0 DEF Slot
  <2> QED BY <2>1, <2>2
<1> HIDE DEF T
<1> DEFINE Joins(i) == End(T.info[i]) = start \/ start + size = T.info[i].length
           first == CHOOSE i \in 0 .. (T.cnt - 1) : Joins(i) /\ \A j \in 0 .. (i - 1) : ~Joins(j)
<1>4. End(T.info[0]) = start
  BY <1>1, <1>2 DEF End
<1>5. 0 .. (T.cnt - 1) = {0} /\ 0 .. (0 - 1) = {}
  BY <1>2
<1>6. first = 0
  BY <1>4, <1>5
<1>7. \E i \in 0 .. (T.cnt - 1) : Joins(i)
  BY <1>4, <1>5
<1> HIDE DEF first
<1> DEFINE Longer(x) == [T EXCEPT !.info[0].length = @ + x]
           Joined == [T EXCEPT !.info[first].length = @ + size + Slot(T, first + 1).length]
<1>8. insert_bootmm_info(T, start, size).T =
        IF End(T.info[first]) # start
        THEN [T EXCEPT !.info[first] = [start |-> start, length |-> @.length + size]]
        ELSE IF start + size = Slot(T, first + 1).start
        THEN delete_bootmm_info(Joined, first + 1)
        ELSE [T EXCEPT !.info[first].length = @ + size]
  BY <1>7 DEF insert_bootmm_info, first
<1>9. PICK I \in [0 .. (MaxInfo - 1) -> [start : Nat, length : Nat]] :
        T = [info |-> I, cnt |-> 1] /\ I[0] = K
  <2>1. /\ info = [i \in 0 .. (MaxInfo - 1) |->
                     [start |-> 0, length |-> IF i = 0 THEN start ELSE 0]]
        /\ info_cnt = 1
    BY DEF KernelRecord
  <2>2. info \in [0 .. (MaxInfo - 1) -> [start : Nat, length : Nat]]
    BY <2>1, <1>1
  <2>3. info[0] = K
    BY <2>1, <1>0
  <2> QED BY <2>1, <2>2, <2>3 DEF T, Table
<1>10. \A x \in Nat : /\ Longer(x).info = [I EXCEPT ![0].length = @ + x]
                      /\ Longer(x).cnt = 1
  BY <1>9
<1>11. \A x \in Nat : Longer(x).info[0] = [start |-> 0, length |-> start + x]
  <2> SUFFICES ASSUME NEW x \in Nat
               PROVE  [I EXCEPT ![0].length = @ + x][0] = [start |-> 0, length |-> start + x]
    BY <1>10
  <2>1. [I EXCEPT ![0].length = @ + x][0] = [I[0] EXCEPT !.length = @ + x]
    BY <1>0
  <2> QED BY <2>1, <1>9
<1>12. PICK x \in Nat : size <= x /\ insert_bootmm_info(T, start, size).T = Longer(x)
  <2>1. CASE start + size = Slot(T, 1).start
    <3>1. PICK x \in Nat : x = size + Slot(T, 1).length /\ size <= x
      BY <1>3
    <3>2. T.info[0].length \in Nat /\ Slot(T, 1).length \in Nat
      BY <1>1, <1>2, <1>3
    <3>3. Joined = Longer(x)
      <4>1. T.info[0].length + size + Slot(T, 1).length = T.info[0].length + x
        BY <3>1, <3>2
      <4> QED BY <4>1, <1>6, <1>9
    <3>4. delete_bootmm_info(Longer(x), 1) = Longer(x)
      <4>1. Longer(x).cnt = 1
        BY <1>10
      <4> HIDE DEF Longer
      <4> QED BY <4>1 DEF delete_bootmm_info
    <3> QED BY <3>1, <3>3, <3>4, <2>1, <1>4, <1>6, <1>8
  <2>2. CASE start + size # Slot(T, 1).start
    BY <2>2, <1>4, <1>6, <1>8
  <2> QED BY <2>1, <2>2
<1>13. insert_bootmm_info(T, start, size).T.info[0] = [start |-> 0, length |-> start + x]
  BY <1>11, <1>12
<1> QED BY <1>12, <1>13, <1>1 DEF End, T

\* At boot the page structures are put right behind the kernel.
LEMMA FirstFound ==
  ASSUME BootInv, page_map = Kernel, last_alloc_end = 0
  PROVE  Found(PageNum * PageStruct, PageSize) = KernelPages
<1> DEFINE size == PageNum * PageStruct
<1>0. /\ PageNum \in Nat \ {0} /\ KernelPages \in Nat \ {0} /\ PageSize \in Nat \ {0}
      /\ PageStruct \in Nat \ {0} /\ BuddyBlock \in Nat \ {0}
  BY BootmmAssumption
<1>1. size \in Nat /\ size > 0
  BY <1>0
<1> HIDE DEF size
<1>2. PICK n \in Nat : n = PageCnt(size) /\ n > 0
  <2>1. PageCnt(size) \in Nat /\ size <= PageCnt(size) * PageSize
    BY <1>1, PageCntIsLeast
  <2>2. 0 * PageSize = 0
    BY <1>0
  <2> QED BY <2>1, <2>2, <1>1
<1>3. KernelPages + n <= PageNum
  <2>1. Up(KernelPages + n, BuddyBlock) <= PageNum
    BY <1>2, BootmmAssumption DEF PageCnt, size
  <2>2. KernelPages + n <= Up(KernelPages + n, BuddyBlock) /\ Up(KernelPages + n, BuddyBlock) \in Nat
    <3>1. KernelPages + n \in Nat
      BY <1>0
    <3> QED BY <1>0, <3>1, UpIsLeast
  <2> QED BY <2>1, <2>2, <1>0
<1>4. PfnAlign(PageSize) = 1
  <2>1. (1 * PageSize) \div PageSize = 1
    BY <1>0, MulCancel
  <2> QED BY <2>1, <1>0 DEF PfnAlign
<1>5. PageNum - 1 \in Pages /\ 1 \in 0 .. PageNum
  BY <1>0 DEF Pages
<1> DEFINE ahead == find_pages(n, 1, PageNum - 1, 1)
           runs == FreeRuns(n, 1, 1, PageNum - 1)
<1>6. Lowest(ahead, runs)
  BY <1>5, FindPages
<1>7. KernelPages \in runs
  <2>1. \A p \in KernelPages .. (KernelPages + n - 1) : ~Used(p)
    BY <1>0 DEF Used, Kernel
  <2>2. KernelPages \in 1 .. (PageNum - 1) /\ KernelPages + n - 1 <= PageNum - 1
    BY <1>0, <1>2, <1>3
  <2>3. KernelPages % 1 = 0
    BY <1>0
  <2> QED BY <2>1, <2>2, <2>3, <1>2 DEF FreeRuns
<1> HIDE DEF ahead
<1>8. \A k \in runs : KernelPages <= k
  <2>0. \A k \in runs : k \in Int
    BY DEF FreeRuns
  <2> SUFFICES ASSUME NEW k \in runs, k < KernelPages PROVE FALSE
    BY <1>0, <2>0
  <2>1. k \in 1 .. (PageNum - 1) /\ \A p \in k .. (k + n - 1) : ~Used(p)
    BY DEF FreeRuns
  <2>2. k \in Kernel /\ k \in k .. (k + n - 1)
    BY <2>1, <1>0, <1>2 DEF Kernel
  <2> QED BY <2>1, <2>2 DEF Used
<1>9. ahead \in Nat /\ ahead = KernelPages
  <2>1. ahead \in runs /\ ahead <= KernelPages
    BY <1>6, <1>7 DEF Lowest
  <2>2. ahead \in 1 .. (PageNum - 1)
    BY <2>1 DEF FreeRuns
  <2> QED BY <2>1, <2>2, <1>8, <1>0
<1>10. Found(size, PageSize) = ahead
  <2>1. last_alloc_end + 1 = 1
    OBVIOUS
  <2>2. ahead # 0
    BY <1>9, <1>0
  <2> QED BY <1>2, <1>4, <2>1, <2>2 DEF Found, ahead
<1> QED BY <1>9, <1>10 DEF size

\* init_buddy: the zone begins behind the first record, which ends behind all
\* the pages in use.
LEMMA InitBuddyStep ==
  ASSUME BootInv, init_buddy
  PROVE  BootInv'
<1> DEFINE size == PageNum * PageStruct
<1>0. /\ PageNum \in Nat \ {0} /\ KernelPages \in Nat \ {0} /\ PageSize \in Nat \ {0}
      /\ PageStruct \in Nat \ {0} /\ BuddyBlock \in Nat \ {0} /\ size \in Nat
  BY BootmmAssumption
<1>1. /\ page_map = Kernel /\ last_alloc_end = 0 /\ Allocate(size, PageSize)
      /\ zone' = ZoneBehind(End(info'[0]))
  BY DEF init_buddy
<1> HIDE DEF size
<1>2. /\ page_map' \subseteq Pages
      /\ last_alloc_end' \in Pages /\ last_alloc_end' # 0
      /\ held' \in [Pages -> Nat]
      /\ GivenOnce'
  BY <1>0, <1>1, AllocateKeeps
<1>3. Found(size, PageSize) = KernelPages
  BY <1>1, FirstFound DEF size
<1>4. PICK n \in Nat : n = PageCnt(size) /\ \A k \in Nat : size <= k * PageSize => n <= k
  BY <1>0, PageCntIsLeast
<1>5. /\ page_map' = Kernel \cup (KernelPages .. (KernelPages + n - 1))
      /\ info' = insert_bootmm_info(Table, KernelPages * PageSize, size).T.info
  BY <1>1, <1>3, <1>4 DEF Allocate
<1>6. KernelRecord
  BY <1>1 DEF BootInv
<1>7. PICK e \in Nat : e = End(info'[0]) /\ KernelPages * PageSize + size <= e
  <2>1. LET r == insert_bootmm_info(Table, KernelPages * PageSize, size).T.info[0]
        IN  End(r) \in Nat /\ KernelPages * PageSize + size <= End(r)
    BY <1>0, <1>6, KernelRecordGrows
  <2> QED BY <2>1, <1>5
<1>8. PICK c \in Nat : c = PageCnt(e) /\ e <= c * PageSize
  BY PageCntIsLeast
<1>9. KernelPages + n <= c
  <2>1. KernelPages * PageSize \in Nat /\ c * PageSize \in Nat
    BY <1>0
  <2>2. KernelPages <= c
    <3>1. ASSUME c < KernelPages PROVE FALSE
      <4>1. (c + 1) * PageSize <= KernelPages * PageSize
        BY <3>1, <1>0, MulMonotone
      <4>2. (c + 1) * PageSize = c * PageSize + PageSize
        BY <1>0
      <4> QED BY <4>1, <4>2, <2>1, <1>7, <1>8, <1>0
    <3> QED BY <3>1, <1>0
  <2>3. (c - KernelPages) * PageSize = c * PageSize - KernelPages * PageSize
    BY <1>0
  <2>4. size <= (c - KernelPages) * PageSize /\ c - KernelPages \in Nat
    BY <2>1, <2>2, <2>3, <1>0, <1>7, <1>8
  <2>5. n <= c - KernelPages
    BY <2>4, <1>4
  <2> QED BY <2>5, <1>0
<1>10. PICK s \in Nat : s = Up(c, BuddyBlock) /\ c <= s
  BY <1>0, UpIsLeast
<1>11. zone'.start = s
  BY <1>1, <1>7, <1>8, <1>10 DEF ZoneBehind
<1>12. \A p \in page_map' : p < s /\ p \in Nat
  BY <1>0, <1>5, <1>9, <1>10 DEF Kernel
<1>13. ZoneIsFree'
  <2> SUFFICES ASSUME NEW p \in page_map', p \in zone'.start .. (zone'.start + zone'.num - 1)
               PROVE  FALSE
    BY DEF ZoneIsFree
  <2>1. PICK z : z = zone'.start + zone'.num - 1
    OBVIOUS
  <2>2. p \in s .. z
    BY <2>1, <1>11
  <2> QED BY <2>2, <1>12
<1> QED BY <1>2, <1>13 DEF BootInv, Pages

-----------------------------------------------------------------------------
(* Theorems.                                                               *)

\* Whatever is requested and given back in whatever order, the page map and the
\* callers agree, although the table of records may not (bootmm.c).
THEOREM BootInvariant == Spec => []BootInv
<1>1. Init => BootInv
  <2> SUFFICES ASSUME Init PROVE BootInv
    OBVIOUS
  <2>0. PageNum \in Nat \ {0} /\ KernelPages \in Nat \ {0} /\ KernelPages <= PageNum
    <3>1. PICK c \in Nat : c = Up(PageNum * PageStruct, PageSize) \div PageSize
      <4>1. PageNum * PageStruct \in Nat
        BY BootmmAssumption
      <4>2. PageCnt(PageNum * PageStruct) \in Nat
        BY <4>1, PageCntIsLeast
      <4> QED BY <4>2 DEF PageCnt
    <3>2. KernelPages + c <= Up(KernelPages + c, BuddyBlock) /\ Up(KernelPages + c, BuddyBlock) \in Nat
      <4>1. KernelPages + c \in Nat /\ BuddyBlock \in Nat \ {0}
        BY BootmmAssumption
      <4> QED BY <4>1, UpIsLeast
    <3> QED BY <3>1, <3>2, BootmmAssumption
  <2>1. Kernel \subseteq Pages /\ 0 \in Pages
    BY <2>0 DEF Kernel, Pages
  <2>2. held \in [Pages -> Nat] /\ \A p \in Pages : held[p] = 0
    BY DEF Init
  <2>3. GivenOnce
    BY <2>2 DEF Init, GivenOnce
  <2>4. ZoneIsFree
    BY DEF Init, ZoneIsFree, NoZone
  <2> QED BY <2>1, <2>2, <2>3, <2>4 DEF BootInv, Init, KernelRecord
<1>2. BootInv /\ [Next]_vars => BootInv'
  <2> SUFFICES ASSUME BootInv, [Next]_vars PROVE BootInv'
    OBVIOUS
  <2>1. CASE \E size \in Sizes, align \in Aligns : bootmm_alloc_page(size, align)
    BY <2>1, AllocPageStep
  <2>2. CASE \E pfn \in Pages, size \in Sizes : bootmm_free_page(pfn, size)
    BY <2>2, FreePageStep
  <2>3. CASE init_buddy
    BY <2>3, InitBuddyStep
  <2>4. CASE UNCHANGED vars
    BY <2>4 DEF vars, BootInv, GivenOnce, KernelRecord, ZoneIsFree
  <2> QED BY <2>1, <2>2, <2>3, <2>4 DEF Next
<1> QED BY <1>1, <1>2, PTL DEF Spec

\* No page is given to two callers, and none of the kernel's to any, for every
\* memory, table and order of calls (bootmm_alloc_page, bootmm_free_page).
THEOREM PagesAreGivenOnce == Spec => []GivenOnce
<1>1. BootInv => GivenOnce
  BY DEF BootInv
<1> QED BY <1>1, BootInvariant, PTL

\* The loop of find_pages, skipping behind the used page it met, finds the
\* lowest aligned run of free pages, in a memory of any size.
THEOREM SearchFindsLowest == Spec => []FindsLowest
  BY InvFindsLowest, BootInvariant, PTL

\* The two searches of bootmm_alloc_page miss only runs that contain the end of
\* the last allocation.
THEOREM RefusalsOnlyCross == Spec => []RefusesOnlyCrossing
  BY InvRefuses, BootInvariant, PTL

\* The zone that init_buddy takes holds no page in use.
THEOREM BuddyZoneIsFree == Spec => []ZoneIsFree
<1>1. BootInv => ZoneIsFree
  BY DEF BootInv
<1> QED BY <1>1, BootInvariant, PTL
=============================================================================
