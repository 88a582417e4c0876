---------------------------- MODULE Fat32Proofs -----------------------------
(***************************************************************************)
(* Proofs about the file system, for a card of any size, any number of     *)
(* files, handles and bytes per cluster.                                   *)
(*                                                                         *)
(* ClustersOwnedOnce is not inductive: that freeing the chain of one file  *)
(* leaves the others alone needs that a walk along the table stays in the  *)
(* clusters of its file, so the map of every file must be closed under the *)
(* table.  Who owns what is a predicate of the table and the maps as       *)
(* values, and every action replaces the map of one file: ChangeOne is the *)
(* one argument behind creating, extending, emptying and deleting.         *)
(*                                                                         *)
(* The second half shows that the file system implements flat files.       *)
(* Three more invariants carry the refinement.  ChainInv: a map is the     *)
(* chain on the card, or the chain has lost one of its clusters for good,  *)
(* so where power_cycle reads chains back it finds the maps there were.    *)
(* CursorInv: a position, a block and an offset name the same byte.        *)
(* BlockInv: a page is a block, and a dirty one is there.                  *)
(***************************************************************************)
EXTENDS Fat32, FiniteSetTheorems, WellFoundedInduction, SequenceTheorems, TLAPS

\* The clusters of a map.
R(m) == {m[i] : i \in 1 .. Len(m)}

\* Map m with table F: no cluster is free, and no link leads out of the map.
FileOK(F, m) ==
  /\ RootClu \notin R(m)
  /\ \A c \in R(m) : F[c] # FREE /\ (F[c] \in Clusters => F[c] \in R(m))

\* The table F and the maps M agree, and no two maps share a cluster.
OwnedOK(F, M) ==
  /\ \A f \in Files : FileOK(F, M[f])
  /\ \A f, e \in Files : f # e => R(M[f]) \cap R(M[e]) = {}
  /\ F[RootClu] # FREE

\* No free cluster of table F lies below n.
HintOK(F, n) == \A c \in Clusters : F[c] = FREE => c >= n

Fats == [Clusters -> Clusters \cup {FREE, END}]

LEMMA EmptyMap == R(<< >>) = {}
  BY DEF R

LEMMA MapType ==
  ASSUME NEW m \in Seq(Clusters)
  PROVE  R(m) \subseteq Clusters
  BY DEF R

LEMMA ClusterType ==
  ASSUME NEW c \in Clusters
  PROVE  c \in Nat /\ c + 1 \in Int
  BY Fat32Assumption

\* A sequence written as a function.
LEMMA FunctionIsMap ==
  ASSUME NEW n \in Nat, NEW S, NEW s \in [1 .. n -> S]
  PROVE  s \in Seq(S) /\ Len(s) = n /\ R(s) \subseteq S
         /\ \A c : c \in R(s) <=> \E i \in 1 .. n : s[i] = c
<1>1. s \in Seq(S) /\ Len(s) = n
  OBVIOUS
<1> QED
  BY <1>1 DEF R

LEMMA ConcatenatedMaps ==
  ASSUME NEW m \in Seq(Clusters), NEW s \in Seq(Clusters)
  PROVE  m \o s \in Seq(Clusters) /\ R(m \o s) = R(m) \cup R(s)
         /\ (m # << >> => (m \o s)[1] = m[1] /\ m \o s # << >>)
<1>1. m \o s \in Seq(Clusters) /\ Len(m \o s) = Len(m) + Len(s)
  OBVIOUS
<1>2. \A i \in 1 .. Len(m) : (m \o s)[i] = m[i]
  OBVIOUS
<1>3. \A i \in 1 .. Len(s) : (m \o s)[Len(m) + i] = s[i]
  OBVIOUS
<1>4. R(m \o s) \subseteq R(m) \cup R(s)
  <2> SUFFICES ASSUME NEW i \in 1 .. Len(m \o s)
               PROVE  (m \o s)[i] \in R(m) \cup R(s)
    BY DEF R
  <2>1. CASE i \in 1 .. Len(m)
    BY <2>1, <1>2 DEF R
  <2>2. CASE i \notin 1 .. Len(m)
    <3>1. i - Len(m) \in 1 .. Len(s)
      BY <2>2, <1>1
    <3>2. (m \o s)[i] = s[i - Len(m)]
      BY <3>1, <1>3
    <3> QED
      BY <3>1, <3>2 DEF R
  <2> QED
    BY <2>1, <2>2
<1>5. R(m) \subseteq R(m \o s)
  BY <1>1, <1>2 DEF R
<1>6. R(s) \subseteq R(m \o s)
  <2> SUFFICES ASSUME NEW i \in 1 .. Len(s)
               PROVE  s[i] \in R(m \o s)
    BY DEF R
  <2>1. Len(m) + i \in 1 .. Len(m \o s)
    BY <1>1
  <2> QED
    BY <2>1, <1>3 DEF R
<1>7. ASSUME m # << >> PROVE (m \o s)[1] = m[1] /\ m \o s # << >>
  <2>1. Len(m) > 0
    BY <1>7
  <2> QED
    BY <2>1, <1>1, <1>2
<1> QED
  BY <1>1, <1>4, <1>5, <1>6, <1>7

\* One file gets another map: if that map takes no cluster of another file
\* and the table changes at clusters of the two maps only, everything agrees.
LEMMA ChangeOne ==
  ASSUME NEW F, NEW F2, NEW M \in [Files -> Seq(Clusters)], NEW f \in Files,
         NEW m \in Seq(Clusters), OwnedOK(F, M),
         \A e \in Files \ {f} : R(M[e]) \cap R(m) = {},
         \A x \in Clusters : x \notin R(m) \cup R(M[f]) => F2[x] = F[x],
         FileOK(F2, m)
  PROVE  OwnedOK(F2, [M EXCEPT ![f] = m])
<1> DEFINE M2 == [M EXCEPT ![f] = m]
<1>1. M2[f] = m /\ \A e \in Files \ {f} : M2[e] = M[e]
  OBVIOUS
<1> HIDE DEF M2
<1>2. ASSUME NEW e \in Files PROVE FileOK(F2, M2[e])
  <2>1. CASE e = f
    BY <2>1, <1>1
  <2>2. CASE e # f
    <3>1. FileOK(F, M[e]) /\ R(M[e]) \cap R(M[f]) = {} /\ R(M[e]) \cap R(m) = {}
      BY <2>2 DEF OwnedOK
    <3>2. \A x \in R(M[e]) : F2[x] = F[x]
      BY <3>1, MapType
    <3> QED
      BY <3>1, <3>2, <2>2, <1>1 DEF FileOK
  <2> QED
    BY <2>1, <2>2
<1>3. ASSUME NEW d \in Files, NEW e \in Files, d # e
      PROVE  R(M2[d]) \cap R(M2[e]) = {}
  <2>1. CASE d # f /\ e # f
    BY <2>1, <1>1, <1>3 DEF OwnedOK
  <2>2. CASE d = f \/ e = f
    BY <2>2, <1>1, <1>3
  <2> QED
    BY <2>1, <2>2
<1>4. F2[RootClu] # FREE
  <2>1. RootClu \notin R(m) /\ RootClu \notin R(M[f]) /\ F[RootClu] # FREE
    BY DEF OwnedOK, FileOK
  <2> QED
    BY <2>1, Fat32Assumption
<1> QED
  BY <1>2, <1>3, <1>4 DEF OwnedOK, M2

\* A walk along the table from the first cluster of a file stays in its map.
LEMMA WalkStays ==
  ASSUME NEW m \in Seq(Clusters), m # << >>, FileOK(fat, m)
  PROVE  Reach(m[1]) \subseteq R(m) /\ m[1] \in Reach(m[1])
         /\ m[1] \in R(m) /\ m[1] \in Clusters
<1>1. m[1] \in R(m) /\ m[1] \in Clusters
  BY DEF R
<1>2. R(m) \in SUBSET Clusters
  BY MapType
<1>3. \A x \in R(m) : fat[x] \in Clusters => fat[x] \in R(m)
  BY DEF FileOK
<1>4. Reach(m[1]) \subseteq R(m)
  BY <1>1, <1>2, <1>3 DEF Reach
<1>5. m[1] \in Reach(m[1])
  BY <1>1 DEF Reach
<1> QED
  BY <1>1, <1>4, <1>5

\* expand_fat32: free clusters linked behind the first cluster of a map.
LEMMA Linked ==
  ASSUME NEW m \in Seq(Clusters), m # << >>, FileOK(fat, m), fat \in Fats,
         fat[RootClu] # FREE, NEW n \in Nat, n > 0, NEW s \in [1 .. n -> Clusters],
         \A i \in 1 .. n : fat[s[i]] = FREE
  PROVE  /\ LinkedAt(m[1], s) \in Fats
         /\ FileOK(LinkedAt(m[1], s), m \o s)
         /\ \A x \in Clusters : x \notin R(m \o s) => LinkedAt(m[1], s)[x] = fat[x]
         /\ \A x \in Clusters : LinkedAt(m[1], s)[x] = FREE =>
              fat[x] = FREE /\ \A i \in 1 .. n : s[i] # x
<1> DEFINE F2 == LinkedAt(m[1], s)
<1>1. s \in Seq(Clusters) /\ Len(s) = n /\ \A c : c \in R(s) <=> \E i \in 1 .. n : s[i] = c
  BY FunctionIsMap
<1>2. R(m \o s) = R(m) \cup R(s)
  BY <1>1, ConcatenatedMaps
<1>3. m[1] \in R(m) /\ m[1] \in Clusters /\ R(m) \subseteq Clusters
  BY WalkStays, MapType
<1>4. FREE \notin Clusters /\ END \notin Clusters /\ FREE # END /\ RootClu \in Clusters
  BY Fat32Assumption
<1>5. ASSUME NEW x \in Clusters
      PROVE  \/ F2[x] = END
             \/ F2[x] \in R(s) /\ x \in R(m) \cup R(s)
             \/ F2[x] = fat[x] /\ x \notin R(s)
  <2>1. CASE x = s[Len(s)]
    BY <2>1 DEF LinkedAt
  <2>2. CASE x # s[Len(s)] /\ x = m[1]
    <3>1. F2[x] = s[1]
      BY <2>2 DEF LinkedAt
    <3> QED
      BY <3>1, <2>2, <1>1, <1>3
  <2>3. CASE /\ x # s[Len(s)] /\ x # m[1]
             /\ \E i \in 1 .. Len(s) - 1 : s[i] = x
    <3> DEFINE j == CHOOSE i \in 1 .. Len(s) - 1 : s[i] = x
    <3>1. F2[x] = s[1 + j]
      BY <2>3 DEF LinkedAt
    <3>2. j \in 1 .. Len(s) - 1 /\ s[j] = x
      BY <2>3
    <3> HIDE DEF j
    <3>3. 1 + j \in 1 .. n /\ j \in 1 .. n
      BY <3>2, <1>1
    <3> QED
      BY <3>1, <3>2, <3>3, <1>1
  <2>4. CASE /\ x # s[Len(s)] /\ x # m[1]
             /\ ~ \E i \in 1 .. Len(s) - 1 : s[i] = x
    <3>1. F2[x] = fat[x]
      BY <2>4 DEF LinkedAt
    <3>2. \A i \in 1 .. n : s[i] # x
      BY <2>4, <1>1
    <3> QED
      BY <3>1, <3>2, <1>1
  <2> QED
    BY <2>1, <2>2, <2>3, <2>4
<1>6. R(s) \subseteq Clusters /\ \A x \in R(s) : fat[x] = FREE
  BY <1>1
<1>7. F2 \in Fats
  <2>1. F2 = [x \in Clusters |-> F2[x]]
    BY DEF LinkedAt
  <2>2. \A x \in Clusters : F2[x] \in Clusters \cup {FREE, END}
    BY <1>5, <1>6 DEF Fats
  <2> HIDE DEF F2
  <2> QED
    BY <2>1, <2>2 DEF Fats
<1> HIDE DEF F2
<1>8. \A x \in Clusters : F2[x] = FREE => fat[x] = FREE /\ \A i \in 1 .. n : s[i] # x
  BY <1>1, <1>4, <1>5, <1>6
<1>9. \A x \in Clusters : x \notin R(m \o s) => F2[x] = fat[x]
  <2> SUFFICES ASSUME NEW x \in Clusters, x \notin R(m), x \notin R(s)
               PROVE  F2[x] = fat[x]
    BY <1>2
  <2>1. x # s[Len(s)] /\ x # m[1] /\ ~ \E i \in 1 .. Len(s) - 1 : s[i] = x
    BY <1>1, <1>3
  <2> QED
    BY <2>1 DEF LinkedAt, F2
<1>10. FileOK(F2, m \o s)
  <2>1. RootClu \notin R(m \o s)
    BY <1>2, <1>6 DEF FileOK
  <2>2. ASSUME NEW c \in R(m \o s)
        PROVE  F2[c] # FREE /\ (F2[c] \in Clusters => F2[c] \in R(m \o s))
    <3>1. c \in Clusters /\ (c \in R(m) \/ c \in R(s))
      BY <1>2, <1>3, <1>6
    <3>2. CASE F2[c] = END
      BY <3>2, <1>4
    <3>3. CASE F2[c] \in R(s)
      BY <3>3, <1>2, <1>4, <1>6
    <3>4. CASE F2[c] = fat[c] /\ c \notin R(s)
      BY <3>1, <3>4, <1>2 DEF FileOK
    <3> QED
      BY <3>1, <3>2, <3>3, <3>4, <1>5
  <2> QED
    BY <2>1, <2>2 DEF FileOK
<1> QED
  BY <1>7, <1>8, <1>9, <1>10 DEF F2

-----------------------------------------------------------------------------
(* The invariant of the table, the maps and the handles.                   *)

EntryRec == [first : Clusters, size : Int]

Types ==
  /\ fat \in Fats /\ info_next_clu \in Int
  /\ i_data_map \in [Files -> Seq(Clusters)] /\ i_size \in [Files -> Int]
  /\ entry \in [Files -> EntryRec \cup {Absent}]
  /\ fp \in [Handles -> HandleRec \cup {Closed, Deleted}]

\* A file with a map has an entry with its first cluster, and no other has.
EntriesOK(E, M) ==
  \A f \in Files : /\ M[f] = << >> => E[f] = Absent
                   /\ M[f] # << >> => E[f] \in EntryRec /\ E[f].first = M[f][1]

\* A handle in use has a file with a map, and no other handle has that file.
OpenOK(P, M) ==
  \A h \in Handles : P[h] \notin {Closed, Deleted} =>
    /\ M[P[h].file] # << >>
    /\ \A k \in Handles :
         P[k] \notin {Closed, Deleted} /\ P[k].file = P[h].file => k = h

TableInv ==
  /\ Types
  /\ EntriesOK(entry, i_data_map)
  /\ OpenOK(fp, i_data_map)
  /\ OwnedOK(fat, i_data_map)
  /\ HintOK(fat, info_next_clu)

LEMMA NotAHandle == \A r \in HandleRec : r \notin {Closed, Deleted}
  BY Fat32Assumption

LEMMA BlocksType ==
  ASSUME NEW n \in Int
  PROVE  Blocks(n) \in Int
  BY Fat32Assumption DEF Blocks

LEMMA MaxType ==
  ASSUME NEW a \in Int, NEW b \in Int
  PROVE  Max2(a, b) \in Int
  BY DEF Max2

LEMMA UsableType ==
  ASSUME Types, NEW h \in Handles, Usable(h)
  PROVE  /\ fp[h] \in HandleRec /\ fp[h].file \in Files
         /\ fp[h].f_size \in Int /\ fp[h].f_pos \in Int
         /\ fp[h].f_cur_map \in Int /\ fp[h].f_cur_off \in Int
<1>1. fp[h] \in HandleRec
  BY DEF Types, Usable
<1> QED
  BY <1>1 DEF HandleRec

LEMMA OpenedType ==
  ASSUME NEW f \in Files, NEW m \in Modes \cup {"WRITE"}, NEW n \in Int, NEW k \in Int
  PROVE  /\ dentry_open_file(f, m, n, k) \in HandleRec
         /\ dentry_open_file(f, m, n, k).file = f
  BY Fat32Assumption DEF dentry_open_file, HandleRec

LEMMA MovedType ==
  ASSUME Types, NEW h \in Handles, Usable(h), NEW n \in Int
  PROVE  Moved(h, n) \in HandleRec /\ Moved(h, n).file = fp[h].file
<1>1. fp[h] \in HandleRec /\ fp[h].f_pos \in Int
      /\ fp[h].f_cur_map \in Int /\ fp[h].f_cur_off \in Int
  BY UsableType
<1> DEFINE k == MapAfter(fp[h].f_cur_map, fp[h].f_cur_off, n)
           o == OffAfter(fp[h].f_cur_map, fp[h].f_cur_off, n)
<1>2. k \in Int
  <2>1. Blocks(fp[h].f_cur_off + n) \in Int
    BY <1>1, BlocksType
  <2>2. Max2(0, Blocks(fp[h].f_cur_off + n) - 1) \in Int
    BY <2>1, MaxType
  <2> QED
    BY <1>1, <2>2 DEF MapAfter
<1>3. o \in Int
  <2>1. BlockSize \in Int
    BY Fat32Assumption
  <2> QED
    BY <1>1, <1>2, <2>1 DEF OffAfter
<1>4. fp[h].f_pos + n \in Int
  BY <1>1
<1>5. Moved(h, n) = [fp[h] EXCEPT !.f_pos = @ + n, !.f_cur_map = k, !.f_cur_off = o]
  BY DEF Moved
<1> HIDE DEF k, o
<1> QED
  BY <1>1, <1>2, <1>3, <1>4, <1>5 DEF HandleRec

LEMMA ExpandType ==
  ASSUME Types, NEW f \in Files, NEW n \in Int
  PROVE  expand_blks(f, n) \in Int
<1>1. i_blocks(f) \in Int /\ BlockSize \in Int
  BY Fat32Assumption DEF Types, i_blocks
<1>2. n - i_blocks(f) * BlockSize \in Int
  BY <1>1
<1>3. Blocks(n - i_blocks(f) * BlockSize) \in Int
  BY <1>2, BlocksType
<1> QED
  BY <1>3, MaxType DEF expand_blks

\* A handle is closed, or moves in its file: whose file is whose stays.
LEMMA HandleMoves ==
  ASSUME NEW P, NEW M, NEW h \in Handles, NEW r, OpenOK(P, M),
         P \in [Handles -> HandleRec \cup {Closed, Deleted}],
         r \in {Closed, Deleted} \/ (P[h] \notin {Closed, Deleted} /\ r.file = P[h].file)
  PROVE  OpenOK([P EXCEPT ![h] = r], M)
<1> DEFINE Q == [P EXCEPT ![h] = r]
<1>1. Q[h] = r /\ \A k \in Handles \ {h} : Q[k] = P[k]
  OBVIOUS
<1> HIDE DEF Q
<1>2. \A k \in Handles : Q[k] \notin {Closed, Deleted} =>
        P[k] \notin {Closed, Deleted} /\ Q[k].file = P[k].file
  BY <1>1
<1>3. OpenOK(Q, M)
  BY <1>2 DEF OpenOK
<1> QED
  BY <1>3 DEF Q

\* A closed handle is opened on a file that no handle has.
LEMMA HandleOpens ==
  ASSUME NEW P, NEW M, NEW h \in Handles, NEW r, OpenOK(P, M),
         P \in [Handles -> HandleRec \cup {Closed, Deleted}], P[h] \in {Closed, Deleted},
         M[r.file] # << >>,
         \A k \in Handles : P[k] \notin {Closed, Deleted} => P[k].file # r.file
  PROVE  OpenOK([P EXCEPT ![h] = r], M)
<1> DEFINE Q == [P EXCEPT ![h] = r]
<1>1. Q[h] = r /\ \A k \in Handles \ {h} : Q[k] = P[k]
  OBVIOUS
<1> HIDE DEF Q
<1>2. OpenOK(Q, M)
  BY <1>1 DEF OpenOK
<1> QED
  BY <1>2 DEF Q

\* A file without a handle, or with only a handle that goes away, may change
\* its map as it likes; a file with a handle must keep one.
LEMMA MapChanges ==
  ASSUME NEW P, NEW M \in [Files -> Seq(Clusters)], NEW f \in Files, NEW m, OpenOK(P, M),
         P \in [Handles -> HandleRec \cup {Closed, Deleted}],
         m # << >> \/ \A k \in Handles : P[k] \notin {Closed, Deleted} => P[k].file # f
  PROVE  OpenOK(P, [M EXCEPT ![f] = m])
<1> DEFINE M2 == [M EXCEPT ![f] = m]
<1>1. M2[f] = m /\ \A e \in Files \ {f} : M2[e] = M[e]
  OBVIOUS
<1> HIDE DEF M2
<1>2. \A k \in Handles : P[k] \notin {Closed, Deleted} => P[k].file \in Files
  BY DEF HandleRec
<1>3. OpenOK(P, M2)
  BY <1>1, <1>2 DEF OpenOK
<1> QED
  BY <1>3 DEF M2

-----------------------------------------------------------------------------
(* Every action keeps it.                                                  *)

LEMMA TableInit == Init => TableInv
<1> SUFFICES ASSUME Init PROVE TableInv
  OBVIOUS
<1>1. Types
  <2>1. fat \in Fats
    BY Fat32Assumption DEF Init, Fats
  <2>2. info_next_clu \in Int
    BY Fat32Assumption DEF Init
  <2>3. i_data_map \in [Files -> Seq(Clusters)] /\ i_size \in [Files -> Int]
    BY DEF Init
  <2>4. entry \in [Files -> EntryRec \cup {Absent}]
    BY DEF Init
  <2>5. fp \in [Handles -> HandleRec \cup {Closed, Deleted}]
    BY DEF Init
  <2> QED
    BY <2>1, <2>2, <2>3, <2>4, <2>5 DEF Types
<1>2. EntriesOK(entry, i_data_map) /\ OpenOK(fp, i_data_map)
  BY DEF Init, EntriesOK, OpenOK
<1>3. OwnedOK(fat, i_data_map)
  BY EmptyMap, Fat32Assumption DEF Init, OwnedOK, FileOK
<1>4. HintOK(fat, info_next_clu)
  BY Fat32Assumption DEF Init, HintOK
<1> QED
  BY <1>1, <1>2, <1>3, <1>4 DEF TableInv

LEMMA TableCreate ==
  ASSUME TableInv, NEW h \in Handles, NEW f \in Files, NEW m \in Modes,
         create_dentry(h, f, m)
  PROVE  TableInv'
<1>1. PICK s \in find_free_clu(1) :
        /\ fat' = [fat EXCEPT ![s[1]] = END]
        /\ entry' = [entry EXCEPT ![f] = [first |-> s[1], size |-> 0]]
        /\ i_data_map' = [i_data_map EXCEPT ![f] = s]
        /\ i_size' = [i_size EXCEPT ![f] = 0]
  BY DEF create_dentry
<1>2. /\ fp[h] = Closed /\ i_data_map[f] = << >>
      /\ fp' = [fp EXCEPT ![h] = dentry_open_file(f, m, 0, 1)]
      /\ info_next_clu' = info_next_clu
  BY DEF create_dentry, Present
<1>3. Types
  BY DEF TableInv
<1>4. s \in [1 .. 1 -> Clusters] /\ fat[s[1]] = FREE /\ s[1] \in Clusters
  BY <1>1 DEF find_free_clu
<1>5. s \in Seq(Clusters) /\ Len(s) = 1 /\ s # << >> /\ R(s) = {s[1]}
  <2>1. /\ s \in Seq(Clusters) /\ Len(s) = 1
        /\ \A c : c \in R(s) <=> \E i \in 1 .. 1 : s[i] = c
    BY <1>4, FunctionIsMap
  <2>2. \A i : i \in 1 .. 1 <=> i = 1
    OBVIOUS
  <2>3. R(s) = {s[1]}
    BY <2>1, <2>2
  <2> QED
    BY <2>1, <2>3
<1>6. END # FREE /\ END \notin Clusters
  BY Fat32Assumption
<1> DEFINE r == dentry_open_file(f, m, 0, 1)
<1>7. r \in HandleRec /\ r.file = f
  BY OpenedType
<1> HIDE DEF r
<1>8. Types'
  <2>1. fat' \in Fats
    BY <1>1, <1>3, <1>4 DEF Types, Fats
  <2>2. i_data_map' \in [Files -> Seq(Clusters)] /\ i_size' \in [Files -> Int]
    BY <1>1, <1>3, <1>5 DEF Types
  <2>3. entry' \in [Files -> EntryRec \cup {Absent}]
    BY <1>1, <1>3, <1>4 DEF Types, EntryRec
  <2>4. fp' \in [Handles -> HandleRec \cup {Closed, Deleted}]
    BY <1>2, <1>3, <1>7 DEF Types, r
  <2> QED
    BY <2>1, <2>2, <2>3, <2>4, <1>2, <1>3 DEF Types
<1>9. EntriesOK(entry', i_data_map')
  <2>1. entry'[f] = [first |-> s[1], size |-> 0] /\ i_data_map'[f] = s
    BY <1>1, <1>3 DEF Types
  <2>2. \A e \in Files \ {f} : entry'[e] = entry[e] /\ i_data_map'[e] = i_data_map[e]
    BY <1>1, <1>3 DEF Types
  <2>3. entry'[f] \in EntryRec /\ entry'[f].first = s[1]
    BY <2>1, <1>4 DEF EntryRec
  <2> QED
    BY <2>1, <2>2, <2>3, <1>5 DEF TableInv, EntriesOK
<1>10. OpenOK(fp', i_data_map')
  <2>1. \A k \in Handles : fp[k] \notin {Closed, Deleted} => fp[k].file # f
    BY <1>2 DEF TableInv, OpenOK
  <2>2. OpenOK(fp, [i_data_map EXCEPT ![f] = s])
    BY <1>3, <1>5, MapChanges DEF TableInv, Types
  <2>3. [i_data_map EXCEPT ![f] = s][r.file] # << >>
    BY <1>3, <1>5, <1>7 DEF Types
  <2>4. OpenOK([fp EXCEPT ![h] = r], [i_data_map EXCEPT ![f] = s])
    BY <2>1, <2>2, <2>3, <1>2, <1>3, <1>7, HandleOpens DEF Types
  <2> QED
    BY <2>4, <1>1, <1>2 DEF r
<1>11. OwnedOK(fat', i_data_map')
  <2> DEFINE F2 == [fat EXCEPT ![s[1]] = END]
  <2>1. F2[s[1]] = END /\ \A x \in Clusters : x # s[1] => F2[x] = fat[x]
    BY <1>3, <1>4 DEF Types, Fats
  <2> HIDE DEF F2
  <2>2. s[1] # RootClu
    BY <1>4 DEF TableInv, OwnedOK
  <2>3. FileOK(F2, s)
    BY <2>1, <2>2, <1>5, <1>6 DEF FileOK
  <2>4. \A e \in Files \ {f} : R(i_data_map[e]) \cap R(s) = {}
    BY <1>4, <1>5 DEF TableInv, OwnedOK, FileOK
  <2>5. OwnedOK(F2, [i_data_map EXCEPT ![f] = s])
    BY <2>1, <2>3, <2>4, <1>3, <1>5, ChangeOne DEF TableInv, Types
  <2> QED
    BY <2>5, <1>1 DEF F2
<1>12. HintOK(fat', info_next_clu')
  <2>1. \A x \in Clusters : fat'[x] = FREE => fat[x] = FREE
    BY <1>1, <1>3, <1>4, <1>6 DEF Types, Fats
  <2> QED
    BY <2>1, <1>2 DEF TableInv, HintOK
<1> QED
  BY <1>8, <1>9, <1>10, <1>11, <1>12 DEF TableInv

\* A handle moves, closes or opens: the table and the maps are left alone.
LEMMA TableHandles ==
  ASSUME TableInv, NEW h \in Handles, NEW r, fp' = [fp EXCEPT ![h] = r],
         r \in HandleRec \cup {Closed, Deleted},
         OpenOK([fp EXCEPT ![h] = r], i_data_map),
         UNCHANGED <<fat, info_next_clu, i_data_map>>,
         i_size' \in [Files -> Int], entry' \in [Files -> EntryRec \cup {Absent}],
         EntriesOK(entry', i_data_map)
  PROVE  TableInv'
<1>1. Types'
  <2>1. fp' \in [Handles -> HandleRec \cup {Closed, Deleted}]
    BY DEF TableInv, Types
  <2> QED
    BY <2>1 DEF TableInv, Types
<1>2. OpenOK(fp', i_data_map') /\ EntriesOK(entry', i_data_map')
  OBVIOUS
<1>3. OwnedOK(fat', i_data_map') /\ HintOK(fat', info_next_clu')
  BY DEF TableInv
<1> QED
  BY <1>1, <1>2, <1>3 DEF TableInv

LEMMA TableOpen ==
  ASSUME TableInv, NEW h \in Handles, NEW f \in Files, NEW m \in Modes, fs_open(h, f, m)
  PROVE  TableInv'
<1> DEFINE r == dentry_open_file(f, m, i_size[f], i_blocks(f))
<1>1. r \in HandleRec /\ r.file = f
  BY OpenedType DEF TableInv, Types, i_blocks
<1>2. /\ fp[h] = Closed /\ i_data_map[f] # << >> /\ fp' = [fp EXCEPT ![h] = r]
      /\ UNCHANGED <<cardVars, i_data_map, i_size>>
      /\ \A k \in Handles : fp[k] \notin {Closed, Deleted} => fp[k].file # f
  BY DEF fs_open, NotOpen, Usable, Present
<1> HIDE DEF r
<1>3. OpenOK([fp EXCEPT ![h] = r], i_data_map)
  BY <1>1, <1>2, HandleOpens DEF TableInv, Types
<1> QED
  BY <1>1, <1>2, <1>3, TableHandles DEF TableInv, Types, cardVars

\* The handle of a file in use becomes r, which is closed or of the same file.
LEMMA TableMoves ==
  ASSUME TableInv, NEW h \in Handles, NEW r, fp' = [fp EXCEPT ![h] = r],
         \/ r \in {Closed, Deleted}
         \/ Usable(h) /\ r \in HandleRec /\ r.file = fp[h].file,
         UNCHANGED <<fat, info_next_clu, i_data_map>>,
         i_size' \in [Files -> Int], entry' \in [Files -> EntryRec \cup {Absent}],
         EntriesOK(entry', i_data_map)
  PROVE  TableInv'
<1>1. OpenOK([fp EXCEPT ![h] = r], i_data_map)
  BY HandleMoves DEF TableInv, Types, Usable
<1> QED
  BY <1>1, TableHandles

LEMMA TableRead ==
  ASSUME TableInv, NEW h \in Handles, NEW n \in Lens, fs_read(h, n)
  PROVE  TableInv'
<1>1. Types /\ Usable(h) /\ n \in Int
  BY Fat32Assumption DEF TableInv, fs_read
<1>2. Moved(h, n) \in HandleRec /\ Moved(h, n).file = fp[h].file
  BY <1>1, MovedType
<1>3. fp' = [fp EXCEPT ![h] = Moved(h, n)] /\ UNCHANGED <<cardVars, i_data_map, i_size>>
  BY DEF fs_read
<1> QED
  BY <1>1, <1>2, <1>3, TableMoves DEF TableInv, Types, cardVars

\* What a seek does to the handle.
LEMMA SeekType ==
  ASSUME TableInv, NEW h \in Handles, NEW flag \in {"HEAD", "TAIL", "CUR"},
         NEW o \in Offsets, fs_seek(h, flag, o)
  PROVE  \E r \in HandleRec : /\ r.file = fp[h].file /\ r.f_dirt = fp[h].f_dirt
                              /\ fp' = [fp EXCEPT ![h] = r]
<1>1. Types /\ Usable(h) /\ o \in Int
  BY Fat32Assumption DEF TableInv, fs_seek
<1>2. fp[h] \in HandleRec /\ fp[h].f_size \in Int /\ fp[h].f_pos \in Int
  BY <1>1, UsableType
<1> DEFINE pos == SeekTo(h, flag, o)
           k == Max2(1, Blocks(pos))
           off == pos - (k - 1) * BlockSize
           r == [fp[h] EXCEPT !.f_pos = pos, !.f_cur_map = k, !.f_cur_off = off]
<1>3. pos \in Int
  BY <1>1, <1>2 DEF SeekTo
<1> HIDE DEF pos
<1>4. k \in Int
  BY <1>3, BlocksType, MaxType
<1> HIDE DEF k
<1>5. off \in Int
  BY <1>3, <1>4, Fat32Assumption
<1>6. fp' = [fp EXCEPT ![h].f_pos = pos, ![h].f_cur_map = k, ![h].f_cur_off = off]
  BY DEF fs_seek, pos, k
<1> HIDE DEF off
<1>7. fp' = [fp EXCEPT ![h] = r]
  BY <1>1, <1>6 DEF Types
<1>8. r \in HandleRec /\ r.file = fp[h].file /\ r.f_dirt = fp[h].f_dirt
  BY <1>2, <1>3, <1>4, <1>5 DEF HandleRec
<1> HIDE DEF r
<1> QED
  BY <1>7, <1>8

LEMMA TableSeek ==
  ASSUME TableInv, NEW h \in Handles, NEW flag \in {"HEAD", "TAIL", "CUR"},
         NEW o \in Offsets, fs_seek(h, flag, o)
  PROVE  TableInv'
<1>1. Usable(h) /\ UNCHANGED <<cardVars, i_data_map, i_size>>
  BY DEF fs_seek
<1>2. PICK r \in HandleRec : r.file = fp[h].file /\ fp' = [fp EXCEPT ![h] = r]
  BY SeekType
<1> QED
  BY <1>1, <1>2, TableMoves DEF TableInv, Types, cardVars

LEMMA TableClose ==
  ASSUME TableInv, NEW h \in Handles, fs_close(h)
  PROVE  TableInv'
<1>1. /\ Usable(h) /\ Types /\ fp' = [fp EXCEPT ![h] = Closed]
      /\ UNCHANGED <<fat, info_next_clu, i_data_map, i_size>>
  BY DEF fs_close, TableInv
<1> DEFINE f == fp[h].file
<1>2. f \in Files /\ i_data_map[f] # << >>
  BY <1>1, UsableType DEF TableInv, OpenOK, Usable
<1> HIDE DEF f
<1>3. entry[f] \in EntryRec /\ i_size[f] \in Int
  BY <1>1, <1>2 DEF TableInv, EntriesOK, Types
<1> DEFINE E == [entry EXCEPT ![f].size = i_size[f]]
<1>4. E[f] \in EntryRec /\ E[f].first = entry[f].first
      /\ \A e \in Files \ {f} : E[e] = entry[e]
  BY <1>1, <1>2, <1>3 DEF EntryRec, Types
<1>5. E \in [Files -> EntryRec \cup {Absent}]
  BY <1>1, <1>2, <1>3, <1>4 DEF Types
<1> HIDE DEF E
<1>6. EntriesOK(E, i_data_map)
  BY <1>2, <1>4 DEF TableInv, EntriesOK
<1>7. entry' = E \/ entry' = entry
  BY DEF fs_close, E, f
<1>8. entry' \in [Files -> EntryRec \cup {Absent}] /\ EntriesOK(entry', i_data_map)
  BY <1>1, <1>5, <1>6, <1>7 DEF TableInv, Types
<1> QED
  BY <1>1, <1>8, TableMoves DEF Types

LEMMA TableCloseDeleted ==
  ASSUME TableInv, NEW h \in Handles, fs_close_deleted(h)
  PROVE  TableInv'
<1>1. fp' = [fp EXCEPT ![h] = Closed] /\ UNCHANGED <<cardVars, i_data_map, i_size>>
  BY DEF fs_close_deleted
<1> QED
  BY <1>1, TableMoves DEF TableInv, Types, cardVars

\* What Put does to the sizes and the handle.
LEMMA PutType ==
  ASSUME Types, NEW h \in Handles, Usable(h), NEW n \in Int, NEW m, NEW b, Put(h, m, n, b)
  PROVE  /\ i_size' \in [Files -> Int]
         /\ i_data_map' = [i_data_map EXCEPT ![fp[h].file] = m]
         /\ \E r \in HandleRec : /\ r.file = fp[h].file /\ r.f_dirt = TRUE
                                 /\ fp' = [fp EXCEPT ![h] = r]
<1>1. /\ fp[h].file \in Files /\ fp[h].f_size \in Int /\ fp[h].f_pos \in Int
  BY UsableType
<1>2. Moved(h, n) \in HandleRec /\ Moved(h, n).file = fp[h].file
  BY MovedType
<1> DEFINE size == Max2(fp[h].f_size, fp[h].f_pos + n)
           r == [Moved(h, n) EXCEPT !.f_size = size, !.f_dirt = TRUE]
<1>3. size \in Int
  <2>1. fp[h].f_pos + n \in Int
    BY <1>1
  <2> QED
    BY <1>1, <2>1, MaxType
<1>4. /\ i_size' = [i_size EXCEPT ![fp[h].file] = IF size > fp[h].f_size THEN size ELSE @]
      /\ i_data_map' = [i_data_map EXCEPT ![fp[h].file] = m]
      /\ fp' = [fp EXCEPT ![h] = r]
  BY DEF Put
<1> HIDE DEF size
<1>5. r \in HandleRec /\ r.file = fp[h].file /\ r.f_dirt = TRUE
  BY <1>2, <1>3 DEF HandleRec
<1> HIDE DEF r
<1>6. i_size' \in [Files -> Int]
  BY <1>1, <1>3, <1>4 DEF Types
<1> QED
  BY <1>4, <1>5, <1>6

LEMMA TableWrite ==
  ASSUME TableInv, NEW h \in Handles, NEW n \in Lens, NEW b, fs_write(h, n, b)
  PROVE  TableInv'
<1>1. Types /\ Usable(h) /\ n \in Int
  BY Fat32Assumption DEF TableInv, fs_write
<1>2. Put(h, i_data_map[fp[h].file], n, b) /\ UNCHANGED cardVars
  BY DEF fs_write
<1>3. PICK r \in HandleRec : r.file = fp[h].file /\ fp' = [fp EXCEPT ![h] = r]
  BY <1>1, <1>2, PutType
<1>4. i_size' \in [Files -> Int] /\ i_data_map' = i_data_map
  <2> DEFINE f == fp[h].file
  <2>1. f \in Files
    BY <1>1, UsableType
  <2>2. i_size' \in [Files -> Int] /\ i_data_map' = [i_data_map EXCEPT ![f] = i_data_map[f]]
    BY <1>1, <1>2, PutType
  <2> HIDE DEF f
  <2> QED
    BY <1>1, <2>1, <2>2 DEF Types
<1> QED
  BY <1>1, <1>2, <1>3, <1>4, TableMoves DEF TableInv, Types, cardVars

LEMMA TableExpands ==
  ASSUME TableInv, NEW h \in Handles, NEW n \in Lens, NEW b, fs_write_expands(h, n, b)
  PROVE  TableInv'
<1>1. Types /\ Usable(h) /\ n \in Int
  BY Fat32Assumption DEF TableInv, fs_write_expands
<1> DEFINE f == fp[h].file
           m == i_data_map[f]
           blks == expand_blks(f, fp[h].f_pos + n)
<1>2. f \in Files /\ fp[h].f_pos + n \in Int
  BY <1>1, UsableType
<1>3. PICK s \in find_free_clu(blks) :
        /\ fat' = LinkedAt(m[1], s)
        /\ info_next_clu' = s[blks] + 1
        /\ Put(h, m \o s, n, b)
  BY DEF fs_write_expands, last_clu_idx
<1>4. blks > 0 /\ UNCHANGED <<entry, card>>
  BY DEF fs_write_expands
<1>5. blks \in Int
  BY <1>1, <1>2, ExpandType
<1> HIDE DEF blks
<1>6. blks \in Nat
  BY <1>4, <1>5
<1>7. m \in Seq(Clusters) /\ m # << >>
  BY <1>1, <1>2 DEF TableInv, Types, OpenOK, Usable
<1>8. /\ s \in [1 .. blks -> Clusters]
      /\ \A i \in 1 .. blks : fat[s[i]] = FREE
      /\ \A c \in Clusters :
           fat[c] = FREE /\ c >= info_next_clu /\ (\E i \in 1 .. blks : c <= s[i])
             => \E i \in 1 .. blks : s[i] = c
  BY <1>3 DEF find_free_clu
<1>9. /\ s \in Seq(Clusters) /\ R(s) \subseteq Clusters
      /\ \A c : c \in R(s) <=> \E i \in 1 .. blks : s[i] = c
  BY <1>6, <1>8, FunctionIsMap
<1>10. FileOK(fat, m) /\ fat \in Fats /\ fat[RootClu] # FREE
  BY <1>2 DEF TableInv, OwnedOK, Types
<1> DEFINE F2 == LinkedAt(m[1], s)
           m2 == m \o s
           M2 == [i_data_map EXCEPT ![f] = m2]
<1>11. /\ F2 \in Fats /\ FileOK(F2, m2)
       /\ \A x \in Clusters : x \notin R(m2) => F2[x] = fat[x]
       /\ \A x \in Clusters : F2[x] = FREE => fat[x] = FREE /\ \A i \in 1 .. blks : s[i] # x
  BY <1>4, <1>6, <1>7, <1>8, <1>10, Linked
<1>12. m2 \in Seq(Clusters) /\ R(m2) = R(m) \cup R(s) /\ m2[1] = m[1] /\ m2 # << >>
  BY <1>7, <1>9, ConcatenatedMaps
<1>13. /\ i_size' \in [Files -> Int] /\ i_data_map' = M2
       /\ \E r \in HandleRec : r.file = f /\ fp' = [fp EXCEPT ![h] = r]
  BY <1>1, <1>3, PutType
<1>14. PICK r \in HandleRec : r.file = f /\ fp' = [fp EXCEPT ![h] = r]
  BY <1>13
<1>15. fat' = F2
  BY <1>3
<1> m = i_data_map[f]
  OBVIOUS
<1> HIDE DEF F2, m2, f, m
<1>16. M2[f] = m2 /\ \A e \in Files \ {f} : M2[e] = i_data_map[e]
  BY <1>1, <1>2 DEF Types
<1>17. Types'
  <2>1. i_data_map' \in [Files -> Seq(Clusters)]
    BY <1>1, <1>12, <1>13 DEF Types
  <2>2. info_next_clu' \in Int
    <3>1. s[blks] \in Clusters
      BY <1>4, <1>6, <1>8
    <3>2. s[blks] + 1 \in Int
      BY <3>1, ClusterType
    <3> QED
      BY <3>2, <1>3
  <2>3. fp' \in [Handles -> HandleRec \cup {Closed, Deleted}]
    BY <1>1, <1>14 DEF Types
  <2> QED
    BY <1>1, <1>4, <1>11, <1>13, <1>15, <2>1, <2>2, <2>3 DEF Types
<1>18. EntriesOK(entry', i_data_map')
  BY <1>4, <1>7, <1>12, <1>13, <1>16 DEF TableInv, EntriesOK
<1>19. OpenOK(fp', i_data_map')
  <2>1. OpenOK(fp, M2)
    BY <1>1, <1>2, <1>12, MapChanges DEF TableInv, Types
  <2>2. OpenOK([fp EXCEPT ![h] = r], M2)
    BY <1>1, <1>14, <2>1, HandleMoves DEF Types, Usable, f
  <2> QED
    BY <2>2, <1>13, <1>14
<1>20. OwnedOK(fat', i_data_map')
  <2>1. \A e \in Files \ {f} : R(i_data_map[e]) \cap R(m) = {}
    BY <1>2 DEF TableInv, OwnedOK
  <2>2. \A e \in Files \ {f} : R(i_data_map[e]) \cap R(s) = {}
    BY <1>8, <1>9 DEF TableInv, OwnedOK, FileOK
  <2>3. \A e \in Files \ {f} : R(i_data_map[e]) \cap R(m2) = {}
    BY <2>1, <2>2, <1>12
  <2>4. OwnedOK(F2, M2)
    BY <2>3, <1>1, <1>2, <1>11, <1>12, ChangeOne DEF TableInv, Types
  <2> QED
    BY <2>4, <1>13, <1>15
<1>21. HintOK(F2, s[blks] + 1)
  <2> SUFFICES ASSUME NEW c \in Clusters, F2[c] = FREE
               PROVE  c >= s[blks] + 1
    BY DEF HintOK
  <2>1. fat[c] = FREE /\ \A i \in 1 .. blks : s[i] # c
    BY <1>11
  <2>2. c >= info_next_clu
    BY <2>1 DEF TableInv, HintOK
  <2>3. ~ (c <= s[blks])
    BY <1>4, <1>6, <1>8, <2>1, <2>2
  <2>4. s[blks] \in Clusters
    BY <1>4, <1>6, <1>8
  <2>5. c \in Nat /\ s[blks] \in Nat
    BY <2>4, ClusterType
  <2> QED
    BY <2>3, <2>5
<1>22. HintOK(fat', info_next_clu')
  BY <1>3, <1>15, <1>21
<1> QED
  BY <1>17, <1>18, <1>19, <1>20, <1>22 DEF TableInv

\* Clusters of S become free and the hint follows them.
LEMMA HintFollows ==
  ASSUME TableInv, NEW S, S \subseteq Clusters, NEW F2, NEW n \in update_next_clu(S),
         \A x \in Clusters : F2[x] = FREE => fat[x] = FREE \/ x \in S
  PROVE  HintOK(F2, n) /\ n \in Int
<1>1. info_next_clu \in Int /\ S \subseteq Int
  BY Fat32Assumption DEF TableInv, Types
<1>2. n \in S \cup {info_next_clu} /\ n <= info_next_clu /\ \A d \in S : n <= d
  BY DEF update_next_clu
<1>3. n \in Int
  BY <1>1, <1>2
<1> SUFFICES ASSUME NEW c \in Clusters, F2[c] = FREE
             PROVE  c >= n
  BY <1>3 DEF HintOK
<1>4. c \in Int
  BY Fat32Assumption
<1>5. CASE c \in S
  BY <1>2, <1>3, <1>4, <1>5
<1>6. CASE fat[c] = FREE
  <2>1. c >= info_next_clu
    BY <1>6 DEF TableInv, HintOK
  <2> QED
    BY <2>1, <1>1, <1>2, <1>3, <1>4
<1> QED
  BY <1>5, <1>6

LEMMA TableClear ==
  ASSUME TableInv, NEW h \in Handles, NEW f \in Files, clear(h, f)
  PROVE  TableInv'
<1> DEFINE m == i_data_map[f]
           c == m[1]
           m2 == <<c>>
           M2 == [i_data_map EXCEPT ![f] = m2]
           F2 == Cut(f)
           r == dentry_open_file(f, "WRITE", 0, 1)
<1>1. /\ fp[h] = Closed /\ m # << >> /\ fat' = F2
      /\ info_next_clu' \in update_next_clu(Reach(c) \ {c})
      /\ entry' = [entry EXCEPT ![f].size = 0]
      /\ i_data_map' = M2
      /\ i_size' = [i_size EXCEPT ![f] = 0]
      /\ fp' = [fp EXCEPT ![h] = r]
      /\ \A k \in Handles : fp[k] \notin {Closed, Deleted} => fp[k].file # f
  BY DEF clear, Present, NotOpen, Usable
<1>2. Types /\ m \in Seq(Clusters) /\ FileOK(fat, m)
  BY DEF TableInv, Types, OwnedOK
<1>3. Reach(c) \subseteq R(m) /\ c \in R(m) /\ c \in Clusters /\ R(m) \subseteq Clusters
  BY <1>1, <1>2, WalkStays, MapType
<1>4. m2 \in Seq(Clusters) /\ R(m2) = {c} /\ m2 # << >> /\ m2[1] = c
  <2>1. m2 \in Seq(Clusters) /\ Len(m2) = 1 /\ m2[1] = c /\ m2 # << >>
    BY <1>3
  <2>2. \A i : i \in 1 .. 1 <=> i = 1
    OBVIOUS
  <2> HIDE DEF m2
  <2>3. R(m2) = {c}
    BY <2>1, <2>2 DEF R
  <2> QED
    BY <2>1, <2>3
<1>5. /\ F2[c] = END
      /\ \A x \in Clusters : x \notin R(m) => F2[x] = fat[x]
      /\ \A x \in Clusters : F2[x] = FREE => fat[x] = FREE \/ x \in Reach(c) \ {c}
      /\ F2 \in Fats
  BY <1>2, <1>3, Fat32Assumption DEF Cut, Types, Fats
<1>6. r \in HandleRec /\ r.file = f
  BY OpenedType
<1>7. entry[f] \in EntryRec /\ entry[f].first = c
  BY <1>1 DEF TableInv, EntriesOK
<1>8. /\ entry'[f] \in EntryRec /\ entry'[f].first = c
      /\ \A e \in Files \ {f} : entry'[e] = entry[e]
  BY <1>1, <1>2, <1>7 DEF EntryRec, Types
<1> HIDE DEF m2, F2, r
<1>9. M2[f] = m2 /\ \A e \in Files \ {f} : M2[e] = i_data_map[e]
  BY <1>2 DEF Types
<1>10. \A n : n = info_next_clu' => HintOK(F2, n) /\ n \in Int
  BY <1>1, <1>3, <1>5, HintFollows
<1>11. Types'
  <2>1. entry' \in [Files -> EntryRec \cup {Absent}]
    BY <1>1, <1>2, <1>7, <1>8 DEF Types
  <2>2. i_data_map' \in [Files -> Seq(Clusters)] /\ i_size' \in [Files -> Int]
    BY <1>1, <1>2, <1>4 DEF Types
  <2>3. fp' \in [Handles -> HandleRec \cup {Closed, Deleted}]
    BY <1>1, <1>2, <1>6 DEF Types
  <2> QED
    BY <2>1, <2>2, <2>3, <1>1, <1>5, <1>10 DEF Types
<1>12. EntriesOK(entry', i_data_map')
  BY <1>1, <1>4, <1>8, <1>9 DEF TableInv, EntriesOK
<1>13. OpenOK(fp', i_data_map')
  <2>1. OpenOK(fp, M2)
    BY <1>1, <1>2, <1>4, MapChanges DEF TableInv, Types
  <2>2. OpenOK([fp EXCEPT ![h] = r], M2)
    BY <2>1, <1>1, <1>2, <1>4, <1>6, <1>9, HandleOpens DEF Types
  <2> QED
    BY <2>2, <1>1
<1>14. OwnedOK(fat', i_data_map')
  <2>1. FileOK(F2, m2)
    BY <1>2, <1>3, <1>4, <1>5, Fat32Assumption DEF FileOK
  <2>2. \A e \in Files \ {f} : R(i_data_map[e]) \cap R(m2) = {}
    BY <1>3, <1>4 DEF TableInv, OwnedOK
  <2>3. OwnedOK(F2, M2)
    BY <2>1, <2>2, <1>2, <1>4, <1>5, ChangeOne DEF TableInv, Types
  <2> QED
    BY <2>3, <1>1
<1> QED
  BY <1>1, <1>10, <1>11, <1>12, <1>13, <1>14 DEF TableInv

LEMMA TableDelete ==
  ASSUME TableInv, NEW h \in Handles, fs_delete(h)
  PROVE  TableInv'
<1> DEFINE f == fp[h].file
           m == i_data_map[f]
           c == m[1]
           M2 == [i_data_map EXCEPT ![f] = << >>]
           F2 == [x \in Clusters |-> IF x \in Reach(c) THEN FREE ELSE fat[x]]
<1>1. /\ Usable(h) /\ fat' = F2
      /\ info_next_clu' \in update_next_clu(Reach(c))
      /\ entry' = [entry EXCEPT ![f] = Absent]
      /\ i_data_map' = M2
      /\ i_size' = [i_size EXCEPT ![f] = 0]
      /\ fp' = [fp EXCEPT ![h] = Deleted]
  BY DEF fs_delete
<1>2. Types /\ f \in Files
  BY <1>1, UsableType DEF TableInv
<1>3. m \in Seq(Clusters) /\ FileOK(fat, m) /\ m # << >>
  BY <1>1, <1>2 DEF TableInv, Types, OwnedOK, OpenOK, Usable
<1>4. Reach(c) \subseteq R(m) /\ R(m) \subseteq Clusters
  BY <1>3, WalkStays, MapType
<1>5. /\ \A x \in Clusters : x \notin R(m) => F2[x] = fat[x]
      /\ \A x \in Clusters : F2[x] = FREE => fat[x] = FREE \/ x \in Reach(c)
      /\ F2 \in Fats
  BY <1>2, <1>4 DEF Types, Fats
<1>6. << >> \in Seq(Clusters) /\ R(<< >>) = {}
  BY EmptyMap
<1>7. \A k \in Handles : k # h /\ fp[k] \notin {Closed, Deleted} => fp[k].file # f
  BY <1>1 DEF TableInv, OpenOK, Usable
<1> m = i_data_map[f]
  OBVIOUS
<1> HIDE DEF F2, f, m
<1>8. M2[f] = << >> /\ \A e \in Files \ {f} : M2[e] = i_data_map[e]
  BY <1>2 DEF Types
<1>9. \A n : n = info_next_clu' => HintOK(F2, n) /\ n \in Int
  BY <1>1, <1>4, <1>5, HintFollows
<1>10. Types'
  <2>1. entry' \in [Files -> EntryRec \cup {Absent}]
    BY <1>1, <1>2 DEF Types
  <2>2. i_data_map' \in [Files -> Seq(Clusters)] /\ i_size' \in [Files -> Int]
    BY <1>1, <1>2, <1>6 DEF Types
  <2>3. fp' \in [Handles -> HandleRec \cup {Closed, Deleted}]
    BY <1>1, <1>2 DEF Types
  <2> QED
    BY <2>1, <2>2, <2>3, <1>1, <1>5, <1>9 DEF Types
<1>11. EntriesOK(entry', i_data_map')
  <2>1. entry'[f] = Absent /\ \A e \in Files \ {f} : entry'[e] = entry[e]
    BY <1>1, <1>2 DEF Types
  <2> QED
    BY <2>1, <1>1, <1>8 DEF TableInv, EntriesOK
<1>12. OpenOK(fp', i_data_map')
  <2> DEFINE P2 == [fp EXCEPT ![h] = Deleted]
  <2>1. OpenOK(P2, i_data_map)
    BY <1>2, HandleMoves DEF TableInv, Types
  <2>2. P2[h] = Deleted /\ (\A k \in Handles \ {h} : P2[k] = fp[k])
        /\ P2 \in [Handles -> HandleRec \cup {Closed, Deleted}]
    BY <1>2 DEF Types
  <2> HIDE DEF P2
  <2>3. \A k \in Handles : P2[k] \notin {Closed, Deleted} => P2[k].file # f
    BY <2>2, <1>7
  <2>4. OpenOK(P2, M2)
    BY <2>1, <2>2, <2>3, <1>2, MapChanges DEF Types
  <2> QED
    BY <2>4, <1>1 DEF P2
<1>13. OwnedOK(fat', i_data_map')
  <2>1. FileOK(F2, << >>)
    BY <1>6 DEF FileOK
  <2>2. OwnedOK(F2, M2)
    BY <2>1, <1>2, <1>5, <1>6, ChangeOne DEF TableInv, Types
  <2> QED
    BY <2>2, <1>1
<1> QED
  BY <1>1, <1>9, <1>10, <1>11, <1>12, <1>13 DEF TableInv

\* The chain of a file, read back from the card, is a map that agrees with the
\* table and takes no cluster the old map did not have.
LEMMA ChainOK ==
  ASSUME NEW m \in Seq(Clusters), m # << >>, FileOK(fat, m), NEW s \in Chain(m[1])
  PROVE  /\ s \in Seq(Clusters) /\ s # << >> /\ s[1] = m[1]
         /\ R(s) \subseteq R(m) /\ FileOK(fat, s)
<1> DEFINE c == m[1]
<1>1. Reach(c) \subseteq R(m) /\ R(m) \subseteq Clusters
  BY WalkStays, MapType
<1>2. IsFiniteSet(Reach(c))
  BY <1>1, FS_Subset, Fat32Assumption
<1>3. Cardinality(Reach(c)) \in Nat
  BY <1>2, FS_CardinalityType
<1> HIDE DEF c
<1>4. PICK n \in 1 .. Cardinality(Reach(c)) :
        /\ s \in [1 .. n -> Reach(c)]
        /\ s[1] = c /\ fat[s[n]] = END
        /\ \A i \in 1 .. n - 1 : s[i + 1] = fat[s[i]]
  BY DEF Chain, c
<1>5. n \in Nat /\ n > 0
  BY <1>3
<1>6. s \in [1 .. n -> Clusters]
  BY <1>1, <1>4
<1>7. /\ s \in Seq(Clusters) /\ Len(s) = n
      /\ \A d : d \in R(s) <=> \E i \in 1 .. n : s[i] = d
  BY <1>5, <1>6, FunctionIsMap
<1>8. R(s) \subseteq Reach(c)
  BY <1>4, <1>7
<1>9. s # << >>
  BY <1>5, <1>7
<1>10. ASSUME NEW d \in R(s) PROVE fat[d] \in Clusters => fat[d] \in R(s)
  <2>1. PICK i \in 1 .. n : s[i] = d
    BY <1>7
  <2>2. CASE i = n
    BY <2>1, <2>2, <1>4, Fat32Assumption
  <2>3. CASE i # n
    <3>1. i \in 1 .. n - 1 /\ i + 1 \in 1 .. n
      BY <2>3, <1>5
    <3>2. s[i + 1] = fat[d]
      BY <3>1, <2>1, <1>4
    <3> QED
      BY <3>1, <3>2, <1>7
  <2> QED
    BY <2>2, <2>3
<1>11. FileOK(fat, s)
  BY <1>1, <1>8, <1>10 DEF FileOK
<1> QED
  BY <1>1, <1>4, <1>7, <1>8, <1>9, <1>11 DEF c

LEMMA TablePowerCycle ==
  ASSUME TableInv, power_cycle
  PROVE  TableInv'
<1>1. /\ \A h \in Handles : fp[h] = Closed
      /\ \E S : i_data_map' \in [Files -> S]
      /\ \A f \in Files : i_data_map'[f] \in
           (IF entry[f] = Absent THEN {<< >>} ELSE Chain(entry[f].first))
      /\ i_size' = [f \in Files |-> IF entry[f] = Absent THEN 0 ELSE entry[f].size]
      /\ UNCHANGED <<cardVars, fp>>
  BY DEF power_cycle
<1>2. Types
  BY DEF TableInv
<1>3. ASSUME NEW f \in Files
      PROVE  /\ i_data_map'[f] \in Seq(Clusters)
             /\ R(i_data_map'[f]) \subseteq R(i_data_map[f])
             /\ FileOK(fat, i_data_map'[f])
             /\ i_data_map'[f] = << >> => entry[f] = Absent
             /\ i_data_map'[f] # << >> =>
                  entry[f] \in EntryRec /\ entry[f].first = i_data_map'[f][1]
  <2> DEFINE m2 == i_data_map'[f]
  <2>1. CASE entry[f] = Absent
    <3>1. m2 = << >>
      BY <2>1, <1>1
    <3>2. R(<< >>) = {} /\ << >> \in Seq(Clusters)
      BY EmptyMap
    <3> QED
      BY <2>1, <3>1, <3>2 DEF FileOK
  <2>2. CASE entry[f] # Absent
    <3>1. i_data_map[f] # << >> /\ entry[f] \in EntryRec /\ entry[f].first = i_data_map[f][1]
      BY <2>2 DEF TableInv, EntriesOK
    <3>2. i_data_map[f] \in Seq(Clusters) /\ FileOK(fat, i_data_map[f])
      BY <1>2 DEF TableInv, Types, OwnedOK
    <3>3. m2 \in Chain(i_data_map[f][1])
      BY <2>2, <3>1, <1>1
    <3> HIDE DEF m2
    <3>4. /\ m2 \in Seq(Clusters) /\ m2 # << >> /\ m2[1] = i_data_map[f][1]
          /\ R(m2) \subseteq R(i_data_map[f]) /\ FileOK(fat, m2)
      BY <3>1, <3>2, <3>3, ChainOK
    <3> QED
      BY <3>1, <3>4 DEF m2
  <2> QED
    BY <2>1, <2>2
<1>4. ASSUME NEW f \in Files
      PROVE  (IF entry[f] = Absent THEN 0 ELSE entry[f].size) \in Int
  BY <1>2 DEF Types, EntryRec
<1>5. Types'
  <2>1. i_data_map' \in [Files -> Seq(Clusters)]
    BY <1>1, <1>3
  <2>2. i_size' \in [Files -> Int]
    BY <1>1, <1>4
  <2> QED
    BY <2>1, <2>2, <1>1, <1>2 DEF Types, cardVars
<1>6. EntriesOK(entry', i_data_map')
  BY <1>1, <1>3 DEF EntriesOK, cardVars
<1>7. OpenOK(fp', i_data_map')
  BY <1>1 DEF OpenOK
<1>8. OwnedOK(fat', i_data_map')
  <2>1. \A f, e \in Files : f # e => R(i_data_map'[f]) \cap R(i_data_map'[e]) = {}
    BY <1>3 DEF TableInv, OwnedOK
  <2> QED
    BY <2>1, <1>1, <1>3 DEF TableInv, OwnedOK, cardVars
<1>9. HintOK(fat', info_next_clu')
  BY <1>1 DEF TableInv, cardVars
<1> QED
  BY <1>5, <1>6, <1>7, <1>8, <1>9 DEF TableInv

\* The steps after which nothing is followed any more change no file.
Leaves ==
  \/ \E h \in Handles, f \in Files : fs_open_twice(h, f)
  \/ \E h \in Handles, n \in Lens : page_cache_full(h, n)
  \/ power_cycle_broken

LEMMA LeavesFiles ==
  ASSUME Leaves
  PROVE  /\ UNCHANGED <<fat, info_next_clu, entry, card, i_data_map, i_size, page, p_dirt, fp>>
         /\ buf' = << >>
  BY DEF Leaves, fs_open_twice, page_cache_full, power_cycle_broken, GoesAstray, cardVars

\* The table, the maps, the entries and the handles agree in every reachable
\* state.
THEOREM TableInvariant == Spec => []TableInv
<1>1. Init => TableInv
  BY TableInit
<1>2. TableInv /\ [Next]_vars => TableInv'
  <2> SUFFICES ASSUME TableInv, [Next]_vars PROVE TableInv'
    OBVIOUS
  <2>1. CASE UNCHANGED vars
    <3>1. UNCHANGED <<fat, info_next_clu, entry, i_data_map, i_size, fp>>
      BY <2>1 DEF vars, cardVars
    <3> QED
      BY <3>1 DEF TableInv, Types
  <2>2. ASSUME NEW h \in Handles, NEW f \in Files, NEW m \in Modes,
               create_dentry(h, f, m) \/ fs_open(h, f, m)
        PROVE  TableInv'
    BY <2>2, TableCreate, TableOpen
  <2>3. ASSUME NEW h \in Handles, NEW f \in Files, clear(h, f) PROVE TableInv'
    BY <2>3, TableClear
  <2>4. ASSUME NEW h \in Handles, NEW n \in Lens, fs_read(h, n) PROVE TableInv'
    BY <2>4, TableRead
  <2>5. ASSUME NEW h \in Handles, NEW n \in Lens, NEW b,
               fs_write(h, n, b) \/ fs_write_expands(h, n, b)
        PROVE  TableInv'
    BY <2>5, TableWrite, TableExpands
  <2>6. ASSUME NEW h \in Handles, NEW flag \in {"HEAD", "TAIL", "CUR"},
               NEW o \in Offsets, fs_seek(h, flag, o)
        PROVE  TableInv'
    BY <2>6, TableSeek
  <2>7. ASSUME NEW h \in Handles, fs_delete(h) \/ fs_close(h) \/ fs_close_deleted(h)
        PROVE  TableInv'
    BY <2>7, TableDelete, TableClose, TableCloseDeleted
  <2>8. CASE power_cycle
    BY <2>8, TablePowerCycle
  <2>9. CASE Leaves
    BY <2>9, LeavesFiles DEF TableInv, Types
  <2> QED
    BY <2>1, <2>2, <2>3, <2>4, <2>5, <2>6, <2>7, <2>8, <2>9 DEF Next, Leaves
<1> QED
  BY <1>1, <1>2, PTL DEF Spec

\* find_free_clu, which only searches upwards, never loses a free cluster.
THEOREM HintIsSound == Spec => []NoFreeBelowHint
<1>1. TableInv => NoFreeBelowHint
  BY DEF TableInv, HintOK, NoFreeBelowHint
<1> QED
  BY <1>1, TableInvariant, PTL

\* No cluster belongs to two files, in memory or along the table on the card,
\* and no cluster in use is free: expand_fat32, clear_fat32 and delete_fat32
\* never give away or free a cluster of another file.
THEOREM ClustersHaveOneOwner == Spec => []ClustersOwnedOnce
<1>1. TableInv => ClustersOwnedOnce
  <2> SUFFICES ASSUME TableInv, NEW f \in Files, Present(f)
               PROVE  /\ entry[f].first = i_data_map[f][1]
                      /\ Reach(entry[f].first) \subseteq Mapped(f)
                      /\ RootClu \notin Mapped(f)
                      /\ \A c \in Mapped(f) : fat[c] # FREE
                      /\ \A e \in Files \ {f} : Mapped(e) \cap Mapped(f) = {}
    BY DEF ClustersOwnedOnce
  <2>1. \A e \in Files : Mapped(e) = R(i_data_map[e])
    BY DEF Mapped, R, i_blocks
  <2>2. entry[f].first = i_data_map[f][1]
    BY DEF TableInv, EntriesOK, Present
  <2>3. i_data_map[f] \in Seq(Clusters) /\ i_data_map[f] # << >> /\ FileOK(fat, i_data_map[f])
    BY DEF TableInv, Types, OwnedOK, Present
  <2>4. Reach(entry[f].first) \subseteq Mapped(f)
    BY <2>1, <2>2, <2>3, WalkStays
  <2>5. RootClu \notin Mapped(f) /\ \A c \in Mapped(f) : fat[c] # FREE
    BY <2>1, <2>3 DEF FileOK
  <2>6. \A e \in Files \ {f} : Mapped(e) \cap Mapped(f) = {}
    BY <2>1 DEF TableInv, OwnedOK
  <2> QED
    BY <2>2, <2>4, <2>5, <2>6
<1> QED
  BY <1>1, TableInvariant, PTL

-----------------------------------------------------------------------------
(* Pages and sizes: what a file that nobody has open has on the card.      *)

Dirty == {c \in Clusters : p_dirt[c]}

\* A page that is not in D is the contents of its cluster.
CleanOK(D, P, C) == \A c \in Clusters : c \in D \/ P[c] = NoPage \/ P[c] = C[c]

\* A handle of P that has written to file f.
HeldDirty(P, f) ==
  \E h \in Handles : /\ P[h] \notin {Closed, Deleted}
                     /\ P[h].file = f /\ P[h].f_dirt = TRUE

\* A file has a stale entry or dirty pages only while a handle that wrote to
\* it is open.
DirtOK(E, Z, M, D, P) ==
  \A f \in Files : M[f] # << >> /\ ~HeldDirty(P, f) =>
    E[f].size = Z[f] /\ R(M[f]) \cap D = {}

PageInv ==
  /\ page = [c \in Clusters |-> page[c]]
  /\ p_dirt = [c \in Clusters |-> p_dirt[c]]
  /\ CleanOK(Dirty, page, card)
  /\ DirtOK(entry, i_size, i_data_map, Dirty, fp)

\* A handle changes: a file whose writer is another handle still has it, and
\* so has one whose writer stays a writer.
LEMMA HolderStays ==
  ASSUME NEW P \in [Handles -> HandleRec \cup {Closed, Deleted}], NEW h \in Handles,
         NEW r, NEW f, HeldDirty(P, f),
         \/ P[h] \in {Closed, Deleted} \/ P[h].file # f
         \/ r \notin {Closed, Deleted} /\ r.file = f /\ r.f_dirt = P[h].f_dirt
  PROVE  HeldDirty([P EXCEPT ![h] = r], f)
<1> DEFINE Q == [P EXCEPT ![h] = r]
<1>1. Q[h] = r /\ \A k \in Handles \ {h} : Q[k] = P[k]
  OBVIOUS
<1> HIDE DEF Q
<1>2. HeldDirty(Q, f)
  BY <1>1 DEF HeldDirty
<1> QED
  BY <1>2 DEF Q

LEMMA PageInit == Init => PageInv
<1> SUFFICES ASSUME Init PROVE PageInv
  OBVIOUS
<1>1. page = [c \in Clusters |-> page[c]] /\ p_dirt = [c \in Clusters |-> p_dirt[c]]
  BY DEF Init
<1>2. CleanOK(Dirty, page, card)
  BY DEF Init, CleanOK
<1>3. DirtOK(entry, i_size, i_data_map, Dirty, fp)
  BY DEF Init, DirtOK
<1> QED
  BY <1>1, <1>2, <1>3 DEF PageInv

\* A closed handle is opened: every writer stays.
LEMMA OpenKeepsHolders ==
  ASSUME Types, NEW h \in Handles, fp[h] \in {Closed, Deleted}, NEW r,
         fp' = [fp EXCEPT ![h] = r], NEW f, HeldDirty(fp, f)
  PROVE  HeldDirty(fp', f)
<1>1. HeldDirty([fp EXCEPT ![h] = r], f)
  BY HolderStays DEF Types
<1> QED
  BY <1>1

LEMMA PageCreate ==
  ASSUME TableInv, PageInv, NEW h \in Handles, NEW f \in Files, NEW m \in Modes,
         create_dentry(h, f, m)
  PROVE  PageInv'
<1>1. PICK s \in find_free_clu(1) :
        /\ entry' = [entry EXCEPT ![f] = [first |-> s[1], size |-> 0]]
        /\ i_data_map' = [i_data_map EXCEPT ![f] = s]
        /\ i_size' = [i_size EXCEPT ![f] = 0]
        /\ page' = [page EXCEPT ![s[1]] = NoPage]
        /\ p_dirt' = [p_dirt EXCEPT ![s[1]] = FALSE]
  BY DEF create_dentry
<1>2. /\ fp[h] = Closed /\ card' = card
      /\ fp' = [fp EXCEPT ![h] = dentry_open_file(f, m, 0, 1)]
  BY DEF create_dentry
<1>3. Types
  BY DEF TableInv
<1>4. s \in [1 .. 1 -> Clusters] /\ s[1] \in Clusters
  BY <1>1 DEF find_free_clu
<1>5. R(s) = {s[1]}
  <2>1. \A c : c \in R(s) <=> \E i \in 1 .. 1 : s[i] = c
    BY <1>4, FunctionIsMap
  <2>2. \A i : i \in 1 .. 1 <=> i = 1
    OBVIOUS
  <2> QED
    BY <2>1, <2>2
<1>6. page' = [c \in Clusters |-> page'[c]] /\ p_dirt' = [c \in Clusters |-> p_dirt'[c]]
  BY <1>1 DEF PageInv
<1>7. Dirty' = Dirty \ {s[1]}
  BY <1>1, <1>4 DEF Dirty, PageInv
<1>8. page'[s[1]] = NoPage /\ \A c \in Clusters : c # s[1] => page'[c] = page[c]
  BY <1>1, <1>4 DEF PageInv
<1>9. CleanOK(Dirty', page', card')
  BY <1>2, <1>7, <1>8 DEF PageInv, CleanOK
<1>10. /\ entry'[f].size = i_size'[f] /\ R(i_data_map'[f]) \cap Dirty' = {}
  BY <1>1, <1>3, <1>5, <1>7 DEF Types
<1>11. \A e \in Files \ {f} : /\ entry'[e] = entry[e] /\ i_size'[e] = i_size[e]
                              /\ i_data_map'[e] = i_data_map[e]
  BY <1>1, <1>3 DEF Types
<1>12. \A e \in Files : HeldDirty(fp, e) => HeldDirty(fp', e)
  BY <1>2, <1>3, OpenKeepsHolders
<1>13. DirtOK(entry', i_size', i_data_map', Dirty', fp')
  BY <1>7, <1>10, <1>11, <1>12 DEF PageInv, DirtOK
<1> QED
  BY <1>6, <1>9, <1>13 DEF PageInv

LEMMA PageOpen ==
  ASSUME TableInv, PageInv, NEW h \in Handles, NEW f \in Files, NEW m \in Modes,
         fs_open(h, f, m)
  PROVE  PageInv'
<1>1. /\ fp[h] = Closed /\ UNCHANGED <<cardVars, i_data_map, i_size, page, p_dirt>>
      /\ \E r : fp' = [fp EXCEPT ![h] = r]
  BY DEF fs_open
<1>2. Types
  BY DEF TableInv
<1>3. \A e \in Files : HeldDirty(fp, e) => HeldDirty(fp', e)
  BY <1>1, <1>2, OpenKeepsHolders
<1>4. Dirty' = Dirty
  BY <1>1 DEF Dirty
<1>5. DirtOK(entry', i_size', i_data_map', Dirty', fp')
  BY <1>1, <1>3, <1>4 DEF PageInv, DirtOK, cardVars
<1> QED
  BY <1>1, <1>4, <1>5 DEF PageInv, cardVars

\* The handle moves in its file and stays a writer if it was one; pages may be
\* read, and nothing else changes.
LEMMA PageMoves ==
  ASSUME TableInv, PageInv, NEW h \in Handles, Usable(h), NEW r \in HandleRec,
         r.file = fp[h].file, r.f_dirt = fp[h].f_dirt, fp' = [fp EXCEPT ![h] = r],
         UNCHANGED <<cardVars, i_data_map, i_size, p_dirt>>,
         page' = [c \in Clusters |-> page'[c]],
         \A c \in Clusters : page'[c] = page[c] \/ page'[c] = get_fspage(c)
  PROVE  PageInv'
<1>1. Types
  BY DEF TableInv
<1>2. \A e \in Files : HeldDirty(fp, e) => HeldDirty([fp EXCEPT ![h] = r], e)
  BY <1>1, NotAHandle, HolderStays DEF Types
<1>3. Dirty' = Dirty
  BY DEF Dirty
<1>4. CleanOK(Dirty', page', card')
  BY <1>3 DEF PageInv, CleanOK, get_fspage, cardVars
<1>5. DirtOK(entry', i_size', i_data_map', Dirty', fp')
  BY <1>2, <1>3 DEF PageInv, DirtOK, cardVars
<1> QED
  BY <1>4, <1>5 DEF PageInv

LEMMA PageRead ==
  ASSUME TableInv, PageInv, NEW h \in Handles, NEW n \in Lens, fs_read(h, n)
  PROVE  PageInv'
<1>1. Types /\ Usable(h) /\ n \in Int
  BY Fat32Assumption DEF TableInv, fs_read
<1>2. Moved(h, n) \in HandleRec /\ Moved(h, n).file = fp[h].file
  BY <1>1, MovedType
<1>3. Moved(h, n).f_dirt = fp[h].f_dirt
  <2>1. fp[h] \in HandleRec
    BY <1>1, UsableType
  <2> QED
    BY <2>1 DEF Moved, HandleRec
<1>4. PICK S : page' = [c \in Clusters |-> IF c \in S THEN get_fspage(c) ELSE page[c]]
  BY DEF fs_read
<1>5. /\ page' = [c \in Clusters |-> page'[c]]
      /\ \A c \in Clusters : page'[c] = page[c] \/ page'[c] = get_fspage(c)
  BY <1>4
<1>6. /\ fp' = [fp EXCEPT ![h] = Moved(h, n)]
      /\ UNCHANGED <<cardVars, i_data_map, i_size, p_dirt>>
  BY DEF fs_read
<1> QED
  BY <1>1, <1>2, <1>3, <1>5, <1>6, PageMoves

LEMMA PageSeek ==
  ASSUME TableInv, PageInv, NEW h \in Handles, NEW flag \in {"HEAD", "TAIL", "CUR"},
         NEW o \in Offsets, fs_seek(h, flag, o)
  PROVE  PageInv'
<1>1. Usable(h) /\ UNCHANGED <<cardVars, i_data_map, i_size, page, p_dirt>>
  BY DEF fs_seek
<1>2. PICK r \in HandleRec : /\ r.file = fp[h].file /\ r.f_dirt = fp[h].f_dirt
                             /\ fp' = [fp EXCEPT ![h] = r]
  BY SeekType
<1> QED
  BY <1>1, <1>2, PageMoves DEF PageInv

\* What Put does to the pages and the handle: only clusters of the map m are
\* written, they become dirty, and the handle is a writer.
LEMMA PagePut ==
  ASSUME TableInv, PageInv, TableInv', NEW h \in Handles, Usable(h), NEW n \in Int,
         NEW m \in Seq(Clusters), NEW b, Put(h, m, n, b), UNCHANGED <<entry, card>>
  PROVE  PageInv'
<1> DEFINE f == fp[h].file
           K == fp[h].f_cur_map .. Moved(h, n).f_cur_map
           S == {c \in Clusters : \E k \in K : k \in DOMAIN m /\ m[k] = c}
<1>1. Types /\ f \in Files
  BY UsableType DEF TableInv
<1>2. S \subseteq R(m)
  BY DEF R
<1>3. /\ page' = [c \in Clusters |-> page'[c]]
      /\ \A c \in Clusters : c \notin S => page'[c] = page[c]
  BY DEF Put, Copied
<1>4. p_dirt' = [c \in Clusters |-> p_dirt[c] \/ \E k \in K : k \in DOMAIN m /\ m[k] = c]
  BY DEF Put
<1>5. Dirty' = Dirty \cup S
  BY <1>4 DEF Dirty
<1>6. p_dirt' = [c \in Clusters |-> p_dirt'[c]]
  BY <1>4
<1>7. i_size' = [i_size EXCEPT ![f] = i_size'[f]]
  BY <1>1 DEF Put, Types
<1>8. i_data_map' = [i_data_map EXCEPT ![f] = m]
  BY <1>1, PutType
<1>9. PICK r \in HandleRec : r.file = f /\ r.f_dirt = TRUE /\ fp' = [fp EXCEPT ![h] = r]
  BY <1>1, PutType
<1> HIDE DEF K, S
<1>10. CleanOK(Dirty', page', card')
  BY <1>3, <1>5 DEF PageInv, CleanOK
<1>11. HeldDirty(fp', f)
  <2>1. fp'[h] = r /\ r \notin {Closed, Deleted}
    BY <1>1, <1>9, NotAHandle DEF Types
  <2> QED
    BY <2>1, <1>9 DEF HeldDirty
<1>12. \A e \in Files \ {f} : HeldDirty(fp, e) => HeldDirty(fp', e)
  <2>1. \A e \in Files \ {f} : HeldDirty(fp, e) => HeldDirty([fp EXCEPT ![h] = r], e)
    BY <1>1, HolderStays DEF Types
  <2> QED
    BY <2>1, <1>9
<1> HIDE DEF f
<1>13. i_data_map'[f] = m /\ \A e \in Files \ {f} :
         i_data_map'[e] = i_data_map[e] /\ i_size'[e] = i_size[e]
  BY <1>1, <1>7, <1>8 DEF Types
<1>14. \A e \in Files \ {f} : R(i_data_map[e]) \cap S = {}
  <2>1. OwnedOK(fat', i_data_map')
    BY DEF TableInv
  <2>2. \A e \in Files \ {f} : R(i_data_map'[e]) \cap R(i_data_map'[f]) = {}
    BY <2>1, <1>1 DEF OwnedOK
  <2> QED
    BY <2>2, <1>2, <1>13
<1>15. DirtOK(entry', i_size', i_data_map', Dirty', fp')
  BY <1>5, <1>11, <1>12, <1>13, <1>14 DEF PageInv, DirtOK
<1> QED
  BY <1>3, <1>6, <1>10, <1>15 DEF PageInv

LEMMA PageWrite ==
  ASSUME TableInv, PageInv, TableInv', NEW h \in Handles, NEW n \in Lens, NEW b,
         fs_write(h, n, b) \/ fs_write_expands(h, n, b)
  PROVE  PageInv'
<1>1. Usable(h) /\ n \in Int /\ UNCHANGED <<entry, card>>
  BY Fat32Assumption DEF fs_write, fs_write_expands, cardVars
<1>2. PICK m : Put(h, m, n, b)
  BY DEF fs_write, fs_write_expands
<1>3. m \in Seq(Clusters)
  <2>1. Types /\ Types' /\ fp[h].file \in Files
    BY <1>1, UsableType DEF TableInv
  <2>2. i_data_map' = [i_data_map EXCEPT ![fp[h].file] = m]
    BY <1>1, <1>2, <2>1, PutType
  <2>3. i_data_map'[fp[h].file] = m
    BY <2>1, <2>2 DEF Types
  <2> QED
    BY <2>1, <2>3 DEF Types
<1> QED
  BY <1>1, <1>2, <1>3, PagePut

LEMMA PageClose ==
  ASSUME TableInv, PageInv, NEW h \in Handles, fs_close(h)
  PROVE  PageInv'
<1> DEFINE f == fp[h].file
           S == Flushed(h)
<1>1. Usable(h) /\ Types /\ f \in Files /\ fp[h].f_dirt \in BOOLEAN
      /\ fp[h] \notin {Closed, Deleted}
  <2>1. Usable(h) /\ Types
    BY DEF fs_close, TableInv
  <2> QED
    BY <2>1, UsableType DEF HandleRec, Usable
<1>2. /\ card' = [c \in Clusters |-> IF c \in S THEN page[c] ELSE card[c]]
      /\ p_dirt' = [c \in Clusters |-> p_dirt[c] /\ c \notin S]
      /\ entry' = IF fp[h].f_dirt THEN [entry EXCEPT ![f].size = i_size[f]] ELSE entry
      /\ fp' = [fp EXCEPT ![h] = Closed]
      /\ UNCHANGED <<i_data_map, i_size, page>>
  BY DEF fs_close
<1>3. fp[h].f_dirt => S = R(i_data_map[f]) \cap Dirty
  <2>1. i_data_map[f] \in Seq(Clusters)
    BY <1>1 DEF Types
  <2>2. R(i_data_map[f]) \subseteq Clusters
    BY <2>1, MapType
  <2> QED
    BY <2>2 DEF Flushed, R, Dirty, i_blocks
<1> HIDE DEF S
<1>4. Dirty' = Dirty \ S
  BY <1>2 DEF Dirty
<1>5. CleanOK(Dirty', page', card')
  BY <1>2, <1>4 DEF PageInv, CleanOK
<1>6. ASSUME NEW e \in Files, e # f, i_data_map'[e] # << >>, ~HeldDirty(fp', e)
      PROVE  entry'[e].size = i_size'[e] /\ R(i_data_map'[e]) \cap Dirty' = {}
  <2>1. ~HeldDirty(fp, e)
    <3>1. HeldDirty(fp, e) => HeldDirty([fp EXCEPT ![h] = Closed], e)
      BY <1>1, <1>6, HolderStays DEF Types
    <3> QED
      BY <3>1, <1>2, <1>6
  <2>2. entry[e].size = i_size[e] /\ R(i_data_map[e]) \cap Dirty = {}
    BY <2>1, <1>2, <1>6 DEF PageInv, DirtOK
  <2>3. entry'[e] = entry[e]
    BY <1>1, <1>2, <1>6 DEF Types
  <2> QED
    BY <2>2, <2>3, <1>2, <1>4
<1>7. entry'[f].size = i_size'[f] /\ R(i_data_map'[f]) \cap Dirty' = {}
  <2>1. i_data_map[f] # << >>
    BY <1>1 DEF TableInv, OpenOK
  <2>2. CASE fp[h].f_dirt
    <3>1. entry[f] \in EntryRec
      BY <1>1, <2>1 DEF TableInv, EntriesOK
    <3>2. entry' = [entry EXCEPT ![f].size = i_size[f]]
      BY <1>2, <2>2
    <3> HIDE DEF f
    <3>3. entry'[f] = [entry[f] EXCEPT !.size = i_size[f]]
      BY <3>2, <1>1 DEF Types
    <3>4. entry'[f].size = i_size[f]
      BY <3>1, <3>3 DEF EntryRec
    <3> QED
      BY <3>4, <2>2, <1>2, <1>3, <1>4
  <2>3. CASE ~fp[h].f_dirt
    <3>1. ~HeldDirty(fp, f)
      BY <1>1, <2>3 DEF TableInv, OpenOK, HeldDirty
    <3> QED
      BY <3>1, <2>1, <2>3, <1>1, <1>2, <1>4 DEF PageInv, DirtOK
  <2> QED
    BY <2>2, <2>3
<1>8. DirtOK(entry', i_size', i_data_map', Dirty', fp')
  BY <1>6, <1>7 DEF DirtOK
<1>9. page' = [c \in Clusters |-> page'[c]] /\ p_dirt' = [c \in Clusters |-> p_dirt'[c]]
  BY <1>2 DEF PageInv
<1> QED
  BY <1>5, <1>8, <1>9 DEF PageInv

\* Pages of the clusters of S are dropped with what the clusters held.
LEMMA PagesDropped ==
  ASSUME PageInv, NEW S,
         page' = [x \in Clusters |-> IF x \in S THEN NoPage ELSE page[x]],
         p_dirt' = [x \in Clusters |-> p_dirt[x] /\ x \notin S],
         card' = Forgotten(S)
  PROVE  /\ page' = [c \in Clusters |-> page'[c]]
         /\ p_dirt' = [c \in Clusters |-> p_dirt'[c]]
         /\ Dirty' = Dirty \ S
         /\ CleanOK(Dirty', page', card')
<1>1. page' = [c \in Clusters |-> page'[c]] /\ p_dirt' = [c \in Clusters |-> p_dirt'[c]]
  OBVIOUS
<1>2. Dirty' = Dirty \ S
  BY DEF Dirty
<1>3. \A c \in Clusters : c \notin S => page'[c] = page[c] /\ card'[c] = card[c]
  BY DEF Forgotten
<1>4. \A c \in S : c \in Clusters => page'[c] = NoPage
  OBVIOUS
<1>5. CleanOK(Dirty', page', card')
  BY <1>2, <1>3, <1>4 DEF PageInv, CleanOK
<1> QED
  BY <1>1, <1>2, <1>5

LEMMA PageClear ==
  ASSUME TableInv, PageInv, NEW h \in Handles, NEW f \in Files, clear(h, f)
  PROVE  PageInv'
<1> DEFINE m == i_data_map[f]
           c == m[1]
           S == {m[i] : i \in 2 .. i_blocks(f)}
           r == dentry_open_file(f, "WRITE", 0, 1)
<1>1. /\ fp[h] = Closed /\ m # << >>
      /\ entry' = [entry EXCEPT ![f].size = 0]
      /\ i_data_map' = [i_data_map EXCEPT ![f] = <<c>>]
      /\ i_size' = [i_size EXCEPT ![f] = 0]
      /\ fp' = [fp EXCEPT ![h] = r]
      /\ \A k \in Handles : fp[k] \notin {Closed, Deleted} => fp[k].file # f
  BY DEF clear, Present, NotOpen, Usable
<1>2. /\ page' = [x \in Clusters |-> IF x \in S THEN NoPage ELSE page[x]]
      /\ p_dirt' = [x \in Clusters |-> p_dirt[x] /\ x \notin S]
      /\ card' = Forgotten(S)
  BY DEF clear
<1> HIDE DEF S, r
<1>3. /\ page' = [x \in Clusters |-> page'[x]]
      /\ p_dirt' = [x \in Clusters |-> p_dirt'[x]]
      /\ Dirty' = Dirty \ S /\ CleanOK(Dirty', page', card')
  BY <1>2, PagesDropped
<1>4. Types /\ m \in Seq(Clusters) /\ FileOK(fat, m)
  BY DEF TableInv, Types, OwnedOK
<1>5. c \in R(m)
  BY <1>1, <1>4, WalkStays
<1>6. R(<<c>>) = {c}
  <2> DEFINE m2 == <<c>>
  <2>1. Len(m2) = 1 /\ m2[1] = c
    OBVIOUS
  <2>2. \A i : i \in 1 .. 1 <=> i = 1
    OBVIOUS
  <2> HIDE DEF m2
  <2>3. R(m2) = {c}
    BY <2>1, <2>2 DEF R
  <2> QED
    BY <2>3 DEF m2
<1>7. R(m) \cap Dirty = {}
  <2>1. ~HeldDirty(fp, f)
    BY <1>1 DEF HeldDirty
  <2> QED
    BY <2>1, <1>1 DEF PageInv, DirtOK
<1>8. entry'[f].size = 0 /\ i_size'[f] = 0 /\ i_data_map'[f] = <<c>>
  <2>1. entry[f] \in EntryRec
    BY <1>1 DEF TableInv, EntriesOK
  <2>2. entry'[f] = [entry[f] EXCEPT !.size = 0]
    BY <1>1, <1>4 DEF Types
  <2>3. entry'[f].size = 0
    BY <2>1, <2>2 DEF EntryRec
  <2> QED
    BY <2>3, <1>1, <1>4 DEF Types
<1>9. \A e \in Files \ {f} : /\ entry'[e] = entry[e] /\ i_size'[e] = i_size[e]
                             /\ i_data_map'[e] = i_data_map[e]
  BY <1>1, <1>4 DEF Types
<1>10. \A e \in Files : HeldDirty(fp, e) => HeldDirty(fp', e)
  BY <1>1, <1>4, OpenKeepsHolders
<1>11. R(i_data_map'[f]) \cap Dirty' = {}
  BY <1>3, <1>5, <1>6, <1>7, <1>8
<1>12. DirtOK(entry', i_size', i_data_map', Dirty', fp')
  BY <1>3, <1>8, <1>9, <1>10, <1>11 DEF PageInv, DirtOK
<1> QED
  BY <1>3, <1>12 DEF PageInv

LEMMA PageDelete ==
  ASSUME TableInv, PageInv, NEW h \in Handles, fs_delete(h)
  PROVE  PageInv'
<1> DEFINE f == fp[h].file
           S == {i_data_map[f][i] : i \in 1 .. i_blocks(f)}
<1>1. /\ Usable(h)
      /\ entry' = [entry EXCEPT ![f] = Absent]
      /\ i_data_map' = [i_data_map EXCEPT ![f] = << >>]
      /\ i_size' = [i_size EXCEPT ![f] = 0]
      /\ fp' = [fp EXCEPT ![h] = Deleted]
  BY DEF fs_delete
<1>2. /\ page' = [x \in Clusters |-> IF x \in S THEN NoPage ELSE page[x]]
      /\ p_dirt' = [x \in Clusters |-> p_dirt[x] /\ x \notin S]
      /\ card' = Forgotten(S)
  BY DEF fs_delete
<1> HIDE DEF S
<1>3. /\ page' = [x \in Clusters |-> page'[x]]
      /\ p_dirt' = [x \in Clusters |-> p_dirt'[x]]
      /\ Dirty' = Dirty \ S /\ CleanOK(Dirty', page', card')
  BY <1>2, PagesDropped
<1>4. Types /\ f \in Files
  BY <1>1, UsableType DEF TableInv
<1>5. \A e \in Files \ {f} : HeldDirty(fp, e) => HeldDirty(fp', e)
  <2>1. \A e \in Files \ {f} : HeldDirty(fp, e) => HeldDirty([fp EXCEPT ![h] = Deleted], e)
    BY <1>4, HolderStays DEF Types
  <2> QED
    BY <2>1, <1>1
<1> HIDE DEF f
<1>6. /\ i_data_map'[f] = << >>
      /\ \A e \in Files \ {f} : /\ entry'[e] = entry[e] /\ i_size'[e] = i_size[e]
                                /\ i_data_map'[e] = i_data_map[e]
  BY <1>1, <1>4 DEF Types
<1>7. DirtOK(entry', i_size', i_data_map', Dirty', fp')
  BY <1>3, <1>5, <1>6 DEF PageInv, DirtOK
<1> QED
  BY <1>3, <1>7 DEF PageInv

LEMMA PageCloseDeleted ==
  ASSUME TableInv, PageInv, NEW h \in Handles, fs_close_deleted(h)
  PROVE  PageInv'
<1>1. /\ fp[h] = Deleted /\ UNCHANGED <<cardVars, i_data_map, i_size, page, p_dirt>>
      /\ fp' = [fp EXCEPT ![h] = Closed]
  BY DEF fs_close_deleted
<1>2. Types
  BY DEF TableInv
<1>3. \A e \in Files : HeldDirty(fp, e) => HeldDirty(fp', e)
  BY <1>1, <1>2, OpenKeepsHolders
<1>4. Dirty' = Dirty
  BY <1>1 DEF Dirty
<1>5. DirtOK(entry', i_size', i_data_map', Dirty', fp')
  BY <1>1, <1>3, <1>4 DEF PageInv, DirtOK, cardVars
<1> QED
  BY <1>1, <1>4, <1>5 DEF PageInv, cardVars

\* After a restart every page is gone and every size is the one on the card.
LEMMA PagePowerCycle ==
  ASSUME TableInv, PageInv, power_cycle
  PROVE  PageInv'
<1>1. /\ \A f \in Files : i_data_map'[f] \in
           (IF entry[f] = Absent THEN {<< >>} ELSE Chain(entry[f].first))
      /\ i_size' = [f \in Files |-> IF entry[f] = Absent THEN 0 ELSE entry[f].size]
      /\ page' = [c \in Clusters |-> NoPage]
      /\ p_dirt' = [c \in Clusters |-> FALSE]
      /\ entry' = entry
  BY DEF power_cycle, cardVars
<1>2. Dirty' = {}
  BY <1>1 DEF Dirty
<1>3. CleanOK(Dirty', page', card')
  BY <1>1 DEF CleanOK
<1>4. \A f \in Files : i_data_map'[f] # << >> => entry'[f].size = i_size'[f]
  BY <1>1
<1>5. DirtOK(entry', i_size', i_data_map', Dirty', fp')
  BY <1>2, <1>4 DEF DirtOK
<1>6. page' = [c \in Clusters |-> page'[c]] /\ p_dirt' = [c \in Clusters |-> p_dirt'[c]]
  BY <1>1
<1> QED
  BY <1>3, <1>5, <1>6 DEF PageInv

\* A page differs from its cluster, and an entry from the size of its file,
\* only while a handle that wrote to the file is open.
THEOREM PageInvariant == Spec => []PageInv
<1>1. Init => PageInv
  BY PageInit
<1>2. TableInv /\ TableInv' /\ PageInv /\ [Next]_vars => PageInv'
  <2> SUFFICES ASSUME TableInv, TableInv', PageInv, [Next]_vars PROVE PageInv'
    OBVIOUS
  <2>1. CASE UNCHANGED vars
    <3>1. UNCHANGED <<entry, card, i_data_map, i_size, page, p_dirt, fp>>
      BY <2>1 DEF vars, cardVars
    <3>2. Dirty' = Dirty
      BY <3>1 DEF Dirty
    <3> QED
      BY <3>1, <3>2 DEF PageInv
  <2>2. ASSUME NEW h \in Handles, NEW f \in Files, NEW m \in Modes,
               create_dentry(h, f, m) \/ fs_open(h, f, m)
        PROVE  PageInv'
    BY <2>2, PageCreate, PageOpen
  <2>3. ASSUME NEW h \in Handles, NEW f \in Files, clear(h, f) PROVE PageInv'
    BY <2>3, PageClear
  <2>4. ASSUME NEW h \in Handles, NEW n \in Lens, fs_read(h, n) PROVE PageInv'
    BY <2>4, PageRead
  <2>5. ASSUME NEW h \in Handles, NEW n \in Lens, NEW b,
               fs_write(h, n, b) \/ fs_write_expands(h, n, b)
        PROVE  PageInv'
    BY <2>5, PageWrite
  <2>6. ASSUME NEW h \in Handles, NEW flag \in {"HEAD", "TAIL", "CUR"},
               NEW o \in Offsets, fs_seek(h, flag, o)
        PROVE  PageInv'
    BY <2>6, PageSeek
  <2>7. ASSUME NEW h \in Handles, fs_delete(h) \/ fs_close(h) \/ fs_close_deleted(h)
        PROVE  PageInv'
    BY <2>7, PageDelete, PageClose, PageCloseDeleted
  <2>8. CASE power_cycle
    BY <2>8, PagePowerCycle
  <2>9. CASE Leaves
    <3>1. UNCHANGED <<entry, card, i_data_map, i_size, page, p_dirt, fp>>
      BY <2>9, LeavesFiles
    <3>2. Dirty' = Dirty
      BY <3>1 DEF Dirty
    <3> QED
      BY <3>1, <3>2 DEF PageInv
  <2> QED
    BY <2>1, <2>2, <2>3, <2>4, <2>5, <2>6, <2>7, <2>8, <2>9 DEF Next, Leaves
<1> QED
  BY <1>1, <1>2, TableInvariant, PTL DEF Spec

\* What fs_close, clear_fat32 and delete_fat32 leave behind of a file nobody
\* has open is on the card: its size is in the entry and no page is ahead of
\* its cluster, so switching the machine off then loses nothing of it.
THEOREM ClosedFilesAreOnCard == Spec => []FlushedWhenClosed
<1>1. TableInv /\ PageInv => FlushedWhenClosed
  <2> SUFFICES ASSUME TableInv, PageInv, NEW f \in Files, Present(f), NotOpen(f)
               PROVE  /\ entry[f].size = i_size[f]
                      /\ \A c \in Mapped(f) : ~p_dirt[c]
                      /\ \A c \in Mapped(f) : page[c] # NoPage => page[c] = card[c]
    BY DEF FlushedWhenClosed
  <2>1. Mapped(f) = R(i_data_map[f])
    BY DEF Mapped, R, i_blocks
  <2>2. R(i_data_map[f]) \subseteq Clusters
    BY MapType DEF TableInv, Types
  <2>3. ~HeldDirty(fp, f)
    BY DEF NotOpen, Usable, HeldDirty
  <2>4. entry[f].size = i_size[f] /\ R(i_data_map[f]) \cap Dirty = {}
    BY <2>3 DEF PageInv, DirtOK, Present
  <2>5. \A c \in Mapped(f) : c \in Clusters /\ c \notin Dirty
    BY <2>1, <2>2, <2>4
  <2>6. \A c \in Mapped(f) : ~p_dirt[c]
    BY <2>5 DEF Dirty
  <2>7. \A c \in Mapped(f) : page[c] # NoPage => page[c] = card[c]
    BY <2>5 DEF PageInv, CleanOK
  <2> QED
    BY <2>4, <2>6, <2>7
<1> QED
  BY <1>1, TableInvariant, PageInvariant, PTL

-----------------------------------------------------------------------------
(* Least numbers, used instead of induction.                               *)

\* A set of numbers has a least one.
LEMMA Least ==
  ASSUME NEW S, S \subseteq Nat, S # {}
  PROVE  \E m \in S : \A k \in S : m <= k
<1>1. IsWellFoundedOn(OpToRel(<, Nat), Nat)
  BY NatLessThanWellFounded
<1>2. PICK m \in S : \A k \in S : ~(<<k, m>> \in OpToRel(<, Nat))
  BY <1>1, WFMin
<1>3. \A k \in S : ~(k < m)
  BY <1>2 DEF OpToRel
<1> QED
  BY <1>3

-----------------------------------------------------------------------------
(* Maps and chains.                                                        *)

Injective(m) == \A i, j \in 1 .. Len(m) : m[i] = m[j] => i = j

\* The chain of table F from the first cluster of m is m.
Linear(F, m) ==
  /\ \A i \in 1 .. Len(m) - 1 : F[m[i]] = m[i + 1]
  /\ F[m[Len(m)]] = END

\* No link of table F leads to some cluster of m, which is not the first.
Broken(F, m) == \E y \in R(m) \ {m[1]} : \A x \in R(m) : F[x] # y

MapOK(F, m) == Injective(m) /\ (Linear(F, m) \/ Broken(F, m))

ChainInv == \A f \in Files : Present(f) => MapOK(fat, i_data_map[f])

\* The links of one map are all that counts.
LEMMA SameLinks ==
  ASSUME NEW F, NEW F2, NEW m \in Seq(Clusters), m # << >>,
         \A x \in R(m) : F2[x] = F[x], MapOK(F, m)
  PROVE  MapOK(F2, m)
<1>1. Len(m) \in Nat /\ Len(m) > 0
  OBVIOUS
<1>2. \A i \in 1 .. Len(m) : m[i] \in R(m)
  BY DEF R
<1>3. ASSUME Linear(F, m) PROVE Linear(F2, m)
  <2>1. \A i \in 1 .. Len(m) - 1 : i \in 1 .. Len(m)
    BY <1>1
  <2>2. Len(m) \in 1 .. Len(m)
    BY <1>1
  <2> QED
    BY <1>2, <1>3, <2>1, <2>2 DEF Linear
<1>4. ASSUME Broken(F, m) PROVE Broken(F2, m)
  BY <1>4 DEF Broken
<1> QED
  BY <1>3, <1>4 DEF MapOK

LEMMA OneCluster ==
  ASSUME NEW F, NEW c \in Clusters, F[c] = END
  PROVE  MapOK(F, <<c>>)
<1> DEFINE m == <<c>>
<1>1. Len(m) = 1 /\ m[1] = c
  OBVIOUS
<1> HIDE DEF m
<1>2. Injective(m) /\ Linear(F, m)
  BY <1>1 DEF Injective, Linear
<1> QED
  BY <1>2 DEF MapOK, m

\* A broken map is not the set of clusters a walk meets.
LEMMA BrokenIsShort ==
  ASSUME NEW m \in Seq(Clusters), m # << >>, FileOK(fat, m), Broken(fat, m)
  PROVE  Reach(m[1]) # R(m)
<1>1. PICK y \in R(m) \ {m[1]} : \A x \in R(m) : fat[x] # y
  BY DEF Broken
<1>2. m[1] \in R(m) /\ R(m) \subseteq Clusters
  BY WalkStays, MapType
<1> DEFINE S == R(m) \ {y}
<1>3. m[1] \in S /\ S \in SUBSET Clusters /\ y \notin S
  BY <1>1, <1>2
<1>4. \A x \in S : fat[x] \in Clusters => fat[x] \in S
  BY <1>1 DEF FileOK
<1> HIDE DEF S
<1>5. y \notin Reach(m[1])
  BY <1>3, <1>4 DEF Reach
<1> QED
  BY <1>1, <1>5

\* The chain read back from the card is the map, when the map is a chain.
LEMMA ChainIsMap ==
  ASSUME NEW m \in Seq(Clusters), m # << >>, FileOK(fat, m), Linear(fat, m),
         NEW s \in Chain(m[1])
  PROVE  s = m
<1> DEFINE c == m[1]
<1>1. Reach(c) \subseteq R(m) /\ R(m) \subseteq Clusters
  BY WalkStays, MapType
<1>2. IsFiniteSet(Reach(c))
  BY <1>1, FS_Subset, Fat32Assumption
<1>3. Cardinality(Reach(c)) \in Nat
  BY <1>2, FS_CardinalityType
<1> HIDE DEF c
<1>4. PICK n \in 1 .. Cardinality(Reach(c)) :
        /\ s \in [1 .. n -> Reach(c)]
        /\ s[1] = c /\ fat[s[n]] = END
        /\ \A i \in 1 .. n - 1 : s[i + 1] = fat[s[i]]
  BY DEF Chain, c
<1>5. n \in Nat /\ n > 0
  BY <1>3
<1>6. s \in [1 .. n -> Clusters]
  BY <1>1, <1>4
<1>7. s \in Seq(Clusters) /\ Len(s) = n
  BY <1>5, <1>6, FunctionIsMap
<1>8. Len(m) \in Nat /\ Len(m) > 0 /\ END \notin Clusters
      /\ \A i \in 1 .. Len(m) : m[i] \in Clusters
  BY Fat32Assumption
<1>9. \A i \in 1 .. n : i <= Len(m) => s[i] = m[i]
  <2> DEFINE D == {i \in 1 .. n : i <= Len(m) /\ s[i] # m[i]}
  <2> SUFFICES ASSUME D # {} PROVE FALSE
    OBVIOUS
  <2>1. D \subseteq Nat
    OBVIOUS
  <2>2. PICK i \in D : \A k \in D : i <= k
    BY <2>1, Least
  <2>3. i # 1
    BY <1>4 DEF c
  <2>4. i - 1 \in 1 .. n - 1 /\ i - 1 \in 1 .. Len(m) - 1 /\ i - 1 \notin D
        /\ (i - 1) + 1 = i /\ i - 1 \in 1 .. n /\ i - 1 <= Len(m)
    BY <2>2, <2>3, <1>5, <1>8
  <2>5. s[i - 1] = m[i - 1]
    BY <2>4
  <2>6. s[i] = fat[s[i - 1]]
    BY <2>4, <1>4
  <2>7. m[i] = fat[m[i - 1]]
    BY <2>4 DEF Linear
  <2> QED
    BY <2>2, <2>5, <2>6, <2>7
<1>10. ~(n < Len(m))
  <2> SUFFICES ASSUME n < Len(m) PROVE FALSE
    OBVIOUS
  <2>1. n \in 1 .. Len(m) - 1 /\ n \in 1 .. n /\ n <= Len(m) /\ n + 1 \in 1 .. Len(m)
    BY <1>5, <1>8
  <2>2. s[n] = m[n]
    BY <2>1, <1>9
  <2>3. fat[m[n]] = m[n + 1]
    BY <2>1 DEF Linear
  <2> QED
    BY <2>1, <2>2, <2>3, <1>4, <1>8
<1>11. ~(n > Len(m))
  <2> SUFFICES ASSUME n > Len(m) PROVE FALSE
    OBVIOUS
  <2>1. Len(m) \in 1 .. n - 1 /\ Len(m) \in 1 .. n /\ Len(m) <= Len(m)
        /\ Len(m) + 1 \in 1 .. n
    BY <1>5, <1>8
  <2>2. s[Len(m)] = m[Len(m)]
    BY <2>1, <1>9
  <2>3. s[Len(m) + 1] = fat[m[Len(m)]]
    BY <2>1, <2>2, <1>4
  <2>4. s[Len(m) + 1] = END
    BY <2>3 DEF Linear
  <2> QED
    BY <2>1, <2>4, <1>6, <1>8
<1>12. n = Len(m)
  BY <1>5, <1>8, <1>10, <1>11
<1>13. \A i \in 1 .. Len(m) : s[i] = m[i]
  BY <1>9, <1>12, <1>8
<1> QED
  BY <1>7, <1>12, <1>13

\* expand_fat32 links s behind the first cluster: a file of one cluster has a
\* chain again, a longer one has lost its second cluster.
LEMMA LinkedMap ==
  ASSUME NEW m \in Seq(Clusters), m # << >>, FileOK(fat, m), MapOK(fat, m),
         NEW n \in Nat, n > 0, NEW s \in [1 .. n -> Clusters],
         \A i \in 1 .. n : fat[s[i]] = FREE,
         \A i, j \in 1 .. n : i < j => s[i] < s[j]
  PROVE  MapOK(LinkedAt(m[1], s), m \o s)
<1> DEFINE F2 == LinkedAt(m[1], s)
           m2 == m \o s
<1>1. s \in Seq(Clusters) /\ Len(s) = n
      /\ (\A c : c \in R(s) <=> \E i \in 1 .. n : s[i] = c)
  BY FunctionIsMap
<1>2. Len(m) \in Nat /\ Len(m) > 0 /\ Len(m2) = Len(m) + n /\ m2 \in Seq(Clusters)
  BY <1>1
<1>3. /\ \A i \in 1 .. Len(m) : m2[i] = m[i]
      /\ \A i \in 1 .. n : m2[Len(m) + i] = s[i]
  BY <1>1
<1>4. \A i \in 1 .. Len(m) : m[i] \in R(m) /\ m[i] \in Clusters /\ m[i] \notin R(s)
  BY <1>1 DEF R, FileOK
<1>5. \A i, j \in 1 .. n : s[i] = s[j] => i = j
  <2> SUFFICES ASSUME NEW i \in 1 .. n, NEW j \in 1 .. n, s[i] = s[j] PROVE i = j
    OBVIOUS
  <2>1. s[i] \in Nat /\ s[j] \in Nat
    BY ClusterType
  <2>2. i < j => s[i] < s[j]
    OBVIOUS
  <2>3. j < i => s[j] < s[i]
    OBVIOUS
  <2> QED
    BY <2>1, <2>2, <2>3
<1>6. R(m2) = R(m) \cup R(s) /\ m2[1] = m[1]
  BY <1>1, ConcatenatedMaps
<1>7. F2[s[n]] = END /\ s[n] \in Clusters
  BY <1>1 DEF LinkedAt
<1>8. \A i \in 1 .. n - 1 : F2[s[i]] = s[i + 1]
  <2> SUFFICES ASSUME NEW i \in 1 .. n - 1 PROVE F2[s[i]] = s[i + 1]
    OBVIOUS
  <2>1. i \in 1 .. n /\ n \in 1 .. n /\ i # n /\ n - 1 \in Nat
    OBVIOUS
  <2>2. s[i] \in Clusters /\ s[i] # s[n] /\ s[i] # m[1]
    BY <2>1, <1>1, <1>2, <1>4, <1>5
  <2> DEFINE j == CHOOSE k \in 1 .. n - 1 : s[k] = s[i]
  <2>3. F2[s[i]] = s[1 + j]
    BY <2>2, <1>1 DEF LinkedAt
  <2>4. j \in 1 .. n - 1 /\ s[j] = s[i]
    OBVIOUS
  <2> HIDE DEF j
  <2>5. j \in 1 .. n
    BY <2>4
  <2>6. j = i
    BY <2>1, <2>4, <2>5, <1>5
  <2> QED
    BY <2>3, <2>6
<1>9. F2[m[1]] = s[1]
  <2>1. m[1] \in Clusters /\ m[1] # s[n]
    BY <1>1, <1>2, <1>4
  <2> QED
    BY <2>1, <1>1 DEF LinkedAt
<1>10. \A x \in R(m) : x # m[1] => F2[x] = fat[x]
  <2> SUFFICES ASSUME NEW x \in R(m), x # m[1] PROVE F2[x] = fat[x]
    OBVIOUS
  <2>1. x \in Clusters /\ x \notin R(s)
    BY <1>1, MapType DEF FileOK
  <2>2. x # s[n] /\ ~ \E i \in 1 .. n - 1 : s[i] = x
    BY <2>1, <1>1
  <2> QED
    BY <2>1, <2>2, <1>1 DEF LinkedAt
<1> HIDE DEF F2, m2
<1>11. Injective(m2)
  <2> SUFFICES ASSUME NEW i \in 1 .. Len(m2), NEW j \in 1 .. Len(m2), m2[i] = m2[j]
               PROVE  i = j
    BY DEF Injective
  <2>1. \A k \in 1 .. Len(m2) :
          \/ k \in 1 .. Len(m) /\ m2[k] = m[k] /\ m2[k] \notin R(s)
          \/ /\ k - Len(m) \in 1 .. n /\ m2[k] = s[k - Len(m)]
             /\ m2[k] \in R(s)
    <3> SUFFICES ASSUME NEW k \in 1 .. Len(m2), k \notin 1 .. Len(m)
                 PROVE  /\ k - Len(m) \in 1 .. n /\ m2[k] = s[k - Len(m)]
                        /\ m2[k] \in R(s)
      BY <1>3, <1>4
    <3>1. k - Len(m) \in 1 .. n /\ Len(m) + (k - Len(m)) = k
      BY <1>2
    <3>2. m2[k] = s[k - Len(m)]
      BY <3>1, <1>3
    <3> QED
      BY <3>1, <3>2, <1>1
  <2>2. CASE m2[i] \in R(s)
    <3>1. i - Len(m) \in 1 .. n /\ j - Len(m) \in 1 .. n
          /\ s[i - Len(m)] = s[j - Len(m)]
      BY <2>1, <2>2
    <3>2. i - Len(m) = j - Len(m)
      BY <3>1, <1>5
    <3> QED
      BY <3>2, <1>2
  <2>3. CASE m2[i] \notin R(s)
    BY <2>1, <2>3 DEF MapOK, Injective
  <2> QED
    BY <2>2, <2>3
<1>12. CASE Len(m) = 1
  <2>1. F2[m2[Len(m2)]] = END
    BY <1>2, <1>3, <1>7, <1>12
  <2>2. ASSUME NEW i \in 1 .. Len(m2) - 1 PROVE F2[m2[i]] = m2[i + 1]
    <3>1. CASE i = 1
      BY <3>1, <1>2, <1>3, <1>9, <1>12
    <3>2. CASE i # 1
      <4>1. i - 1 \in 1 .. n - 1 /\ i - 1 \in 1 .. n /\ i \in 1 .. n /\ (i - 1) + 1 = i
            /\ 1 + (i - 1) = i /\ 1 + i = i + 1
        BY <3>2, <1>2, <1>12
      <4>2. m2[i] = s[i - 1] /\ m2[i + 1] = s[i]
        BY <4>1, <1>3, <1>12
      <4> QED
        BY <4>1, <4>2, <1>8
    <3> QED
      BY <3>1, <3>2
  <2> QED
    BY <2>1, <2>2, <1>11 DEF Linear, MapOK, F2, m2
<1>13. CASE Len(m) # 1
  <2>1. PICK y \in R(m) \ {m[1]} : \A x \in R(m) : x # m[1] => fat[x] # y
    <3>1. CASE Broken(fat, m)
      BY <3>1 DEF Broken
    <3>2. CASE Linear(fat, m)
      <4> DEFINE l == Len(m)
      <4>a. l \in Nat /\ l > 0 /\ l # 1
        BY <1>2, <1>13
      <4> HIDE DEF l
      <4>b. 2 \in 1 .. l /\ 1 \in 1 .. l /\ l \in 1 .. l
        BY <4>a
      <4>1. 2 \in 1 .. Len(m) /\ 1 \in 1 .. Len(m) /\ Len(m) \in 1 .. Len(m)
        BY <4>b DEF l
      <4>2. m[2] \in R(m) \ {m[1]} /\ m[2] \in Clusters
        BY <4>1, <1>4 DEF MapOK, Injective
      <4>3. ASSUME NEW x \in R(m), x # m[1], fat[x] = m[2] PROVE FALSE
        <5>1. PICK i \in 1 .. Len(m) : x = m[i]
          BY DEF R
        <5>2. CASE i = Len(m)
          BY <5>1, <5>2, <4>2, <4>3, <3>2, Fat32Assumption DEF Linear
        <5>3. CASE i # Len(m)
          <6>1. i \in 1 .. Len(m) - 1 /\ i + 1 \in 1 .. Len(m) /\ i # 1
            BY <5>1, <5>3, <4>3, <1>2
          <6>2. m[i + 1] = m[2]
            BY <6>1, <5>1, <4>3, <3>2 DEF Linear
          <6>3. i + 1 = 2
            BY <6>1, <6>2, <4>1 DEF MapOK, Injective
          <6> QED
            BY <6>1, <6>3
        <5> QED
          BY <5>2, <5>3
      <4> QED
        BY <4>2, <4>3
    <3> QED
      BY <3>1, <3>2 DEF MapOK
  <2>2. y \in R(m2) \ {m2[1]} /\ y \notin R(s) /\ y \in Clusters
    BY <1>1, <1>6, MapType DEF FileOK
  <2>3. ASSUME NEW x \in R(m2) PROVE F2[x] # y
    <3>1. CASE x \in R(m) /\ x # m[1]
      BY <3>1, <2>1, <1>10
    <3>2. CASE x = m[1]
      <4>1. s[1] \in R(s)
        BY <1>1
      <4> QED
        BY <4>1, <3>2, <2>2, <1>9
    <3>3. CASE x \in R(s)
      <4>1. PICK i \in 1 .. n : x = s[i]
        BY <3>3, <1>1
      <4>2. CASE i = n
        BY <4>1, <4>2, <2>2, <1>7, Fat32Assumption
      <4>3. CASE i # n
        <5>1. i \in 1 .. n - 1 /\ i + 1 \in 1 .. n
          BY <4>3
        <5>2. F2[x] = s[i + 1] /\ s[i + 1] \in R(s)
          BY <5>1, <4>1, <1>1, <1>8
        <5> QED
          BY <5>2, <2>2
      <4> QED
        BY <4>2, <4>3
    <3> QED
      BY <3>1, <3>2, <3>3, <1>6
  <2>4. Broken(F2, m2)
    BY <2>2, <2>3 DEF Broken
  <2> QED
    BY <2>4, <1>11 DEF MapOK, F2, m2
<1> QED
  BY <1>12, <1>13

-----------------------------------------------------------------------------
(* Every action keeps the chains.                                          *)

\* One file gets another map, and the table changes at the clusters of its
\* two maps only.
LEMMA ChainOne ==
  ASSUME TableInv, TableInv', ChainInv, NEW f \in Files,
         \A e \in Files \ {f} : i_data_map'[e] = i_data_map[e],
         \A x \in Clusters :
           x \notin R(i_data_map[f]) \cup R(i_data_map'[f]) => fat'[x] = fat[x],
         i_data_map'[f] # << >> => MapOK(fat', i_data_map'[f])
  PROVE  ChainInv'
<1> SUFFICES ASSUME NEW e \in Files, i_data_map'[e] # << >>
             PROVE  MapOK(fat', i_data_map'[e])
  BY DEF ChainInv, Present
<1>1. CASE e = f
  BY <1>1
<1>2. CASE e # f
  <2>1. /\ i_data_map'[e] = i_data_map[e] /\ i_data_map[e] # << >>
        /\ i_data_map[e] \in Seq(Clusters)
    BY <1>2 DEF TableInv, Types
  <2>2. R(i_data_map[e]) \cap R(i_data_map[f]) = {}
    BY <1>2 DEF TableInv, OwnedOK
  <2>3. R(i_data_map[e]) \cap R(i_data_map'[f]) = {}
    <3>1. R(i_data_map'[e]) \cap R(i_data_map'[f]) = {}
      BY <1>2 DEF TableInv, OwnedOK
    <3> QED
      BY <3>1, <2>1
  <2>4. \A x \in R(i_data_map[e]) : fat'[x] = fat[x]
    BY <2>1, <2>2, <2>3, MapType
  <2>5. MapOK(fat, i_data_map[e])
    BY <2>1 DEF ChainInv, Present
  <2>6. \A F, F2, m : m \in Seq(Clusters) /\ m # << >> /\ MapOK(F, m)
                        /\ (\A x \in R(m) : F2[x] = F[x]) => MapOK(F2, m)
    BY SameLinks
  <2> QED
    BY <2>1, <2>4, <2>5, <2>6
<1> QED
  BY <1>1, <1>2

LEMMA ChainSame ==
  ASSUME ChainInv, UNCHANGED <<fat, i_data_map>>
  PROVE  ChainInv'
  BY DEF ChainInv, Present

LEMMA ChainCreate ==
  ASSUME TableInv, TableInv', ChainInv, NEW h \in Handles, NEW f \in Files,
         NEW m \in Modes, create_dentry(h, f, m)
  PROVE  ChainInv'
<1>1. PICK s \in find_free_clu(1) :
        /\ fat' = [fat EXCEPT ![s[1]] = END]
        /\ i_data_map' = [i_data_map EXCEPT ![f] = s]
  BY DEF create_dentry
<1>2. s \in [1 .. 1 -> Clusters] /\ s[1] \in Clusters
  BY <1>1 DEF find_free_clu
<1>3. s = <<s[1]>> /\ s[1] \in R(s)
  <2>1. s \in Seq(Clusters) /\ Len(s) = 1
    BY <1>2, FunctionIsMap
  <2> QED
    BY <2>1 DEF R
<1>4. /\ i_data_map'[f] = s /\ \A e \in Files \ {f} : i_data_map'[e] = i_data_map[e]
      /\ fat'[s[1]] = END /\ \A x \in Clusters : x # s[1] => fat'[x] = fat[x]
  BY <1>1, <1>2 DEF TableInv, Types, Fats
<1>5. \A F, c : c \in Clusters /\ F[c] = END => MapOK(F, <<c>>)
  BY OneCluster
<1>6. MapOK(fat', s)
  BY <1>2, <1>3, <1>4, <1>5
<1> QED
  BY <1>3, <1>4, <1>6, ChainOne

LEMMA ChainClear ==
  ASSUME TableInv, TableInv', ChainInv, NEW h \in Handles, NEW f \in Files, clear(h, f)
  PROVE  ChainInv'
<1> DEFINE c == i_data_map[f][1]
<1>1. /\ i_data_map[f] # << >> /\ fat' = Cut(f)
      /\ i_data_map' = [i_data_map EXCEPT ![f] = <<c>>]
  BY DEF clear, Present
<1>2. i_data_map[f] \in Seq(Clusters) /\ FileOK(fat, i_data_map[f])
      /\ i_data_map \in [Files -> Seq(Clusters)]
  BY DEF TableInv, Types, OwnedOK
<1>3. Reach(c) \subseteq R(i_data_map[f]) /\ c \in R(i_data_map[f]) /\ c \in Clusters
  BY <1>1, <1>2, WalkStays
<1>4. fat'[c] = END /\ \A x \in Clusters : x \notin R(i_data_map[f]) => fat'[x] = fat[x]
  BY <1>1, <1>3 DEF Cut
<1> HIDE DEF c
<1>5. i_data_map'[f] = <<c>> /\ \A e \in Files \ {f} : i_data_map'[e] = i_data_map[e]
  BY <1>1, <1>2
<1>6. \A F, d : d \in Clusters /\ F[d] = END => MapOK(F, <<d>>)
  BY OneCluster
<1>7. MapOK(fat', i_data_map'[f])
  BY <1>3, <1>4, <1>5, <1>6
<1> QED
  BY <1>4, <1>5, <1>7, ChainOne

LEMMA ChainDelete ==
  ASSUME TableInv, TableInv', ChainInv, NEW h \in Handles, fs_delete(h)
  PROVE  ChainInv'
<1> DEFINE f == fp[h].file
           c == i_data_map[f][1]
<1>1. /\ Usable(h) /\ i_data_map' = [i_data_map EXCEPT ![f] = << >>]
      /\ fat' = [x \in Clusters |-> IF x \in Reach(c) THEN FREE ELSE fat[x]]
  BY DEF fs_delete
<1>2. f \in Files /\ i_data_map \in [Files -> Seq(Clusters)]
  BY <1>1, UsableType DEF TableInv, Types
<1>3. i_data_map[f] \in Seq(Clusters) /\ FileOK(fat, i_data_map[f]) /\ i_data_map[f] # << >>
  BY <1>1, <1>2 DEF TableInv, Types, OwnedOK, OpenOK, Usable
<1>4. Reach(c) \subseteq R(i_data_map[f])
  BY <1>3, WalkStays
<1>5. \A x \in Clusters : x \notin R(i_data_map[f]) => fat'[x] = fat[x]
  BY <1>1, <1>4
<1> HIDE DEF f
<1>6. i_data_map'[f] = << >> /\ \A e \in Files \ {f} : i_data_map'[e] = i_data_map[e]
  BY <1>1, <1>2
<1> QED
  BY <1>2, <1>5, <1>6, ChainOne

LEMMA WriteKeepsMaps ==
  ASSUME TableInv, NEW h \in Handles, NEW n \in Lens, NEW b, fs_write(h, n, b)
  PROVE  i_data_map' = i_data_map /\ UNCHANGED cardVars
<1> DEFINE f == fp[h].file
<1>1. Types /\ Usable(h) /\ UNCHANGED cardVars
      /\ i_data_map' = [i_data_map EXCEPT ![f] = i_data_map[f]]
  BY DEF TableInv, fs_write, Put
<1>2. f \in Files
  BY <1>1, UsableType
<1> HIDE DEF f
<1> QED
  BY <1>1, <1>2 DEF Types

\* The clusters fs_write_expands takes.
LEMMA ExpandsTakes ==
  ASSUME TableInv, NEW h \in Handles, NEW n \in Lens, NEW b, fs_write_expands(h, n, b)
  PROVE  LET f == fp[h].file
             m == i_data_map[f]
             blks == expand_blks(f, fp[h].f_pos + n)
         IN /\ Types /\ Usable(h) /\ n \in Int /\ f \in Files /\ fp[h].f_pos + n \in Int
            /\ m \in Seq(Clusters) /\ m # << >> /\ FileOK(fat, m)
            /\ blks \in Nat /\ blks > 0
            /\ \E s \in [1 .. blks -> Clusters] :
                 /\ \A i \in 1 .. blks : fat[s[i]] = FREE
                 /\ \A i, j \in 1 .. blks : i < j => s[i] < s[j]
                 /\ fat' = LinkedAt(m[1], s)
                 /\ Put(h, m \o s, n, b)
<1> DEFINE f == fp[h].file
           m == i_data_map[f]
           blks == expand_blks(f, fp[h].f_pos + n)
<1>1. Types /\ Usable(h) /\ n \in Int
  BY Fat32Assumption DEF TableInv, fs_write_expands
<1>2. f \in Files /\ fp[h].f_pos + n \in Int
  BY <1>1, UsableType
<1>3. m \in Seq(Clusters) /\ m # << >> /\ FileOK(fat, m)
  BY <1>1, <1>2 DEF TableInv, Types, OpenOK, Usable, OwnedOK
<1>4. blks \in Int
  BY <1>1, <1>2, ExpandType
<1>5. blks > 0
  BY DEF fs_write_expands
<1>6. \E s \in find_free_clu(blks) : fat' = LinkedAt(m[1], s) /\ Put(h, m \o s, n, b)
  BY DEF fs_write_expands, last_clu_idx
<1> HIDE DEF blks, m, f
<1>7. blks \in Nat
  BY <1>4, <1>5
<1>8. \E s \in [1 .. blks -> Clusters] :
                 /\ \A i \in 1 .. blks : fat[s[i]] = FREE
                 /\ \A i, j \in 1 .. blks : i < j => s[i] < s[j]
                 /\ fat' = LinkedAt(m[1], s)
                 /\ Put(h, m \o s, n, b)
  BY <1>6 DEF find_free_clu
<1> QED
  BY <1>1, <1>2, <1>3, <1>5, <1>7, <1>8 DEF blks, m, f

LEMMA ChainExpands ==
  ASSUME TableInv, TableInv', ChainInv, NEW h \in Handles, NEW n \in Lens, NEW b,
         fs_write_expands(h, n, b)
  PROVE  ChainInv'
<1> DEFINE f == fp[h].file
           m == i_data_map[f]
           blks == expand_blks(f, fp[h].f_pos + n)
<1>1. /\ Types /\ Usable(h) /\ n \in Int /\ f \in Files
      /\ m \in Seq(Clusters) /\ m # << >> /\ FileOK(fat, m)
      /\ blks \in Nat /\ blks > 0
  BY ExpandsTakes
<1>2. PICK s \in [1 .. blks -> Clusters] :
        /\ \A i \in 1 .. blks : fat[s[i]] = FREE
        /\ \A i, j \in 1 .. blks : i < j => s[i] < s[j]
        /\ fat' = LinkedAt(m[1], s)
        /\ Put(h, m \o s, n, b)
  BY ExpandsTakes
<1>3. i_data_map' = [i_data_map EXCEPT ![f] = m \o s]
  BY <1>2 DEF Put
<1>4. MapOK(fat, m)
  BY <1>1 DEF ChainInv, Present
<1>5. fat \in Fats /\ fat[RootClu] # FREE /\ i_data_map \in [Files -> Seq(Clusters)]
  BY DEF TableInv, Types, OwnedOK
<1>6. \A x \in Clusters : x \notin R(m \o s) => LinkedAt(m[1], s)[x] = fat[x]
  <2> HIDE DEF m, blks
  <2> QED
    BY <1>1, <1>2, <1>5, Linked
<1>7. MapOK(LinkedAt(m[1], s), m \o s)
  <2> HIDE DEF m, blks
  <2> QED
    BY <1>1, <1>2, <1>4, LinkedMap
<1> m = i_data_map[f]
  OBVIOUS
<1> HIDE DEF f, m
<1>8. /\ i_data_map'[f] = m \o s
      /\ \A e \in Files \ {f} : i_data_map'[e] = i_data_map[e]
  BY <1>1, <1>3, <1>5
<1>9. MapOK(fat', i_data_map'[f])
  BY <1>2, <1>7, <1>8
<1>10. \A x \in Clusters :
           x \notin R(i_data_map[f]) \cup R(i_data_map'[f]) => fat'[x] = fat[x]
  BY <1>2, <1>6, <1>8
<1> QED
  BY <1>1, <1>8, <1>9, <1>10, ChainOne

\* Switching the machine off and on: every map and every size is found again.
LEMMA PowerKeepsFiles ==
  ASSUME TableInv, PageInv, ChainInv, power_cycle
  PROVE  \A f \in Files : /\ i_data_map'[f] = i_data_map[f]
                          /\ i_data_map[f] # << >> => i_size'[f] = i_size[f]
<1>1. /\ \A h \in Handles : fp[h] = Closed
      /\ MapIsChain
      /\ \A f \in Files : i_data_map'[f] \in
           (IF entry[f] = Absent THEN {<< >>} ELSE Chain(entry[f].first))
      /\ i_size' = [f \in Files |-> IF entry[f] = Absent THEN 0 ELSE entry[f].size]
  BY DEF power_cycle
<1> SUFFICES ASSUME NEW f \in Files
             PROVE  /\ i_data_map'[f] = i_data_map[f]
                    /\ i_data_map[f] # << >> => i_size'[f] = i_size[f]
  OBVIOUS
<1>2. CASE entry[f] = Absent /\ i_data_map[f] = << >>
  BY <1>1, <1>2
<1>3. CASE i_data_map[f] # << >> /\ entry[f] = Absent
  BY <1>3, Fat32Assumption DEF TableInv, EntriesOK, EntryRec
<1>4. CASE i_data_map[f] # << >> /\ entry[f] # Absent
  <2> DEFINE m == i_data_map[f]
  <2>1. m \in Seq(Clusters) /\ FileOK(fat, m) /\ entry[f].first = m[1] /\ MapOK(fat, m)
    BY <1>4 DEF TableInv, Types, OwnedOK, EntriesOK, ChainInv, Present
  <2>2. Reach(m[1]) = R(m)
    BY <1>1, <1>4 DEF MapIsChain, Present, R, i_blocks
  <2>3. i_data_map'[f] \in Chain(m[1])
    BY <1>1, <1>4, <2>1
  <2>4. ~HeldDirty(fp, f)
    BY <1>1 DEF HeldDirty
  <2>5. entry[f].size = i_size[f]
    BY <2>4, <1>4 DEF PageInv, DirtOK
  <2>6. i_size'[f] = i_size[f]
    BY <2>5, <1>1, <1>4
  <2>7. PICK s : s = i_data_map'[f]
    OBVIOUS
  <2> m # << >>
    BY <1>4
  <2> HIDE DEF m
  <2>8. ~Broken(fat, m)
    BY <2>1, <2>2, BrokenIsShort
  <2>9. Linear(fat, m)
    BY <2>1, <2>8 DEF MapOK
  <2>10. s = m
    BY <2>1, <2>3, <2>7, <2>9, ChainIsMap
  <2> QED
    BY <2>6, <2>7, <2>10 DEF m
<1>5. CASE i_data_map[f] = << >> /\ entry[f] # Absent
  BY <1>5 DEF TableInv, EntriesOK
<1> QED
  BY <1>2, <1>3, <1>4, <1>5

LEMMA PowerKeepsMaps ==
  ASSUME TableInv, TableInv', PageInv, ChainInv, power_cycle
  PROVE  i_data_map' = i_data_map
<1>1. i_data_map \in [Files -> Seq(Clusters)] /\ i_data_map' \in [Files -> Seq(Clusters)]
  BY DEF TableInv, Types
<1> QED
  BY <1>1, PowerKeepsFiles

LEMMA ChainStep ==
  TableInv /\ TableInv' /\ PageInv /\ ChainInv /\ [Next]_vars => ChainInv'
<1> SUFFICES ASSUME TableInv, TableInv', PageInv, ChainInv, [Next]_vars PROVE ChainInv'
  OBVIOUS
<1>1. CASE UNCHANGED vars
  BY <1>1, ChainSame DEF vars, cardVars
<1>2. ASSUME NEW h \in Handles, NEW f \in Files, NEW m \in Modes,
             create_dentry(h, f, m) \/ fs_open(h, f, m)
      PROVE  ChainInv'
  <2>1. fs_open(h, f, m) => UNCHANGED <<fat, i_data_map>>
    BY DEF fs_open, cardVars
  <2> QED
    BY <1>2, <2>1, ChainCreate, ChainSame
<1>3. ASSUME NEW h \in Handles, NEW f \in Files, clear(h, f) PROVE ChainInv'
  BY <1>3, ChainClear
<1>4. ASSUME NEW h \in Handles, NEW n \in Lens, fs_read(h, n) PROVE ChainInv'
  BY <1>4, ChainSame DEF fs_read, cardVars
<1>5. ASSUME NEW h \in Handles, NEW n \in Lens, NEW b,
             fs_write(h, n, b) \/ fs_write_expands(h, n, b)
      PROVE  ChainInv'
  <2>1. fs_write(h, n, b) => UNCHANGED <<fat, i_data_map>>
    BY WriteKeepsMaps DEF cardVars
  <2> QED
    BY <1>5, <2>1, ChainSame, ChainExpands
<1>6. ASSUME NEW h \in Handles, NEW flag \in {"HEAD", "TAIL", "CUR"},
             NEW o \in Offsets, fs_seek(h, flag, o)
      PROVE  ChainInv'
  BY <1>6, ChainSame DEF fs_seek, cardVars
<1>7. ASSUME NEW h \in Handles, fs_delete(h) PROVE ChainInv'
  BY <1>7, ChainDelete
<1>8. ASSUME NEW h \in Handles, fs_close(h) \/ fs_close_deleted(h) PROVE ChainInv'
  BY <1>8, ChainSame DEF fs_close, fs_close_deleted, cardVars
<1>9. CASE power_cycle
  <2>1. UNCHANGED fat
    BY <1>9 DEF power_cycle, cardVars
  <2> QED
    BY <1>9, <2>1, PowerKeepsMaps, ChainSame
<1>10. CASE Leaves
  BY <1>10, LeavesFiles, ChainSame
<1> QED
  BY <1>1, <1>2, <1>3, <1>4, <1>5, <1>6, <1>7, <1>8, <1>9, <1>10 DEF Next, Leaves

\* In every reachable state the map of a file is its chain on the card, or the
\* chain has lost a cluster that no link of the file leads to.
THEOREM ChainInvariant == Spec => []ChainInv
<1>1. Init => ChainInv
  BY DEF Init, ChainInv, Present
<1> QED
  BY <1>1, ChainStep, TableInvariant, PageInvariant, PTL DEF Spec

-----------------------------------------------------------------------------
(* Positions, blocks and offsets.                                          *)

LEMMA SizeType == BlockSize \in Nat /\ BlockSize > 0
  BY Fat32Assumption

LEMMA Factor ==
  ASSUME NEW p \in Int, NEW q \in Int, NEW a \in Nat, p <= q
  PROVE  p * a <= q * a
  BY SMT

LEMMA Distribute ==
  ASSUME NEW p \in Int, NEW q \in Int, NEW a \in Nat
  PROVE  /\ p * a \in Int /\ (p + q) * a = p * a + q * a
         /\ (p + 1) * a = p * a + a /\ (p - 1) * a = p * a - a
  BY SMT

LEMMA DivFloor ==
  ASSUME NEW n \in Int, NEW a \in Nat, a > 0
  PROVE  /\ n \div a \in Int /\ (n \div a) * a <= n /\ n < (n \div a) * a + a
         /\ n % a = n - (n \div a) * a
  BY SMT

\* k blocks are what a file of n bytes needs; a file has at least one.
Fits(k, n) == k >= 1 /\ n <= k * BlockSize /\ (k = 1 \/ (k - 1) * BlockSize < n)

LEMMA BlocksBound ==
  ASSUME NEW n \in Int
  PROVE  /\ Blocks(n) \in Int
         /\ (Blocks(n) - 1) * BlockSize < n
         /\ n <= Blocks(n) * BlockSize
<1> DEFINE a == BlockSize
           v == n + a - 1
           k == v \div a
<1>1. a \in Nat /\ a > 0
  BY SizeType
<1> HIDE DEF a
<1>2. v \in Int
  BY <1>1
<1> HIDE DEF v
<1>3. k \in Int /\ k * a <= v /\ v < k * a + a
  BY <1>1, <1>2, DivFloor
<1>4. Blocks(n) = k
  BY DEF Blocks, k, v, a
<1> HIDE DEF k
<1>5. k * a \in Int /\ (k - 1) * a = k * a - a
  BY <1>1, <1>3, Distribute
<1>6. k * a - a < n /\ n <= k * a
  BY <1>1, <1>3, <1>5 DEF v
<1> QED
  BY <1>3, <1>4, <1>5, <1>6 DEF a

LEMMA FitsIsMonotone ==
  ASSUME NEW k \in Int, NEW l \in Int, NEW n \in Int, NEW p \in Int,
         Fits(k, n), Fits(l, p), n <= p
  PROVE  k <= l
<1> SUFFICES ASSUME k > l PROVE FALSE
  OBVIOUS
<1>1. k # 1 /\ l <= k - 1
  BY DEF Fits
<1>2. l * BlockSize <= (k - 1) * BlockSize
  BY <1>1, SizeType, Factor
<1>3. l * BlockSize \in Int /\ (k - 1) * BlockSize \in Int
  BY SizeType
<1>4. (k - 1) * BlockSize < n /\ p <= l * BlockSize
  BY <1>1 DEF Fits
<1> QED
  BY <1>2, <1>3, <1>4

LEMMA FitsOnce ==
  ASSUME NEW k \in Int, NEW l \in Int, NEW n \in Int, Fits(k, n), Fits(l, n)
  PROVE  k = l
<1>1. k <= l /\ l <= k
  BY FitsIsMonotone
<1> QED
  BY <1>1

LEMMA BlocksFit ==
  ASSUME NEW n \in Nat
  PROVE  Max2(1, Blocks(n)) \in Int /\ Fits(Max2(1, Blocks(n)), n)
<1> DEFINE w == Blocks(n)
<1>1. w \in Int /\ (w - 1) * BlockSize < n /\ n <= w * BlockSize
  BY BlocksBound
<1> HIDE DEF w
<1>2. CASE w >= 1
  <2>1. Max2(1, w) = w
    BY <1>1, <1>2 DEF Max2
  <2> QED
    BY <2>1, <1>1, <1>2 DEF Fits, w
<1>3. CASE ~(w >= 1)
  <2>1. Max2(1, w) = 1 /\ w <= 1
    BY <1>1, <1>3 DEF Max2
  <2>2. w * BlockSize <= 1 * BlockSize
    BY <1>1, <2>1, SizeType, Factor
  <2>3. w * BlockSize \in Int /\ 1 * BlockSize \in Int
    BY <1>1, SizeType
  <2>4. n <= 1 * BlockSize
    BY <1>1, <2>2, <2>3
  <2> QED
    BY <2>1, <2>4 DEF Fits, w
<1> QED
  BY <1>2, <1>3

\* k blocks fit n bytes and w more blocks the rest up to p.
LEMMA FitsMore ==
  ASSUME NEW k \in Nat, NEW p \in Int, k >= 1,
         Blocks(p - k * BlockSize) > 0
  PROVE  /\ Fits(k + Blocks(p - k * BlockSize), p) /\ p > k * BlockSize
<1> DEFINE a == BlockSize
           X == k * a
           d == p - X
           w == Blocks(d)
           Y == (w - 1) * a
<1>1. a \in Nat /\ a > 0 /\ X \in Int
  BY SizeType
<1> HIDE DEF X
<1>2. d \in Int
  BY <1>1
<1> HIDE DEF d
<1>3. w \in Int /\ (w - 1) * a < d /\ d <= w * a
  BY <1>2, BlocksBound
<1>4. w > 0
  BY DEF d, X
<1> HIDE DEF a, w
<1>5. Y \in Int /\ w * a = Y + a /\ (k + w) * a = X + w * a /\ ((k + w) - 1) * a = X + Y
  <2>1. w - 1 \in Int /\ (w - 1) + 1 = w /\ (k + w) - 1 = k + (w - 1) /\ k \in Int
    BY <1>3
  <2> QED
    BY <2>1, <1>1, <1>3, Distribute DEF X
<1>6. Y >= 0
  <2>1. 0 <= w - 1
    BY <1>3, <1>4
  <2>2. 0 * a <= (w - 1) * a
    BY <2>1, <1>1, <1>3, Factor
  <2> QED
    BY <2>2, <1>1
<1> HIDE DEF Y
<1>7. p = X + d /\ p > X /\ p <= X + w * a /\ X + Y < p /\ w * a \in Int
  BY <1>1, <1>2, <1>3, <1>5, <1>6 DEF d, Y
<1>8. k + w >= 1 /\ p <= (k + w) * a /\ ((k + w) - 1) * a < p
  BY <1>3, <1>4, <1>5, <1>7
<1>9. k + w >= 1 /\ p <= (k + w) * BlockSize /\ ((k + w) - 1) * BlockSize < p /\ p > X
  BY <1>7, <1>8 DEF a
<1>10. \A x : x >= 1 /\ p <= x * BlockSize /\ (x - 1) * BlockSize < p => Fits(x, p)
  BY Zenon DEF Fits
<1>11. Fits(k + w, p)
  BY <1>9, <1>10, Zenon
<1> QED
  BY <1>9, <1>11 DEF w, d, X, a

\* n bytes on from offset o of block k: the copy loops of fs_read and fs_write.
LEMMA CopyMoves ==
  ASSUME NEW k \in Int, k >= 1, NEW o \in 0 .. BlockSize, NEW n \in Nat, n > 0
  PROVE  LET p == (k - 1) * BlockSize + o
             k2 == MapAfter(k, o, n)
             o2 == OffAfter(k, o, n)
         IN /\ p \in Nat /\ k2 \in Int /\ k2 >= k /\ o2 \in 0 .. BlockSize
            /\ p + n = (k2 - 1) * BlockSize + o2 /\ Fits(k2, p + n)
<1> DEFINE a == BlockSize
           X == (k - 1) * a
           d == o + n
           w == Blocks(d)
           Y == (w - 1) * a
           k2 == MapAfter(k, o, n)
           o2 == OffAfter(k, o, n)
<1>1. a \in Nat /\ a > 0 /\ o \in Nat /\ o <= a
  BY SizeType
<1>2. d \in Nat /\ d > 0
  BY <1>1
<1> HIDE DEF d
<1>3. w \in Int /\ (w - 1) * a < d /\ d <= w * a
  BY <1>2, BlocksBound
<1> HIDE DEF a
<1>4. w >= 1
  <2> SUFFICES ASSUME w <= 0 PROVE FALSE
    BY <1>3
  <2>1. w * a <= 0 * a
    BY <1>1, <1>3, Factor
  <2>2. w * a <= 0 /\ w * a \in Int
    BY <2>1, <1>1, <1>3
  <2> QED
    BY <2>2, <1>2, <1>3
<1>5. k2 = k + (w - 1)
  <2>1. Max2(0, Blocks(o + n) - 1) = w - 1
    BY <1>3, <1>4 DEF Max2, w, d
  <2> QED
    BY <2>1 DEF MapAfter
<1>6. o2 = o + n - (k2 - k) * a
  BY DEF OffAfter, a
<1> HIDE DEF w, k2, o2
<1>7. k2 - k = w - 1 /\ k2 - 1 = (k - 1) + (w - 1) /\ k2 \in Int /\ k2 >= k
  BY <1>3, <1>4, <1>5
<1>8. X \in Int /\ Y \in Int /\ w * a = Y + a /\ (k2 - 1) * a = X + Y
      /\ k2 * a = X + Y + a /\ (k2 - k) * a = Y
  <2>1. (w - 1) + 1 = w /\ w - 1 \in Int /\ k - 1 \in Int /\ (k2 - 1) + 1 = k2 /\ k2 - 1 \in Int
    BY <1>3, <1>7
  <2>2. X \in Int /\ Y \in Int /\ w * a = Y + a
    BY <2>1, <1>1, Distribute
  <2>3. (k2 - 1) * a = X + Y
    BY <2>1, <1>1, <1>7, Distribute
  <2>4. k2 * a = (k2 - 1) * a + a
    BY <2>1, <1>1, Distribute
  <2> QED
    BY <2>2, <2>3, <2>4, <1>7
<1>9. X >= 0
  <2>1. 0 * a <= (k - 1) * a
    BY <1>1, Factor
  <2> QED
    BY <2>1, <1>1
<1> DEFINE p == X + o
<1> HIDE DEF X, Y
<1>10. o2 = d - Y /\ Y < d /\ d <= Y + a
  BY <1>1, <1>2, <1>3, <1>6, <1>8 DEF d, Y
<1>11. p \in Nat /\ p + n = X + d /\ o2 \in 0 .. a
  BY <1>1, <1>2, <1>8, <1>9, <1>10 DEF d
<1>12. p + n = (k2 - 1) * a + o2 /\ (k2 - 1) * a < p + n /\ p + n <= k2 * a
  BY <1>1, <1>2, <1>8, <1>10, <1>11
<1>13. Fits(k2, p + n)
  BY <1>7, <1>12 DEF Fits, a
<1> QED
  BY <1>7, <1>11, <1>12, <1>13 DEF X, a, k2, o2

-----------------------------------------------------------------------------
(* Handles.                                                                *)

\* Handle r is a cursor of a file of z bytes in k blocks.
HandleOK(r, z, k) ==
  /\ r.f_pos = (r.f_cur_map - 1) * BlockSize + r.f_cur_off
  /\ r.f_pos <= r.f_size /\ r.f_size = z
  /\ r.f_cur_map \in 1 .. k /\ r.f_cur_off \in 0 .. BlockSize

CursorInv ==
  /\ \A f \in Files : i_data_map[f] # << >> =>
       i_size[f] \in Nat /\ Fits(Len(i_data_map[f]), i_size[f])
  /\ \A h \in Handles : fp[h] \notin {Closed, Deleted} =>
       HandleOK(fp[h], i_size[fp[h].file], Len(i_data_map[fp[h].file]))

\* The handle dentry_open_file builds is a cursor of the file.
LEMMA OpenedCursor ==
  ASSUME NEW f, NEW m, NEW n \in Nat, NEW k \in Nat, Fits(k, n)
  PROVE  HandleOK(dentry_open_file(f, m, n, k), n, k)
<1> DEFINE r == dentry_open_file(f, m, n, k)
           a == BlockSize
           X == (k - 1) * a
<1>1. a \in Nat /\ a > 0 /\ k >= 1 /\ k \in Int
  BY SizeType DEF Fits
<1>2. X \in Int /\ k * a = X + a /\ (k = 1 => X = 0)
  <2>1. X = k * a - a /\ k * a \in Int
    BY <1>1, Distribute
  <2>2. k = 1 => k * a = a
    BY <1>1
  <2> QED
    BY <2>1, <2>2, <1>1
<1>3. n <= X + a /\ X <= n
  <2>1. n <= k * a /\ (k = 1 \/ X < n)
    BY DEF Fits
  <2> QED
    BY <2>1, <1>2
<1>4. CASE m = "APPEND"
  <2>1. /\ r.f_pos = n /\ r.f_cur_map = k /\ r.f_size = n
        /\ r.f_cur_off = a - (k * a - n)
    BY <1>4 DEF dentry_open_file
  <2> HIDE DEF X, r
  <2>2. r.f_cur_off = n - X /\ r.f_cur_off \in 0 .. a /\ n = X + r.f_cur_off
    <3> DEFINE y == r.f_cur_off
               z == k * a
    <3>1. y = a - (z - n) /\ z = X + a
      BY <2>1, <1>2
    <3> HIDE DEF y, z, a
    <3>2. y = n - X /\ y \in 0 .. a /\ n = X + y
      BY <3>1, <1>1, <1>2, <1>3
    <3> QED
      BY <3>2 DEF y
  <2> QED
    BY <2>1, <2>2, <1>1 DEF HandleOK, r, X
<1>5. CASE m # "APPEND"
  <2>1. /\ r.f_pos = 0 /\ r.f_cur_map = 1 /\ r.f_size = n /\ r.f_cur_off = 0
    BY <1>5 DEF dentry_open_file
  <2> HIDE DEF r
  <2>2. 0 = (1 - 1) * BlockSize + 0
    BY <1>1
  <2> QED
    BY <2>1, <2>2, <1>1 DEF HandleOK, r
<1> QED
  BY <1>4, <1>5

\* One handle and the file it has change, and no other handle has the file.
LEMMA CursorOne ==
  ASSUME Types, CursorInv, NEW h \in Handles, NEW f \in Files, NEW r,
         fp' = [fp EXCEPT ![h] = r],
         \A e \in Files \ {f} : i_data_map'[e] = i_data_map[e] /\ i_size'[e] = i_size[e],
         i_data_map'[f] # << >> =>
           i_size'[f] \in Nat /\ Fits(Len(i_data_map'[f]), i_size'[f]),
         \A k \in Handles : k # h /\ fp[k] \notin {Closed, Deleted} => fp[k].file # f,
         \/ r \in {Closed, Deleted}
         \/ r.file = f /\ HandleOK(r, i_size'[f], Len(i_data_map'[f]))
  PROVE  CursorInv'
<1>1. fp'[h] = r /\ \A k \in Handles \ {h} : fp'[k] = fp[k]
  BY DEF Types
<1>2. \A e \in Files : i_data_map'[e] # << >> =>
        i_size'[e] \in Nat /\ Fits(Len(i_data_map'[e]), i_size'[e])
  BY DEF CursorInv
<1>3. ASSUME NEW k \in Handles, fp'[k] \notin {Closed, Deleted}
      PROVE  HandleOK(fp'[k], i_size'[fp'[k].file], Len(i_data_map'[fp'[k].file]))
  <2>1. CASE k = h
    BY <2>1, <1>1, <1>3
  <2>2. CASE k # h
    <3>1. fp'[k] = fp[k] /\ fp[k] \in HandleRec
      BY <2>2, <1>1, <1>3 DEF Types
    <3>2. fp[k].file \in Files \ {f}
      BY <2>2, <3>1, <1>3 DEF HandleRec
    <3>3. HandleOK(fp[k], i_size[fp[k].file], Len(i_data_map[fp[k].file]))
      BY <3>1, <1>3 DEF CursorInv
    <3> QED
      BY <3>1, <3>2, <3>3
  <2> QED
    BY <2>1, <2>2
<1> QED
  BY <1>2, <1>3 DEF CursorInv

LEMMA CursorOpen ==
  ASSUME TableInv, CursorInv, NEW h \in Handles, NEW f \in Files, NEW m \in Modes,
         fs_open(h, f, m)
  PROVE  CursorInv'
<1> DEFINE r == dentry_open_file(f, m, i_size[f], i_blocks(f))
<1>1. /\ i_data_map[f] # << >> /\ fp' = [fp EXCEPT ![h] = r]
      /\ UNCHANGED <<i_data_map, i_size>>
      /\ \A k \in Handles : fp[k] \notin {Closed, Deleted} => fp[k].file # f
  BY DEF fs_open, NotOpen, Usable, Present
<1>2. /\ i_size[f] \in Nat /\ Len(i_data_map[f]) \in Nat
      /\ Fits(Len(i_data_map[f]), i_size[f])
  BY <1>1 DEF TableInv, Types, CursorInv
<1>3. r.file = f /\ HandleOK(r, i_size[f], Len(i_data_map[f]))
  <2>1. r = dentry_open_file(f, m, i_size[f], Len(i_data_map[f]))
    BY DEF i_blocks
  <2>2. r.file = f
    BY DEF dentry_open_file
  <2> HIDE DEF r
  <2> QED
    BY <2>1, <2>2, <1>2, OpenedCursor
<1> HIDE DEF r
<1>4. /\ HandleOK(r, i_size'[f], Len(i_data_map'[f])) /\ r.file = f /\ Types
      /\ i_size'[f] \in Nat /\ Fits(Len(i_data_map'[f]), i_size'[f])
      /\ \A e \in Files \ {f} : i_data_map'[e] = i_data_map[e] /\ i_size'[e] = i_size[e]
  BY <1>1, <1>2, <1>3 DEF TableInv
<1>5. \A k \in Handles : k # h /\ fp[k] \notin {Closed, Deleted} => fp[k].file # f
  BY <1>1
<1>6. fp' = [fp EXCEPT ![h] = r]
  BY <1>1
<1> QED
  BY <1>4, <1>5, <1>6, CursorOne

\* A file of one block that is empty is opened.
LEMMA FreshCursor ==
  ASSUME NEW f, NEW m
  PROVE  /\ dentry_open_file(f, m, 0, 1).file = f
         /\ \A k, z : k = 1 /\ z = 0 =>
              Fits(k, z) /\ HandleOK(dentry_open_file(f, m, 0, 1), z, k)
<1>1. Fits(1, 0)
  BY SizeType DEF Fits
<1>2. HandleOK(dentry_open_file(f, m, 0, 1), 0, 1)
  BY <1>1, OpenedCursor
<1>3. dentry_open_file(f, m, 0, 1).file = f
  BY DEF dentry_open_file
<1> QED
  BY <1>1, <1>2, <1>3, Zenon

LEMMA CursorCreate ==
  ASSUME TableInv, CursorInv, NEW h \in Handles, NEW f \in Files, NEW m \in Modes,
         create_dentry(h, f, m)
  PROVE  CursorInv'
<1>1. PICK s \in find_free_clu(1) :
        /\ i_data_map' = [i_data_map EXCEPT ![f] = s]
        /\ i_size' = [i_size EXCEPT ![f] = 0]
  BY DEF create_dentry
<1>2. i_data_map[f] = << >> /\ fp' = [fp EXCEPT ![h] = dentry_open_file(f, m, 0, 1)]
  BY DEF create_dentry, Present
<1>3. s \in [1 .. 1 -> Clusters]
  BY <1>1 DEF find_free_clu
<1>4. Len(s) = 1
  BY <1>3, FunctionIsMap
<1>5. Types /\ \A k \in Handles : fp[k] \notin {Closed, Deleted} => fp[k].file # f
  BY <1>2 DEF TableInv, OpenOK
<1>6. /\ \A e \in Files \ {f} : i_data_map'[e] = i_data_map[e] /\ i_size'[e] = i_size[e]
      /\ i_size'[f] = 0 /\ i_data_map'[f] = s
  BY <1>1, <1>5 DEF Types
<1> DEFINE r == dentry_open_file(f, m, 0, 1)
<1>7. r.file = f /\ \A k, z : k = 1 /\ z = 0 => Fits(k, z) /\ HandleOK(r, z, k)
  BY FreshCursor, Zenon
<1> HIDE DEF r
<1>8. /\ HandleOK(r, i_size'[f], Len(i_data_map'[f])) /\ r.file = f
      /\ i_size'[f] \in Nat /\ Fits(Len(i_data_map'[f]), i_size'[f])
  <2>1. Len(i_data_map'[f]) = 1 /\ i_size'[f] = 0
    BY <1>4, <1>6
  <2>2. i_size'[f] \in Nat
    BY <2>1
  <2> QED
    BY <2>1, <2>2, <1>7, Zenon
<1>9. fp' = [fp EXCEPT ![h] = r]
  BY <1>2 DEF r
<1>10. \A k \in Handles : k # h /\ fp[k] \notin {Closed, Deleted} => fp[k].file # f
  BY <1>5
<1>11. \A e \in Files \ {f} : i_data_map'[e] = i_data_map[e] /\ i_size'[e] = i_size[e]
  BY <1>6
<1>12. Types
  BY <1>5
<1> QED
  BY <1>8, <1>9, <1>10, <1>11, <1>12, CursorOne, Zenon

LEMMA CursorClear ==
  ASSUME TableInv, CursorInv, NEW h \in Handles, NEW f \in Files, clear(h, f)
  PROVE  CursorInv'
<1>1. /\ i_data_map' = [i_data_map EXCEPT ![f] = <<i_data_map[f][1]>>]
      /\ i_size' = [i_size EXCEPT ![f] = 0]
      /\ fp' = [fp EXCEPT ![h] = dentry_open_file(f, "WRITE", 0, 1)]
      /\ \A k \in Handles : fp[k] \notin {Closed, Deleted} => fp[k].file # f
  BY DEF clear, NotOpen, Usable
<1>2. Types
  BY DEF TableInv
<1>3. /\ \A e \in Files \ {f} : i_data_map'[e] = i_data_map[e] /\ i_size'[e] = i_size[e]
      /\ i_size'[f] = 0 /\ Len(i_data_map'[f]) = 1
  BY <1>1, <1>2 DEF Types
<1> DEFINE r == dentry_open_file(f, "WRITE", 0, 1)
<1>4. r.file = f /\ \A k, z : k = 1 /\ z = 0 => Fits(k, z) /\ HandleOK(r, z, k)
  BY FreshCursor, Zenon
<1> HIDE DEF r
<1>5. /\ HandleOK(r, i_size'[f], Len(i_data_map'[f])) /\ r.file = f
      /\ i_size'[f] \in Nat /\ Fits(Len(i_data_map'[f]), i_size'[f])
  BY <1>3, <1>4
<1>6. fp' = [fp EXCEPT ![h] = r]
  BY <1>1 DEF r
<1>7. /\ \A e \in Files \ {f} : i_data_map'[e] = i_data_map[e] /\ i_size'[e] = i_size[e]
      /\ \A k \in Handles : k # h /\ fp[k] \notin {Closed, Deleted} => fp[k].file # f
  BY <1>1, <1>3
<1> QED
  BY <1>2, <1>5, <1>6, <1>7, CursorOne

\* A handle that is not used any more.
LEMMA CursorGone ==
  ASSUME Types, CursorInv, NEW h \in Handles, fp' = [fp EXCEPT ![h] = Closed],
         UNCHANGED <<i_data_map, i_size>>
  PROVE  CursorInv'
<1>1. fp'[h] = Closed /\ \A k \in Handles \ {h} : fp'[k] = fp[k]
  BY DEF Types
<1>2. \A k \in Handles : fp'[k] \notin {Closed, Deleted} =>
        fp[k] \notin {Closed, Deleted} /\ fp'[k] = fp[k]
  BY <1>1
<1> QED
  BY <1>2 DEF CursorInv

LEMMA CursorDelete ==
  ASSUME TableInv, CursorInv, NEW h \in Handles, fs_delete(h)
  PROVE  CursorInv'
<1> DEFINE f == fp[h].file
<1>1. /\ Usable(h) /\ i_data_map' = [i_data_map EXCEPT ![f] = << >>]
      /\ i_size' = [i_size EXCEPT ![f] = 0] /\ fp' = [fp EXCEPT ![h] = Deleted]
  BY DEF fs_delete
<1>2. Types /\ f \in Files
  BY <1>1, UsableType DEF TableInv
<1>3. \A k \in Handles : k # h /\ fp[k] \notin {Closed, Deleted} => fp[k].file # f
  BY <1>1 DEF TableInv, OpenOK, Usable
<1> HIDE DEF f
<1>4. /\ \A e \in Files \ {f} : i_data_map'[e] = i_data_map[e] /\ i_size'[e] = i_size[e]
      /\ i_data_map'[f] = << >>
  BY <1>1, <1>2 DEF Types
<1> QED
  BY <1>1, <1>2, <1>3, <1>4, CursorOne

\* What is known of a handle in use, component by component.
LEMMA CursorOf ==
  ASSUME TableInv, CursorInv, NEW h \in Handles, Usable(h)
  PROVE  /\ Types /\ fp[h] \in HandleRec /\ fp[h].file \in Files
         /\ fp[h].mode \in Modes \cup {"WRITE"}
         /\ i_data_map[fp[h].file] \in Seq(Clusters) /\ i_data_map[fp[h].file] # << >>
         /\ i_size[fp[h].file] \in Nat
         /\ Fits(Len(i_data_map[fp[h].file]), i_size[fp[h].file])
         /\ fp[h].f_size = i_size[fp[h].file]
         /\ fp[h].f_cur_map \in 1 .. Len(i_data_map[fp[h].file])
         /\ fp[h].f_cur_off \in 0 .. BlockSize
         /\ fp[h].f_pos = Cursor(h) /\ fp[h].f_pos \in Nat
         /\ fp[h].f_pos <= fp[h].f_size
         /\ \A k \in Handles : k # h /\ fp[k] \notin {Closed, Deleted} =>
              fp[k].file # fp[h].file
<1> DEFINE f == fp[h].file
           k == fp[h].f_cur_map
<1>1. Types /\ fp[h] \in HandleRec /\ f \in Files
  BY UsableType DEF TableInv
<1>2. fp[h].mode \in Modes \cup {"WRITE"}
  BY <1>1 DEF HandleRec
<1>3. i_data_map[f] \in Seq(Clusters) /\ i_data_map[f] # << >>
  BY <1>1 DEF TableInv, Types, OpenOK, Usable
<1>4. i_size[f] \in Nat /\ Fits(Len(i_data_map[f]), i_size[f])
  BY <1>1, <1>3 DEF CursorInv
<1>5. HandleOK(fp[h], i_size[f], Len(i_data_map[f]))
  BY DEF CursorInv, Usable
<1>6. fp[h].f_pos \in Nat /\ fp[h].f_pos = Cursor(h)
  <2>1. fp[h].f_pos = (k - 1) * BlockSize + fp[h].f_cur_off
        /\ k \in 1 .. Len(i_data_map[f]) /\ fp[h].f_cur_off \in 0 .. BlockSize
    BY <1>5 DEF HandleOK
  <2>2. BlockSize \in Nat /\ Len(i_data_map[f]) \in Nat
    BY SizeType, <1>3
  <2>3. k \in Int /\ k - 1 \in Int /\ 0 <= k - 1 /\ fp[h].f_cur_off \in Nat
    BY <2>1, <2>2
  <2> HIDE DEF k, f
  <2>4. 0 * BlockSize <= (k - 1) * BlockSize
    BY <2>2, <2>3, Factor
  <2>5. (k - 1) * BlockSize \in Int /\ 0 * BlockSize = 0
    BY <2>2, <2>3
  <2>6. (k - 1) * BlockSize + fp[h].f_cur_off \in Nat
    BY <2>3, <2>4, <2>5
  <2> QED
    BY <2>1, <2>6 DEF Cursor, k
<1>7. \A j \in Handles : j # h /\ fp[j] \notin {Closed, Deleted} => fp[j].file # f
  BY DEF TableInv, OpenOK, Usable
<1> QED
  BY <1>1, <1>2, <1>3, <1>4, <1>5, <1>6, <1>7 DEF HandleOK

\* The handle after n bytes.
LEMMA MovedHandle ==
  ASSUME TableInv, CursorInv, NEW h \in Handles, Usable(h), NEW n \in Nat, n > 0
  PROVE  /\ Moved(h, n) \in HandleRec
         /\ Moved(h, n).file = fp[h].file /\ Moved(h, n).mode = fp[h].mode
         /\ Moved(h, n).f_size = fp[h].f_size
         /\ Moved(h, n).f_pos = fp[h].f_pos + n
         /\ Moved(h, n).f_cur_map \in Int /\ Moved(h, n).f_cur_map >= fp[h].f_cur_map
         /\ Moved(h, n).f_cur_off \in 0 .. BlockSize
         /\ fp[h].f_pos + n = (Moved(h, n).f_cur_map - 1) * BlockSize + Moved(h, n).f_cur_off
         /\ Fits(Moved(h, n).f_cur_map, fp[h].f_pos + n)
<1> DEFINE k == fp[h].f_cur_map
           o == fp[h].f_cur_off
           k2 == MapAfter(k, o, n)
           o2 == OffAfter(k, o, n)
<1>1. /\ fp[h] \in HandleRec /\ k \in 1 .. Len(i_data_map[fp[h].file])
      /\ o \in 0 .. BlockSize /\ fp[h].f_pos = Cursor(h) /\ Types
      /\ i_data_map[fp[h].file] \in Seq(Clusters)
  BY CursorOf
<1>2. k \in Int /\ k >= 1
  BY <1>1
<1>3. fp[h].f_pos = (k - 1) * BlockSize + o
  BY <1>1 DEF Cursor
<1>4. Moved(h, n) = [fp[h] EXCEPT !.f_pos = @ + n, !.f_cur_map = k2, !.f_cur_off = o2]
  BY DEF Moved
<1>5. Moved(h, n) \in HandleRec /\ Moved(h, n).file = fp[h].file
  <2>1. n \in Int
    OBVIOUS
  <2> QED
    BY <1>1, <2>1, MovedType
<1> HIDE DEF k, o
<1>6. /\ (k - 1) * BlockSize + o \in Nat /\ k2 \in Int /\ k2 >= k /\ o2 \in 0 .. BlockSize
      /\ (k - 1) * BlockSize + o + n = (k2 - 1) * BlockSize + o2
      /\ Fits(k2, (k - 1) * BlockSize + o + n)
  BY <1>1, <1>2, CopyMoves
<1> HIDE DEF k2, o2
<1>7. /\ Moved(h, n).f_pos = fp[h].f_pos + n /\ Moved(h, n).f_cur_map = k2
      /\ Moved(h, n).f_cur_off = o2 /\ Moved(h, n).mode = fp[h].mode
      /\ Moved(h, n).f_size = fp[h].f_size
  BY <1>1, <1>4 DEF HandleRec
<1>8. fp[h].f_pos + n = (k2 - 1) * BlockSize + o2 /\ Fits(k2, fp[h].f_pos + n)
  BY <1>3, <1>6
<1> QED
  BY <1>5, <1>6, <1>7, <1>8 DEF k

LEMMA CursorRead ==
  ASSUME TableInv, CursorInv, NEW h \in Handles, NEW n \in Lens, fs_read(h, n)
  PROVE  CursorInv'
<1> DEFINE f == fp[h].file
           r == Moved(h, n)
           k2 == r.f_cur_map
<1>1. /\ Usable(h) /\ fp[h].f_pos + n <= fp[h].f_size /\ n \in Nat /\ n > 0
      /\ fp' = [fp EXCEPT ![h] = r] /\ UNCHANGED <<i_data_map, i_size>>
  BY Fat32Assumption DEF fs_read
<1>2. /\ Types /\ f \in Files /\ i_data_map[f] \in Seq(Clusters)
      /\ i_size[f] \in Nat /\ Fits(Len(i_data_map[f]), i_size[f])
      /\ fp[h].f_size = i_size[f] /\ fp[h].f_pos \in Nat
      /\ \A k \in Handles : k # h /\ fp[k] \notin {Closed, Deleted} => fp[k].file # f
  BY <1>1, CursorOf
<1>3. /\ r.file = f /\ r.f_size = fp[h].f_size /\ r.f_pos = fp[h].f_pos + n
      /\ k2 \in Int /\ r.f_cur_off \in 0 .. BlockSize
      /\ fp[h].f_pos + n = (k2 - 1) * BlockSize + r.f_cur_off
      /\ Fits(k2, fp[h].f_pos + n)
  BY <1>1, MovedHandle
<1>4. k2 <= Len(i_data_map[f])
  <2>1. fp[h].f_pos + n \in Int /\ Len(i_data_map[f]) \in Int /\ i_size[f] \in Int
    BY <1>1, <1>2
  <2>2. fp[h].f_pos + n <= i_size[f]
    BY <1>1, <1>2
  <2> QED
    BY <2>1, <2>2, <1>2, <1>3, FitsIsMonotone
<1>5. k2 \in 1 .. Len(i_data_map[f])
  BY <1>2, <1>3, <1>4 DEF Fits
<1>6. HandleOK(r, i_size[f], Len(i_data_map[f]))
  BY <1>1, <1>2, <1>3, <1>5 DEF HandleOK
<1> HIDE DEF r
<1> QED
  BY <1>1, <1>2, <1>3, <1>6, CursorOne

LEMMA CursorSeek ==
  ASSUME TableInv, CursorInv, NEW h \in Handles, NEW flag \in {"HEAD", "TAIL", "CUR"},
         NEW off \in Offsets, fs_seek(h, flag, off)
  PROVE  /\ CursorInv'
         /\ \E r \in HandleRec :
              /\ fp' = [fp EXCEPT ![h] = r]
              /\ r.file = fp[h].file /\ r.mode = fp[h].mode
              /\ r.f_pos = SeekTo(h, flag, off) /\ r.f_pos \in 0 .. i_size[fp[h].file]
              /\ fp[h].f_size = i_size[fp[h].file]
<1> DEFINE f == fp[h].file
           pos == SeekTo(h, flag, off)
           k == Max2(1, Blocks(pos))
           o == pos - (k - 1) * BlockSize
           r == [fp[h] EXCEPT !.f_pos = pos, !.f_cur_map = k, !.f_cur_off = o]
<1>1. /\ Usable(h) /\ off \in Int /\ UNCHANGED <<i_data_map, i_size>>
      /\ fp' = [fp EXCEPT ![h].f_pos = pos, ![h].f_cur_map = k, ![h].f_cur_off = o]
  BY Fat32Assumption DEF fs_seek
<1>2. /\ Types /\ fp[h] \in HandleRec /\ f \in Files /\ i_data_map[f] \in Seq(Clusters)
      /\ i_size[f] \in Nat /\ Fits(Len(i_data_map[f]), i_size[f])
      /\ fp[h].f_size = i_size[f] /\ fp[h].f_pos \in Nat
      /\ \A j \in Handles : j # h /\ fp[j] \notin {Closed, Deleted} => fp[j].file # f
  BY <1>1, CursorOf
<1>3. pos \in 0 .. fp[h].f_size
  BY <1>1, <1>2 DEF SeekTo
<1> HIDE DEF pos
<1>4. pos \in Nat /\ pos <= i_size[f] /\ pos \in Int
  BY <1>2, <1>3
<1>5. k \in Int /\ Fits(k, pos)
  BY <1>4, BlocksFit
<1> HIDE DEF k
<1>6. k \in 1 .. Len(i_data_map[f])
  <2>1. Len(i_data_map[f]) \in Int /\ i_size[f] \in Int
    BY <1>2
  <2>2. k <= Len(i_data_map[f])
    BY <2>1, <1>2, <1>4, <1>5, FitsIsMonotone
  <2> QED
    BY <2>1, <2>2, <1>5 DEF Fits
<1>7. o \in 0 .. BlockSize /\ pos = (k - 1) * BlockSize + o
  <2> DEFINE a == BlockSize
             X == (k - 1) * a
             Y == k * a
  <2>1. a \in Nat /\ a > 0
    BY SizeType
  <2>2. X \in Int /\ Y = X + a /\ (k = 1 => X = 0)
    <3>1. X = Y - a /\ Y \in Int
      BY <1>5, <2>1, Distribute
    <3>2. k = 1 => Y = a
      BY <2>1
    <3> QED
      BY <3>1, <3>2, <2>1
  <2>3. pos <= Y /\ (k = 1 \/ X < pos)
    BY <1>5 DEF Fits
  <2>4. o = pos - X
    OBVIOUS
  <2> HIDE DEF a, X, Y, o
  <2>5. o \in 0 .. a /\ pos = X + o
    BY <2>1, <2>2, <2>3, <2>4, <1>4
  <2> QED
    BY <2>5 DEF X, a
<1> HIDE DEF o
<1>8. fp' = [fp EXCEPT ![h] = r]
  BY <1>1, <1>2 DEF Types
<1>9. /\ r.file = f /\ r.mode = fp[h].mode /\ r.f_pos = pos /\ r.f_cur_map = k /\ r.f_cur_off = o
      /\ r.f_size = fp[h].f_size
  BY <1>2 DEF HandleRec
<1>10. r \in HandleRec
  <2>1. o \in Int
    BY <1>7, SizeType
  <2> QED
    BY <2>1, <1>2, <1>4, <1>5 DEF HandleRec
<1> HIDE DEF r
<1>11. HandleOK(r, i_size[f], Len(i_data_map[f]))
  BY <1>2, <1>4, <1>6, <1>7, <1>9 DEF HandleOK
<1>12. CursorInv'
  <2>1. /\ HandleOK(r, i_size'[f], Len(i_data_map'[f])) /\ r.file = f
        /\ i_size'[f] \in Nat /\ Fits(Len(i_data_map'[f]), i_size'[f])
        /\ \A e \in Files \ {f} : i_data_map'[e] = i_data_map[e] /\ i_size'[e] = i_size[e]
    BY <1>1, <1>2, <1>9, <1>11
  <2> HIDE DEF f
  <2> QED
    BY <2>1, <1>2, <1>8, CursorOne
<1>13. r.f_pos = SeekTo(h, flag, off) /\ r.f_pos \in 0 .. i_size[f]
  BY <1>2, <1>4, <1>9 DEF pos
<1> QED
  BY <1>2, <1>8, <1>9, <1>10, <1>12, <1>13

\* What Put does to the sizes, the maps and the handle, part by part.
LEMMA PutParts ==
  ASSUME TableInv, CursorInv, NEW h \in Handles, Usable(h), NEW n \in Nat, n > 0,
         NEW m, NEW b, Put(h, m, n, b)
  PROVE  LET f == fp[h].file
             p == fp[h].f_pos + n
             z == Max2(i_size[f], p)
         IN /\ p \in Nat /\ z \in Nat /\ p <= z /\ i_size[f] <= z /\ z \in {p, i_size[f]}
            /\ i_data_map'[f] = m /\ i_size'[f] = z
            /\ \A e \in Files \ {f} : i_data_map'[e] = i_data_map[e] /\ i_size'[e] = i_size[e]
            /\ \E r \in HandleRec :
                 /\ fp' = [fp EXCEPT ![h] = r]
                 /\ r.file = f /\ r.mode = fp[h].mode /\ r.f_pos = p /\ r.f_size = z
                 /\ r.f_cur_map = Moved(h, n).f_cur_map
                 /\ r.f_cur_off = Moved(h, n).f_cur_off
<1> DEFINE f == fp[h].file
           p == fp[h].f_pos + n
           z == Max2(i_size[f], p)
           size == Max2(fp[h].f_size, p)
           r == [Moved(h, n) EXCEPT !.f_size = size, !.f_dirt = TRUE]
<1>1. /\ i_data_map' = [i_data_map EXCEPT ![f] = m]
      /\ i_size' = [i_size EXCEPT ![f] = IF size > fp[h].f_size THEN size ELSE @]
      /\ fp' = [fp EXCEPT ![h] = r]
  BY DEF Put
<1>2. /\ Types /\ f \in Files /\ i_size[f] \in Nat /\ fp[h].f_size = i_size[f]
      /\ fp[h].f_pos \in Nat
  BY CursorOf
<1>3. /\ Moved(h, n) \in HandleRec /\ Moved(h, n).file = f /\ Moved(h, n).mode = fp[h].mode
      /\ Moved(h, n).f_pos = p
  BY MovedHandle
<1>4. p \in Nat
  BY <1>2
<1>5. size = z
  BY <1>2
<1> HIDE DEF p, f
<1>6. z \in Nat /\ p <= z /\ i_size[f] <= z /\ z \in {p, i_size[f]}
  BY <1>2, <1>4 DEF Max2
<1>7. i_size' = [i_size EXCEPT ![f] = IF z > i_size[f] THEN z ELSE i_size[f]]
  BY <1>1, <1>2, <1>5
<1>8. r = [Moved(h, n) EXCEPT !.f_size = z, !.f_dirt = TRUE]
  BY <1>5
<1> HIDE DEF z, r, size
<1>9. (IF z > i_size[f] THEN z ELSE i_size[f]) = z
  BY <1>2, <1>6
<1>10. /\ i_data_map'[f] = m /\ i_size'[f] = z
       /\ \A e \in Files \ {f} : i_data_map'[e] = i_data_map[e] /\ i_size'[e] = i_size[e]
  BY <1>1, <1>2, <1>7, <1>9 DEF Types
<1>11. /\ r \in HandleRec /\ r.file = f /\ r.mode = fp[h].mode /\ r.f_pos = p /\ r.f_size = z
       /\ r.f_cur_map = Moved(h, n).f_cur_map /\ r.f_cur_off = Moved(h, n).f_cur_off
  <2>1. PICK v \in HandleRec : v = Moved(h, n)
    BY <1>3
  <2>2. z \in Int
    BY <1>6
  <2>3. r = [v EXCEPT !.f_size = z, !.f_dirt = TRUE]
    BY <1>8, <2>1
  <2>4. /\ r \in HandleRec /\ r.file = v.file /\ r.mode = v.mode /\ r.f_pos = v.f_pos
        /\ r.f_size = z /\ r.f_cur_map = v.f_cur_map /\ r.f_cur_off = v.f_cur_off
    BY <2>2, <2>3 DEF HandleRec
  <2> QED
    BY <1>3, <2>1, <2>4
<1> QED
  BY <1>1, <1>4, <1>6, <1>10, <1>11 DEF p, f, z

\* A write into a map that is long enough and no longer than needed.
LEMMA CursorPut ==
  ASSUME TableInv, CursorInv, NEW h \in Handles, Usable(h), NEW n \in Nat, n > 0,
         NEW m \in Seq(Clusters), NEW b, Put(h, m, n, b),
         Fits(Len(m), Max2(i_size[fp[h].file], fp[h].f_pos + n))
  PROVE  CursorInv' /\ Moved(h, n).f_cur_map \in 1 .. Len(m)
<1> DEFINE f == fp[h].file
           p == fp[h].f_pos + n
           z == Max2(i_size[f], p)
           k2 == Moved(h, n).f_cur_map
           o2 == Moved(h, n).f_cur_off
<1>1. /\ p \in Nat /\ z \in Nat /\ p <= z
      /\ i_data_map'[f] = m /\ i_size'[f] = z
      /\ \A e \in Files \ {f} : i_data_map'[e] = i_data_map[e] /\ i_size'[e] = i_size[e]
      /\ \E r \in HandleRec :
           /\ fp' = [fp EXCEPT ![h] = r]
           /\ r.file = f /\ r.mode = fp[h].mode /\ r.f_pos = p /\ r.f_size = z
           /\ r.f_cur_map = k2 /\ r.f_cur_off = o2
  BY PutParts
<1>2. PICK r \in HandleRec :
           /\ fp' = [fp EXCEPT ![h] = r]
           /\ r.file = f /\ r.mode = fp[h].mode /\ r.f_pos = p /\ r.f_size = z
           /\ r.f_cur_map = k2 /\ r.f_cur_off = o2
  BY <1>1
<1>3. /\ Types /\ f \in Files
      /\ \A k \in Handles : k # h /\ fp[k] \notin {Closed, Deleted} => fp[k].file # f
  BY CursorOf
<1>4. /\ k2 \in Int /\ o2 \in 0 .. BlockSize /\ p = (k2 - 1) * BlockSize + o2
      /\ Fits(k2, p)
  BY MovedHandle
<1>5. Fits(Len(m), z) /\ Len(m) \in Nat
  OBVIOUS
<1> HIDE DEF f, p, z, k2, o2
<1>6. k2 <= Len(m)
  <2>1. Len(m) \in Int /\ p \in Int /\ z \in Int
    BY <1>1, <1>5
  <2> QED
    BY <2>1, <1>1, <1>4, <1>5, FitsIsMonotone
<1>7. k2 \in 1 .. Len(m)
  BY <1>4, <1>5, <1>6 DEF Fits
<1>8. HandleOK(r, z, Len(m))
  BY <1>1, <1>2, <1>4, <1>7 DEF HandleOK
<1>9. /\ HandleOK(r, i_size'[f], Len(i_data_map'[f])) /\ r.file = f
      /\ i_size'[f] \in Nat /\ Fits(Len(i_data_map'[f]), i_size'[f])
  BY <1>1, <1>2, <1>5, <1>8
<1>10. CursorInv'
  BY <1>1, <1>2, <1>3, <1>9, CursorOne
<1> QED
  BY <1>7, <1>10 DEF k2

\* A write that needs no new blocks leaves the blocks the right number.
LEMMA WriteFits ==
  ASSUME TableInv, CursorInv, NEW h \in Handles, NEW n \in Lens, NEW b, fs_write(h, n, b)
  PROVE  LET f == fp[h].file
         IN /\ Usable(h) /\ n \in Nat /\ n > 0 /\ Put(h, i_data_map[f], n, b)
            /\ i_data_map[f] \in Seq(Clusters) /\ i_data_map[f] # << >>
            /\ Fits(Len(i_data_map[f]), Max2(i_size[f], fp[h].f_pos + n))
<1> DEFINE f == fp[h].file
           m == i_data_map[f]
           p == fp[h].f_pos + n
           k == Len(m)
           z == i_size[f]
           d == p - k * BlockSize
           w == Blocks(d)
<1>1. /\ Usable(h) /\ n \in Nat /\ n > 0 /\ Put(h, m, n, b)
      /\ expand_blks(f, p) = 0
  BY Fat32Assumption DEF fs_write
<1>2. /\ m \in Seq(Clusters) /\ m # << >> /\ z \in Nat /\ Fits(k, z) /\ fp[h].f_pos \in Nat
  BY <1>1, CursorOf
<1>3. k \in Nat /\ p \in Nat
  BY <1>1, <1>2
<1>4. Max2(0, w) = 0
  BY <1>1 DEF expand_blks, i_blocks
<1> HIDE DEF m, k, p, z, f
<1> DEFINE X == k * BlockSize
<1>5. X \in Int /\ d = p - X /\ d \in Int
  BY <1>3, SizeType
<1> HIDE DEF d
<1>6. w \in Int /\ d <= w * BlockSize
  BY <1>5, BlocksBound
<1> HIDE DEF w, X
<1>7. w <= 0
  BY <1>4, <1>6 DEF Max2
<1>8. w * BlockSize <= 0 * BlockSize /\ 0 * BlockSize = 0 /\ w * BlockSize \in Int
  BY <1>6, <1>7, SizeType, Factor
<1>9. p <= X
  BY <1>3, <1>5, <1>6, <1>8
<1>10. k >= 1 /\ z <= X /\ (k = 1 \/ (k - 1) * BlockSize < z) /\ (k - 1) * BlockSize \in Int
  BY <1>2, <1>3, SizeType DEF Fits, X
<1>11. Fits(k, Max2(z, p))
  <2>1. Max2(z, p) \in Nat /\ Max2(z, p) >= z /\ Max2(z, p) \in {z, p}
    BY <1>2, <1>3 DEF Max2
  <2>2. Max2(z, p) <= X /\ (k = 1 \/ (k - 1) * BlockSize < Max2(z, p))
    BY <2>1, <1>2, <1>3, <1>5, <1>9, <1>10
  <2> QED
    BY <2>2, <1>10 DEF Fits, X
<1> QED
  BY <1>1, <1>2, <1>11 DEF m, k, p, z, f

\* A write with new blocks takes exactly as many as the file then needs.
LEMMA ExpandsFits ==
  ASSUME TableInv, CursorInv, NEW h \in Handles, NEW n \in Lens, NEW b,
         fs_write_expands(h, n, b)
  PROVE  LET f == fp[h].file
             blks == expand_blks(f, fp[h].f_pos + n)
         IN /\ Usable(h) /\ n \in Nat /\ n > 0 /\ blks \in Nat
            /\ Fits(Len(i_data_map[f]) + blks, Max2(i_size[f], fp[h].f_pos + n))
<1> DEFINE f == fp[h].file
           m == i_data_map[f]
           p == fp[h].f_pos + n
           k == Len(m)
           z == i_size[f]
           w == Blocks(p - k * BlockSize)
           blks == expand_blks(f, p)
<1>1. Usable(h) /\ n \in Nat /\ n > 0
  BY Fat32Assumption DEF fs_write_expands
<1>2. blks \in Nat /\ blks > 0
  BY ExpandsTakes
<1>3. /\ m \in Seq(Clusters) /\ m # << >> /\ z \in Nat /\ Fits(k, z) /\ fp[h].f_pos \in Nat
  BY <1>1, CursorOf
<1>4. k \in Nat /\ p \in Nat
  BY <1>1, <1>3
<1>5. blks = Max2(0, w)
  BY DEF expand_blks, i_blocks
<1> HIDE DEF blks, m, k, p, z, f
<1>6. w \in Int
  <2>1. p - k * BlockSize \in Int
    BY <1>4, SizeType
  <2> QED
    BY <2>1, BlocksBound
<1>7. w = blks /\ w > 0
  <2> HIDE DEF w
  <2> QED
    BY <1>2, <1>5, <1>6 DEF Max2
<1>8. k >= 1 /\ z <= k * BlockSize /\ k * BlockSize \in Int
  BY <1>3, <1>4, SizeType DEF Fits
<1>9. Fits(k + w, p) /\ p > k * BlockSize
  BY <1>4, <1>7, <1>8, FitsMore
<1>10. Max2(z, p) = p
  BY <1>3, <1>4, <1>8, <1>9 DEF Max2
<1> HIDE DEF w
<1>11. Fits(k + blks, Max2(z, p))
  BY <1>7, <1>9, <1>10
<1> QED
  BY <1>1, <1>2, <1>11 DEF blks, m, k, p, z, f

LEMMA CursorWrite ==
  ASSUME TableInv, CursorInv, NEW h \in Handles, NEW n \in Lens, NEW b, fs_write(h, n, b)
  PROVE  CursorInv'
<1> DEFINE m == i_data_map[fp[h].file]
<1>1. /\ Usable(h) /\ n \in Nat /\ n > 0 /\ Put(h, m, n, b) /\ m \in Seq(Clusters)
      /\ Fits(Len(m), Max2(i_size[fp[h].file], fp[h].f_pos + n))
  BY WriteFits
<1> HIDE DEF m
<1> QED
  BY <1>1, CursorPut

LEMMA CursorExpands ==
  ASSUME TableInv, CursorInv, NEW h \in Handles, NEW n \in Lens, NEW b,
         fs_write_expands(h, n, b)
  PROVE  CursorInv'
<1> DEFINE f == fp[h].file
           blks == expand_blks(f, fp[h].f_pos + n)
<1>1. i_data_map[f] \in Seq(Clusters)
  BY ExpandsTakes
<1>2. PICK s \in [1 .. blks -> Clusters] : Put(h, i_data_map[f] \o s, n, b)
  BY ExpandsTakes
<1>3. /\ Usable(h) /\ n \in Nat /\ n > 0 /\ blks \in Nat
      /\ Fits(Len(i_data_map[f]) + blks, Max2(i_size[f], fp[h].f_pos + n))
  BY ExpandsFits
<1> HIDE DEF blks
<1>4. s \in Seq(Clusters) /\ Len(s) = blks
  BY <1>3, FunctionIsMap
<1> DEFINE m == i_data_map[f] \o s
<1>5. m \in Seq(Clusters) /\ Len(m) = Len(i_data_map[f]) + blks
  BY <1>1, <1>4
<1>6. Put(h, m, n, b)
  BY <1>2
<1> HIDE DEF m
<1>7. Fits(Len(m), Max2(i_size[fp[h].file], fp[h].f_pos + n))
  BY <1>3, <1>5
<1> QED
  BY <1>3, <1>5, <1>6, <1>7, CursorPut

LEMMA CursorPowerCycle ==
  ASSUME TableInv, TableInv', PageInv, ChainInv, CursorInv, power_cycle
  PROVE  CursorInv'
<1>1. \A f \in Files : /\ i_data_map'[f] = i_data_map[f]
                       /\ i_data_map[f] # << >> => i_size'[f] = i_size[f]
  BY PowerKeepsFiles
<1>2. (\A h \in Handles : fp[h] = Closed) /\ fp' = fp
  BY DEF power_cycle
<1> QED
  BY <1>1, <1>2 DEF CursorInv

LEMMA CursorStep ==
  TableInv /\ TableInv' /\ PageInv /\ ChainInv /\ CursorInv /\ [Next]_vars => CursorInv'
<1> SUFFICES ASSUME TableInv, TableInv', PageInv, ChainInv, CursorInv, [Next]_vars
             PROVE  CursorInv'
  OBVIOUS
<1>1. CASE UNCHANGED vars
  BY <1>1 DEF vars, cardVars, CursorInv
<1>2. ASSUME NEW h \in Handles, NEW f \in Files, NEW m \in Modes,
             create_dentry(h, f, m) \/ fs_open(h, f, m)
      PROVE  CursorInv'
  BY <1>2, CursorCreate, CursorOpen
<1>3. ASSUME NEW h \in Handles, NEW f \in Files, clear(h, f) PROVE CursorInv'
  BY <1>3, CursorClear
<1>4. ASSUME NEW h \in Handles, NEW n \in Lens, fs_read(h, n) PROVE CursorInv'
  BY <1>4, CursorRead
<1>5. ASSUME NEW h \in Handles, NEW n \in Lens, NEW b,
             fs_write(h, n, b) \/ fs_write_expands(h, n, b)
      PROVE  CursorInv'
  BY <1>5, CursorWrite, CursorExpands
<1>6. ASSUME NEW h \in Handles, NEW flag \in {"HEAD", "TAIL", "CUR"},
             NEW o \in Offsets, fs_seek(h, flag, o)
      PROVE  CursorInv'
  BY <1>6, CursorSeek
<1>7. ASSUME NEW h \in Handles, fs_delete(h) PROVE CursorInv'
  BY <1>7, CursorDelete
<1>8. ASSUME NEW h \in Handles, fs_close(h) \/ fs_close_deleted(h) PROVE CursorInv'
  <2>1. fp' = [fp EXCEPT ![h] = Closed] /\ UNCHANGED <<i_data_map, i_size>>
    BY <1>8 DEF fs_close, fs_close_deleted
  <2> QED
    BY <2>1, CursorGone DEF TableInv
<1>9. CASE power_cycle
  BY <1>9, CursorPowerCycle
<1>10. CASE Leaves
  BY <1>10, LeavesFiles DEF CursorInv
<1> QED
  BY <1>1, <1>2, <1>3, <1>4, <1>5, <1>6, <1>7, <1>8, <1>9, <1>10 DEF Next, Leaves

\* The cursor of every handle, and the blocks of every file, are sound in every
\* reachable state.
THEOREM CursorInvariant == Spec => []CursorInv
<1>1. Init => CursorInv
  BY DEF Init, CursorInv
<1> QED
  BY <1>1, CursorStep, TableInvariant, PageInvariant, ChainInvariant, PTL DEF Spec

\* f_pos, the block and the offset of a handle name the same byte, its size is
\* the inode's, and an inode has exactly the blocks its size needs: fs_open,
\* fs_read, fs_write, fs_seek and file_expand_to agree with one another.
THEOREM PositionsAgree == Spec => []CursorAgrees
<1>1. TableInv /\ CursorInv => CursorAgrees
  <2> SUFFICES ASSUME TableInv, CursorInv PROVE CursorAgrees
    OBVIOUS
  <2>1. ASSUME NEW h \in Handles, Usable(h)
        PROVE  /\ fp[h].f_pos = Cursor(h) /\ fp[h].f_pos <= fp[h].f_size
               /\ fp[h].f_size = i_size[fp[h].file]
               /\ fp[h].f_cur_map \in 1 .. i_blocks(fp[h].file)
               /\ fp[h].f_cur_off \in 0 .. BlockSize
    BY <2>1, CursorOf DEF i_blocks
  <2>2. ASSUME NEW f \in Files, Present(f)
        PROVE  i_blocks(f) = Max2(1, Blocks(i_size[f]))
    <3> DEFINE k == Len(i_data_map[f])
               z == i_size[f]
               l == Max2(1, Blocks(z))
    <3>1. k \in Int /\ z \in Nat /\ Fits(k, z)
      BY <2>2 DEF Present, CursorInv, TableInv, Types
    <3> HIDE DEF k, z
    <3>2. l \in Int /\ Fits(l, z)
      BY <3>1, BlocksFit
    <3> HIDE DEF l
    <3>3. k = l
      <4>1. z \in Int
        BY <3>1
      <4> QED
        BY <4>1, <3>1, <3>2, FitsOnce
    <3> QED
      BY <3>3 DEF k, l, z, i_blocks
  <2> QED
    BY <2>1, <2>2 DEF CursorAgrees
<1> QED
  BY <1>1, TableInvariant, CursorInvariant, PTL

-----------------------------------------------------------------------------
(* Pages are blocks.                                                       *)

BlockInv ==
  /\ card \in [Clusters -> Block]
  /\ page \in [Clusters -> Block \cup {NoPage}]
  /\ \A c \in Clusters : p_dirt[c] => page[c] # NoPage

\* What get_fspage finds with the pages P and the card C.
Fetch(P, C, c) == IF P[c] = NoPage THEN C[c] ELSE P[c]

LEMMA FetchIsBlock ==
  ASSUME NEW C \in [Clusters -> Block], NEW P \in [Clusters -> Block \cup {NoPage}],
         NEW c \in Clusters
  PROVE  Fetch(P, C, c) \in Block /\ Fetch(P, C, c) # NoPage
  BY Fat32Assumption DEF Fetch

LEMMA GetIsFetch ==
  ASSUME NEW c
  PROVE  get_fspage(c) = Fetch(page, card, c)
  BY DEF get_fspage, Fetch

LEMMA GarbageIsBlock == [o \in 0 .. BlockSize - 1 |-> Garbage] \in Block
  BY DEF Block, Values

LEMMA BlockInit == Init => BlockInv
  BY GarbageIsBlock DEF Init, BlockInv

\* Pages are dropped, and clusters forgotten.
LEMMA BlockDropped ==
  ASSUME BlockInv, NEW S, card' = Forgotten(S),
         page' = [x \in Clusters |-> IF x \in S THEN NoPage ELSE page[x]],
         p_dirt' = [x \in Clusters |-> p_dirt[x] /\ x \notin S]
  PROVE  BlockInv'
<1>1. card' \in [Clusters -> Block]
  BY GarbageIsBlock DEF Forgotten, BlockInv
<1>2. page' \in [Clusters -> Block \cup {NoPage}]
  BY DEF BlockInv
<1>3. ASSUME NEW c \in Clusters, p_dirt'[c] PROVE page'[c] # NoPage
  <2>1. p_dirt'[c] = (p_dirt[c] /\ c \notin S)
    OBVIOUS
  <2>2. p_dirt[c] /\ c \notin S
    BY <1>3, <2>1, Zenon
  <2> QED
    BY <2>2 DEF BlockInv
<1> QED
  BY <1>1, <1>2, <1>3 DEF BlockInv

LEMMA BlockCreate ==
  ASSUME BlockInv, PageInv, NEW h \in Handles, NEW f \in Files, NEW m \in Modes,
         create_dentry(h, f, m)
  PROVE  BlockInv'
<1>1. PICK s \in find_free_clu(1) :
        /\ page' = [page EXCEPT ![s[1]] = NoPage]
        /\ p_dirt' = [p_dirt EXCEPT ![s[1]] = FALSE]
  BY DEF create_dentry
<1>2. card' = card
  BY DEF create_dentry
<1>3. page' \in [Clusters -> Block \cup {NoPage}]
  BY <1>1 DEF BlockInv
<1>4. ASSUME NEW c \in Clusters, p_dirt'[c] PROVE page'[c] # NoPage
  <2>1. CASE c = s[1]
    <3>1. p_dirt'[c] = FALSE
      BY <1>1, <2>1 DEF PageInv
    <3> QED
      BY <1>4, <3>1, Zenon
  <2>2. CASE c # s[1]
    <3>1. p_dirt'[c] = p_dirt[c] /\ page'[c] = page[c]
      BY <1>1, <2>2 DEF PageInv, BlockInv
    <3>2. p_dirt[c]
      BY <1>4, <3>1, Zenon
    <3> QED
      BY <3>1, <3>2 DEF BlockInv
  <2> QED
    BY <2>1, <2>2
<1> QED
  BY <1>2, <1>3, <1>4 DEF BlockInv

LEMMA BlockClose ==
  ASSUME BlockInv, NEW h \in Handles, fs_close(h)
  PROVE  BlockInv'
<1>1. /\ card' = [c \in Clusters |-> IF c \in Flushed(h) THEN page[c] ELSE card[c]]
      /\ p_dirt' = [c \in Clusters |-> p_dirt[c] /\ c \notin Flushed(h)]
      /\ page' = page
  BY DEF fs_close
<1>2. \A c \in Flushed(h) : c \in Clusters /\ page[c] \in Block
  <2> SUFFICES ASSUME NEW c \in Flushed(h) PROVE c \in Clusters /\ page[c] \in Block
    OBVIOUS
  <2>1. c \in Clusters /\ p_dirt[c]
    BY DEF Flushed
  <2> QED
    BY <2>1 DEF BlockInv
<1>3. card' \in [Clusters -> Block]
  BY <1>1, <1>2 DEF BlockInv
<1>4. ASSUME NEW c \in Clusters, p_dirt'[c] PROVE page'[c] # NoPage
  <2>1. p_dirt'[c] = (p_dirt[c] /\ c \notin Flushed(h))
    BY <1>1
  <2>2. p_dirt[c]
    BY <1>4, <2>1, Zenon
  <2> QED
    BY <2>2, <1>1 DEF BlockInv
<1> QED
  BY <1>1, <1>3, <1>4 DEF BlockInv

\* A read fills pages and changes nothing of what get_fspage finds.
LEMMA ReadFills ==
  ASSUME BlockInv, NEW h \in Handles, NEW n \in Lens, fs_read(h, n)
  PROVE  /\ BlockInv' /\ card' = card
         /\ \A c \in Clusters : Fetch(page', card, c) = Fetch(page, card, c)
<1>1. PICK S : page' = [c \in Clusters |-> IF c \in S THEN get_fspage(c) ELSE page[c]]
  BY DEF fs_read
<1>2. card' = card /\ p_dirt' = p_dirt
  BY DEF fs_read, cardVars
<1>3. page' = [c \in Clusters |-> IF c \in S THEN Fetch(page, card, c) ELSE page[c]]
  BY <1>1, GetIsFetch
<1>4. \A c \in Clusters : Fetch(page, card, c) \in Block /\ Fetch(page, card, c) # NoPage
  BY FetchIsBlock DEF BlockInv
<1>5. page' \in [Clusters -> Block \cup {NoPage}]
  BY <1>3, <1>4 DEF BlockInv
<1>6. \A c \in Clusters : Fetch(page', card, c) = Fetch(page, card, c)
  BY <1>3, <1>4 DEF Fetch
<1>7. \A c \in Clusters : p_dirt'[c] => page'[c] # NoPage
  BY <1>2, <1>3, <1>4 DEF BlockInv
<1> QED
  BY <1>2, <1>5, <1>6, <1>7 DEF BlockInv

\* The pages Copied makes, by cluster.
LEMMA CopiedBlock ==
  ASSUME BlockInv, NEW h \in Handles, NEW m \in Seq(Clusters), NEW n, NEW b \in Values,
         NEW c \in Clusters
  PROVE  LET T == \E k \in fp[h].f_cur_map .. Moved(h, n).f_cur_map :
                    k \in DOMAIN m /\ m[k] = c
         IN /\ ~T => Copied(h, m, n, b)[c] = page[c]
            /\ T => /\ Copied(h, m, n, b)[c] \in Block
                    /\ \E i \in DOMAIN m : m[i] = c /\
                         \A o \in 0 .. BlockSize - 1 : Copied(h, m, n, b)[c][o] =
                           IF (i - 1) * BlockSize + o \in Cursor(h) .. Cursor(h) + n - 1
                             THEN b ELSE Fetch(page, card, c)[o]
<1> DEFINE T == \E k \in fp[h].f_cur_map .. Moved(h, n).f_cur_map :
                    k \in DOMAIN m /\ m[k] = c
           i == CHOOSE j \in DOMAIN m : m[j] = c
           B == [o \in 0 .. BlockSize - 1 |->
                   IF (i - 1) * BlockSize + o \in Cursor(h) .. Cursor(h) + n - 1
                     THEN b ELSE get_fspage(c)[o]]
<1>1. Copied(h, m, n, b)[c] = IF T THEN B ELSE page[c]
  BY DEF Copied
<1>2. T => i \in DOMAIN m /\ m[i] = c
  <2> SUFFICES ASSUME T PROVE i \in DOMAIN m /\ m[i] = c
    OBVIOUS
  <2>1. \E j \in DOMAIN m : m[j] = c
    OBVIOUS
  <2> QED
    BY <2>1
<1>3. get_fspage(c) \in Block /\ get_fspage(c) = Fetch(page, card, c)
  BY FetchIsBlock, GetIsFetch DEF BlockInv
<1> HIDE DEF T, i
<1>4. B \in Block
  <2>1. \A o \in 0 .. BlockSize - 1 : get_fspage(c)[o] \in Values
    BY <1>3 DEF Block
  <2> QED
    BY <2>1 DEF Block
<1>5. \A o \in 0 .. BlockSize - 1 : B[o] =
        IF (i - 1) * BlockSize + o \in Cursor(h) .. Cursor(h) + n - 1
          THEN b ELSE Fetch(page, card, c)[o]
  BY <1>3
<1> HIDE DEF B
<1>6. /\ ~T => Copied(h, m, n, b)[c] = page[c]
      /\ T => /\ Copied(h, m, n, b)[c] \in Block
              /\ \E x \in DOMAIN m : m[x] = c /\
                   \A o \in 0 .. BlockSize - 1 : Copied(h, m, n, b)[c][o] =
                     IF (x - 1) * BlockSize + o \in Cursor(h) .. Cursor(h) + n - 1
                       THEN b ELSE Fetch(page, card, c)[o]
  BY <1>1, <1>2, <1>4, <1>5
<1> QED
  BY <1>6 DEF T

\* Copied puts bytes into the page of cluster c.
CopiedInto(h, m, n, c) ==
  \E k \in fp[h].f_cur_map .. Moved(h, n).f_cur_map : k \in DOMAIN m /\ m[k] = c

LEMMA CopiedByte ==
  ASSUME BlockInv, NEW h \in Handles, NEW m \in Seq(Clusters), NEW n, NEW b \in Values,
         NEW c \in Clusters, NEW o \in 0 .. BlockSize - 1
  PROVE  /\ ~CopiedInto(h, m, n, c) => Copied(h, m, n, b)[c] = page[c]
         /\ CopiedInto(h, m, n, c) =>
              /\ Copied(h, m, n, b)[c] \in Block
              /\ \E l \in DOMAIN m : m[l] = c /\ Copied(h, m, n, b)[c][o] =
                   IF (l - 1) * BlockSize + o \in Cursor(h) .. Cursor(h) + n - 1
                     THEN b ELSE Fetch(page, card, c)[o]
  BY CopiedBlock DEF CopiedInto

LEMMA BlockPut ==
  ASSUME BlockInv, NEW h \in Handles, NEW m \in Seq(Clusters), NEW n, NEW b \in Values,
         Put(h, m, n, b), card' = card
  PROVE  BlockInv'
<1>1. /\ page' = Copied(h, m, n, b)
      /\ p_dirt' = [c \in Clusters |-> p_dirt[c] \/
          \E k \in fp[h].f_cur_map .. Moved(h, n).f_cur_map :
             k \in DOMAIN m /\ m[k] = c]
  BY DEF Put
<1>2. page' = [c \in Clusters |-> page'[c]]
  BY <1>1 DEF Copied
<1>3. ASSUME NEW c \in Clusters
      PROVE  page'[c] \in Block \cup {NoPage} /\ (p_dirt'[c] => page'[c] # NoPage)
  <2> DEFINE T == \E k \in fp[h].f_cur_map .. Moved(h, n).f_cur_map :
                    k \in DOMAIN m /\ m[k] = c
  <2>1. (~T => page'[c] = page[c]) /\ (T => page'[c] \in Block)
    BY <1>1, CopiedBlock
  <2>2. p_dirt'[c] = (p_dirt[c] \/ T)
    BY <1>1
  <2> HIDE DEF T
  <2>3. CASE T
    BY <2>1, <2>3, Fat32Assumption
  <2>4. CASE ~T
    <3>1. p_dirt'[c] => p_dirt[c]
      BY <2>2, <2>4, Zenon
    <3> QED
      BY <2>1, <2>4, <3>1 DEF BlockInv
  <2> QED
    BY <2>3, <2>4
<1>4. page' \in [Clusters -> Block \cup {NoPage}]
  BY <1>2, <1>3
<1> QED
  BY <1>3, <1>4 DEF BlockInv

LEMMA ByteType ==
  ASSUME NEW b \in UNION {Bytes[f] : f \in Files}
  PROVE  b \in Values
  BY DEF Values

LEMMA BlockStep ==
  TableInv /\ PageInv /\ BlockInv /\ [Next]_vars => BlockInv'
<1> SUFFICES ASSUME TableInv, PageInv, BlockInv, [Next]_vars PROVE BlockInv'
  OBVIOUS
<1>1. ASSUME UNCHANGED <<card, page, p_dirt>> PROVE BlockInv'
  BY <1>1 DEF BlockInv
<1>2. CASE UNCHANGED vars
  BY <1>1, <1>2 DEF vars, cardVars
<1>3. ASSUME NEW h \in Handles, NEW f \in Files, NEW m \in Modes,
             create_dentry(h, f, m) \/ fs_open(h, f, m)
      PROVE  BlockInv'
  <2>1. fs_open(h, f, m) => UNCHANGED <<card, page, p_dirt>>
    BY DEF fs_open, cardVars
  <2> QED
    BY <1>1, <1>3, <2>1, BlockCreate
<1>4. ASSUME NEW h \in Handles, NEW f \in Files, clear(h, f) PROVE BlockInv'
  BY <1>4, BlockDropped DEF clear
<1>5. ASSUME NEW h \in Handles, NEW n \in Lens, fs_read(h, n) PROVE BlockInv'
  BY <1>5, ReadFills
<1>6. ASSUME NEW h \in Handles, NEW n \in Lens, NEW b \in UNION {Bytes[f] : f \in Files},
             fs_write(h, n, b)
      PROVE  BlockInv'
  <2> DEFINE m == i_data_map[fp[h].file]
  <2>1. Put(h, m, n, b) /\ card' = card /\ Usable(h)
    BY <1>6 DEF fs_write, cardVars
  <2>2. m \in Seq(Clusters)
    BY <2>1, UsableType DEF TableInv, Types
  <2> HIDE DEF m
  <2> QED
    BY <2>1, <2>2, ByteType, BlockPut
<1>7. ASSUME NEW h \in Handles, NEW n \in Lens, NEW b \in UNION {Bytes[f] : f \in Files},
             fs_write_expands(h, n, b)
      PROVE  BlockInv'
  <2> DEFINE f == fp[h].file
             blks == expand_blks(f, fp[h].f_pos + n)
  <2>1. i_data_map[f] \in Seq(Clusters) /\ blks \in Nat
    BY <1>7, ExpandsTakes
  <2>2. PICK s \in [1 .. blks -> Clusters] : Put(h, i_data_map[f] \o s, n, b)
    BY <1>7, ExpandsTakes
  <2> HIDE DEF blks
  <2>3. s \in Seq(Clusters)
    BY <2>1, <2>2, FunctionIsMap
  <2> DEFINE m == i_data_map[f] \o s
  <2>4. m \in Seq(Clusters) /\ Put(h, m, n, b)
    BY <2>1, <2>2, <2>3
  <2>5. card' = card
    BY <1>7 DEF fs_write_expands
  <2> HIDE DEF m
  <2> QED
    BY <2>4, <2>5, ByteType, BlockPut
<1>8. ASSUME NEW h \in Handles, NEW flag \in {"HEAD", "TAIL", "CUR"},
             NEW o \in Offsets, fs_seek(h, flag, o)
      PROVE  BlockInv'
  BY <1>1, <1>8 DEF fs_seek, cardVars
<1>9. ASSUME NEW h \in Handles, fs_delete(h) PROVE BlockInv'
  BY <1>9, BlockDropped DEF fs_delete
<1>10. ASSUME NEW h \in Handles, fs_close(h) PROVE BlockInv'
  BY <1>10, BlockClose
<1>11. ASSUME NEW h \in Handles, fs_close_deleted(h) PROVE BlockInv'
  BY <1>1, <1>11 DEF fs_close_deleted, cardVars
<1>12. CASE power_cycle
  BY <1>12 DEF power_cycle, BlockInv, cardVars
<1>13. CASE Leaves
  BY <1>1, <1>13, LeavesFiles
<1> QED
  BY <1>2, <1>3, <1>4, <1>5, <1>6, <1>7, <1>8, <1>9, <1>10, <1>11, <1>12, <1>13
     DEF Next, Leaves

\* Pages and clusters hold blocks of bytes in every reachable state.
THEOREM BlockInvariant == Spec => []BlockInv
  BY BlockInit, BlockStep, TableInvariant, PageInvariant, PTL DEF Spec

-----------------------------------------------------------------------------
(* What a file contains.                                                   *)

\* The first z bytes of map m, with the pages P and the card C.
Body(m, z, P, C) ==
  [i \in 1 .. z |->
     Fetch(P, C, m[1 + (i - 1) \div BlockSize])[(i - 1) % BlockSize]]

\* The block and the offset of byte q.
LEMMA BytePlace ==
  ASSUME NEW q \in Nat, NEW k \in Int, q < k * BlockSize
  PROVE  /\ 1 + q \div BlockSize \in 1 .. k /\ q % BlockSize \in 0 .. BlockSize - 1
         /\ q \div BlockSize \in Nat
         /\ q = (q \div BlockSize) * BlockSize + (q % BlockSize)
<1> DEFINE a == BlockSize
           d == q \div a
           r == q % a
<1>1. a \in Nat /\ a > 0
  BY SizeType
<1> HIDE DEF a
<1>2. d \in Int /\ d * a <= q /\ q < d * a + a /\ r = q - d * a /\ d * a \in Int
  BY <1>1, DivFloor
<1> HIDE DEF d, r
<1>3. r \in 0 .. a - 1 /\ q = d * a + r
  BY <1>1, <1>2
<1>4. d >= 0
  <2> SUFFICES ASSUME d + 1 <= 0 PROVE FALSE
    BY <1>2
  <2>1. (d + 1) * a <= 0 * a /\ (d + 1) * a = d * a + a
    BY <1>1, <1>2, Factor, Distribute
  <2>2. 0 * a = 0
    BY <1>1
  <2> QED
    BY <2>1, <2>2, <1>1, <1>2
<1>5. d < k
  <2> SUFFICES ASSUME k <= d PROVE FALSE
    BY <1>2
  <2>1. k * a <= d * a
    BY <1>1, <1>2, Factor
  <2>2. q < k * a /\ k * a \in Int
    BY <1>1 DEF a
  <2> QED
    BY <2>1, <2>2, <1>2
<1>6. 1 + d \in 1 .. k /\ d \in Nat
  BY <1>2, <1>4, <1>5
<1> QED
  BY <1>3, <1>6, Zenon DEF a, d, r

\* The bytes of a file lie in its blocks.
LEMMA ByteInMap ==
  ASSUME NEW m \in Seq(Clusters), NEW z \in Nat, Fits(Len(m), z), NEW i \in 1 .. z
  PROVE  /\ i - 1 \in Nat
         /\ 1 + (i - 1) \div BlockSize \in 1 .. Len(m)
         /\ (i - 1) % BlockSize \in 0 .. BlockSize - 1
         /\ m[1 + (i - 1) \div BlockSize] \in R(m)
         /\ m[1 + (i - 1) \div BlockSize] \in Clusters
<1> DEFINE q == i - 1
           k == Len(m)
<1>1. k \in Int /\ q \in Nat /\ q < z
  OBVIOUS
<1>2. z <= k * BlockSize /\ k * BlockSize \in Int
  BY <1>1, SizeType DEF Fits
<1> HIDE DEF q, k
<1>3. q < k * BlockSize
  BY <1>1, <1>2
<1>4. 1 + q \div BlockSize \in 1 .. k /\ q % BlockSize \in 0 .. BlockSize - 1
  BY <1>1, <1>3, BytePlace
<1>5. \A j \in 1 .. k : m[j] \in R(m) /\ m[j] \in Clusters
  BY DEF R, k
<1> QED
  BY <1>1, <1>4, <1>5 DEF q, k

LEMMA BodyType ==
  ASSUME NEW m \in Seq(Clusters), NEW z \in Nat, Fits(Len(m), z),
         NEW C \in [Clusters -> Block], NEW P \in [Clusters -> Block \cup {NoPage}]
  PROVE  Body(m, z, P, C) \in Seq(Values) /\ Len(Body(m, z, P, C)) = z
         /\ Body(m, z, P, C) # Absent
<1>1. ASSUME NEW i \in 1 .. z
      PROVE  Fetch(P, C, m[1 + (i - 1) \div BlockSize])[(i - 1) % BlockSize] \in Values
  <2> DEFINE c == m[1 + (i - 1) \div BlockSize]
             o == (i - 1) % BlockSize
  <2>1. c \in Clusters /\ o \in 0 .. BlockSize - 1
    BY ByteInMap
  <2> HIDE DEF c, o
  <2>2. Fetch(P, C, c) \in Block
    BY <2>1, FetchIsBlock
  <2>3. Fetch(P, C, c)[o] \in Values
    BY <2>1, <2>2 DEF Block
  <2> QED
    BY <2>3 DEF c, o
<1>2. Body(m, z, P, C) \in [1 .. z -> Values]
  BY <1>1 DEF Body
<1>3. Body(m, z, P, C) \in Seq(Values) /\ Len(Body(m, z, P, C)) = z
  BY <1>2, FunctionIsMap
<1> QED
  BY <1>3, Fat32Assumption

\* Pages may come and go as long as get_fspage finds the same.
LEMMA SameBody ==
  ASSUME NEW m \in Seq(Clusters), NEW z \in Nat, Fits(Len(m), z),
         NEW P, NEW P2, NEW C, NEW C2,
         \A c \in R(m) : Fetch(P2, C2, c) = Fetch(P, C, c)
  PROVE  Body(m, z, P2, C2) = Body(m, z, P, C)
<1>1. ASSUME NEW i \in 1 .. z
      PROVE  Fetch(P2, C2, m[1 + (i - 1) \div BlockSize])
               = Fetch(P, C, m[1 + (i - 1) \div BlockSize])
  BY ByteInMap
<1> QED
  BY <1>1 DEF Body

LEMMA ContentsOf ==
  ASSUME NEW f \in Files
  PROVE  FlatContents[f] =
           IF i_data_map[f] # << >> THEN Body(i_data_map[f], i_size[f], page, card)
           ELSE Absent
<1>1. \A q : ByteAt(f, q)
        = Fetch(page, card, i_data_map[f][1 + q \div BlockSize])[q % BlockSize]
  BY DEF ByteAt, get_fspage, Fetch
<1> QED
  BY <1>1 DEF FlatContents, Present, Body

\* The same after a step.
LEMMA ContentsOfNext ==
  ASSUME NEW f \in Files
  PROVE  FlatContents'[f] =
           IF i_data_map'[f] # << >> THEN Body(i_data_map'[f], i_size'[f], page', card')
           ELSE Absent
<1>1. \A q : ByteAt(f, q)'
        = Fetch(page', card', i_data_map'[f][1 + q \div BlockSize])[q % BlockSize]
  BY DEF ByteAt, get_fspage, Fetch
<1> QED
  BY <1>1 DEF FlatContents, Present, Body

\* A file a step leaves alone keeps its contents.
LEMMA KeepsContents ==
  ASSUME TableInv, CursorInv, NEW f \in Files, i_data_map'[f] = i_data_map[f],
         i_data_map[f] # << >> => i_size'[f] = i_size[f],
         \A c \in R(i_data_map[f]) : Fetch(page', card', c) = Fetch(page, card, c)
  PROVE  FlatContents'[f] = FlatContents[f]
<1>1. CASE i_data_map[f] = << >>
  BY <1>1, ContentsOf, ContentsOfNext
<1>2. CASE i_data_map[f] # << >>
  <2>1. /\ i_data_map[f] \in Seq(Clusters) /\ i_size[f] \in Nat
        /\ Fits(Len(i_data_map[f]), i_size[f])
    BY <1>2 DEF TableInv, Types, CursorInv
  <2>2. \A m, z, P, C, P2, C2 :
          m \in Seq(Clusters) /\ z \in Nat /\ Fits(Len(m), z)
          /\ (\A c \in R(m) : Fetch(P2, C2, c) = Fetch(P, C, c))
          => Body(m, z, P2, C2) = Body(m, z, P, C)
    BY SameBody
  <2>3. Body(i_data_map[f], i_size[f], page', card')
          = Body(i_data_map[f], i_size[f], page, card)
    BY <2>1, <2>2
  <2> QED
    BY <1>2, <2>3, ContentsOf, ContentsOfNext
<1> QED
  BY <1>1, <1>2

\* The pages and the card of another file, when only clusters of file f change.
LEMMA OthersKeepContents ==
  ASSUME TableInv, CursorInv, NEW f \in Files, NEW e \in Files \ {f}, NEW S,
         i_data_map'[e] = i_data_map[e], i_size'[e] = i_size[e],
         R(i_data_map[e]) \cap S = {},
         \A c \in Clusters \ S : Fetch(page', card', c) = Fetch(page, card, c)
  PROVE  FlatContents'[e] = FlatContents[e]
<1>1. R(i_data_map[e]) \subseteq Clusters
  BY MapType DEF TableInv, Types
<1>2. \A c \in R(i_data_map[e]) : Fetch(page', card', c) = Fetch(page, card, c)
  BY <1>1
<1> QED
  BY <1>2, KeepsContents

LEMMA ContentsShape ==
  /\ FlatContents = [f \in Files |-> FlatContents[f]]
  /\ FlatContents' = [f \in Files |-> FlatContents'[f]]
  /\ FlatHandle = [h \in Handles |-> FlatHandle[h]]
  /\ FlatHandle' = [h \in Handles |-> FlatHandle'[h]]
  BY DEF FlatContents, FlatHandle

-----------------------------------------------------------------------------
(* What a handle is.                                                       *)

AbsHandle(r) == [file |-> r.file, mode |-> r.mode, pos |-> r.f_pos]

LEMMA AbsUsable ==
  ASSUME NEW r \in HandleRec
  PROVE  AbsHandle(r) \notin {Closed, Deleted}
<1>1. AbsHandle(r) \in [file : Files, mode : Modes \cup {"WRITE"}, pos : Int]
  BY DEF AbsHandle, HandleRec
<1> QED
  BY <1>1, Fat32Assumption

LEMMA HandleOf ==
  ASSUME Types, NEW h \in Handles
  PROVE  /\ Usable(h) => FlatHandle[h] = AbsHandle(fp[h])
                         /\ FlatHandle[h] \notin {Closed, Deleted}
         /\ ~Usable(h) => FlatHandle[h] = fp[h] /\ FlatHandle[h] \in {Closed, Deleted}
<1>1. Usable(h) => FlatHandle[h] = AbsHandle(fp[h])
  BY DEF FlatHandle, AbsHandle
<1>2. ~Usable(h) => FlatHandle[h] = fp[h] /\ fp[h] \in {Closed, Deleted}
  BY DEF FlatHandle, Usable
<1>3. Usable(h) => fp[h] \in HandleRec
  BY UsableType
<1> QED
  BY <1>1, <1>2, <1>3, AbsUsable

\* A handle becomes r.
LEMMA HandleBecomes ==
  ASSUME Types, NEW h \in Handles, NEW r \in HandleRec \cup {Closed, Deleted},
         fp' = [fp EXCEPT ![h] = r]
  PROVE  FlatHandle' = [FlatHandle EXCEPT ![h] =
                          IF r \in {Closed, Deleted} THEN r ELSE AbsHandle(r)]
<1>1. fp'[h] = r /\ \A k \in Handles \ {h} : fp'[k] = fp[k]
  BY DEF Types
<1>2. \A k \in Handles : FlatHandle'[k] =
        IF fp'[k] \in {Closed, Deleted} THEN fp'[k] ELSE AbsHandle(fp'[k])
  BY DEF FlatHandle, Usable, AbsHandle
<1>3. \A k \in Handles : FlatHandle[k] =
        IF fp[k] \in {Closed, Deleted} THEN fp[k] ELSE AbsHandle(fp[k])
  BY DEF FlatHandle, Usable, AbsHandle
<1>4. \A k \in Handles \ {h} : FlatHandle'[k] = FlatHandle[k]
  BY <1>1, <1>2, <1>3
<1> QED
  BY <1>1, <1>2, <1>4, ContentsShape

\* A handle in use moves to position p of its file.
LEMMA HandleMovesTo ==
  ASSUME Types, NEW h \in Handles, Usable(h), NEW r \in HandleRec,
         fp' = [fp EXCEPT ![h] = r], r.file = fp[h].file, r.mode = fp[h].mode
  PROVE  /\ FlatHandle' = [FlatHandle EXCEPT ![h].pos = r.f_pos]
         /\ FlatHandle[h].pos = fp[h].f_pos /\ FlatHandle[h].file = fp[h].file
         /\ FlatHandle[h].mode = fp[h].mode
<1>1. FlatHandle[h] = AbsHandle(fp[h])
  BY HandleOf
<1>2. FlatHandle' = [FlatHandle EXCEPT ![h] = AbsHandle(r)]
  BY HandleBecomes, NotAHandle
<1>3. AbsHandle(r) = [FlatHandle[h] EXCEPT !.pos = r.f_pos]
  BY <1>1 DEF AbsHandle
<1>4. FlatHandle' = [FlatHandle EXCEPT ![h] = [FlatHandle[h] EXCEPT !.pos = r.f_pos]]
  BY <1>2, <1>3
<1>5. FlatHandle[h].pos = fp[h].f_pos /\ FlatHandle[h].file = fp[h].file
      /\ FlatHandle[h].mode = fp[h].mode
  BY <1>1 DEF AbsHandle
<1> QED
  BY <1>4, <1>5

-----------------------------------------------------------------------------
(* Every step of the file system is a step of the flat files.              *)

LEMMA PresentContents ==
  ASSUME TableInv, CursorInv, BlockInv, NEW f \in Files, i_data_map[f] # << >>
  PROVE  /\ FlatContents[f] = Body(i_data_map[f], i_size[f], page, card)
         /\ Len(FlatContents[f]) = i_size[f] /\ FlatContents[f] # Absent
         /\ FlatContents[f] \in Seq(Values)
<1>1. /\ i_data_map[f] \in Seq(Clusters) /\ i_size[f] \in Nat
      /\ Fits(Len(i_data_map[f]), i_size[f])
  BY DEF TableInv, Types, CursorInv
<1>2. FlatContents[f] = Body(i_data_map[f], i_size[f], page, card)
  BY ContentsOf
<1>3. \A m, z, P, C :
        m \in Seq(Clusters) /\ z \in Nat /\ Fits(Len(m), z)
        /\ C \in [Clusters -> Block] /\ P \in [Clusters -> Block \cup {NoPage}]
        => /\ Len(Body(m, z, P, C)) = z /\ Body(m, z, P, C) # Absent
           /\ Body(m, z, P, C) \in Seq(Values)
  BY BodyType
<1> QED
  BY <1>1, <1>2, <1>3 DEF BlockInv

\* A file of no bytes.
LEMMA EmptyContents ==
  ASSUME NEW f \in Files, i_data_map'[f] # << >>, i_size'[f] = 0
  PROVE  FlatContents'[f] = << >>
<1>1. \A m, P, C : Body(m, 0, P, C) = << >>
  BY DEF Body
<1> QED
  BY <1>1, ContentsOfNext

\* A file is opened that was not there, or that the mode empties.
LEMMA SimFresh ==
  ASSUME Types, NEW h \in Handles, NEW f \in Files, NEW m \in Modes \cup {"WRITE"},
         fp[h] = Closed, fp' = [fp EXCEPT ![h] = dentry_open_file(f, m, 0, 1)],
         (FlatContents[f] = Absent /\ Writes(m)) \/ m = "WRITE",
         FlatContents'[f] = << >>, buf' = << >>,
         \A e \in Files \ {f} : FlatContents'[e] = FlatContents[e]
  PROVE  Flat!Open(h, f, m)
<1> DEFINE r == dentry_open_file(f, m, 0, 1)
           a == [file |-> f, mode |-> m, pos |-> 0]
<1>1. r \in HandleRec /\ AbsHandle(r) = a
  <2>1. r \in HandleRec
    BY OpenedType
  <2>2. AbsHandle(r) = a
    BY DEF AbsHandle, dentry_open_file
  <2> QED
    BY <2>1, <2>2
<1>2. FlatHandle' = [FlatHandle EXCEPT ![h] = a]
  <2> HIDE DEF r, a
  <2>1. fp' = [fp EXCEPT ![h] = r]
    BY DEF r
  <2> QED
    BY <2>1, <1>1, HandleBecomes, NotAHandle
<1>3. FlatHandle[h] = Closed
  BY HandleOf DEF Usable
<1>4. FlatContents' = [FlatContents EXCEPT ![f] = << >>]
  BY ContentsShape
<1>5. Len(<< >>) = 0
  OBVIOUS
<1>6. "WRITE" # "READ" /\ "WRITE" # "APPEND"
  OBVIOUS
<1>7. FlatContents[f] # Absent \/ m # "READ"
  BY <1>6 DEF Writes
<1>8. (IF FlatContents[f] = Absent \/ m = "WRITE" THEN << >> ELSE FlatContents[f]) = << >>
  OBVIOUS
<1>9. [file |-> f, mode |-> m, pos |-> IF m = "APPEND" THEN Len(<< >>) ELSE 0] = a
  BY <1>5
<1> QED
  BY <1>2, <1>3, <1>4, <1>7, <1>8, <1>9 DEF Flat!Open, Flat!Writes

LEMMA SimCreate ==
  ASSUME TableInv, TableInv', CursorInv, BlockInv, NEW h \in Handles, NEW f \in Files,
         NEW m \in Modes, create_dentry(h, f, m)
  PROVE  Flat!Open(h, f, m)
<1>1. PICK s \in find_free_clu(1) :
        /\ i_data_map' = [i_data_map EXCEPT ![f] = s]
        /\ i_size' = [i_size EXCEPT ![f] = 0]
        /\ page' = [page EXCEPT ![s[1]] = NoPage]
  BY DEF create_dentry
<1>2. /\ fp[h] = Closed /\ i_data_map[f] = << >> /\ Writes(m)
      /\ fp' = [fp EXCEPT ![h] = dentry_open_file(f, m, 0, 1)]
      /\ buf' = << >> /\ card' = card
  BY DEF create_dentry, Present
<1>3. Types /\ s \in [1 .. 1 -> Clusters] /\ fat[s[1]] = FREE
  BY <1>1 DEF find_free_clu, TableInv
<1>4. s \in Seq(Clusters) /\ Len(s) = 1 /\ s # << >>
  <2>1. s \in Seq(Clusters) /\ Len(s) = 1
    BY <1>3, FunctionIsMap
  <2> QED
    BY <2>1
<1>5. /\ i_data_map'[f] = s /\ i_size'[f] = 0
      /\ \A e \in Files \ {f} : i_data_map'[e] = i_data_map[e] /\ i_size'[e] = i_size[e]
  BY <1>1, <1>3 DEF Types
<1>6. \A c \in Clusters \ {s[1]} : Fetch(page', card', c) = Fetch(page, card, c)
  BY <1>1, <1>2 DEF Fetch, BlockInv
<1>7. \A e \in Files : R(i_data_map[e]) \cap {s[1]} = {}
  BY <1>3 DEF TableInv, OwnedOK, FileOK
<1>8. \A e \in Files \ {f} : FlatContents'[e] = FlatContents[e]
  BY <1>5, <1>6, <1>7, OthersKeepContents
<1>9. FlatContents'[f] = << >> /\ FlatContents[f] = Absent
  BY <1>2, <1>4, <1>5, EmptyContents, ContentsOf
<1> QED
  BY <1>2, <1>3, <1>8, <1>9, SimFresh

\* Clusters of one file are dropped and the pages of the others kept.
LEMMA DroppedKeepsOthers ==
  ASSUME TableInv, CursorInv, BlockInv, NEW f \in Files, NEW S,
         S \subseteq R(i_data_map[f]), card' = Forgotten(S),
         page' = [x \in Clusters |-> IF x \in S THEN NoPage ELSE page[x]],
         NEW e \in Files \ {f}, i_data_map'[e] = i_data_map[e], i_size'[e] = i_size[e]
  PROVE  FlatContents'[e] = FlatContents[e]
<1>1. \A c \in Clusters \ S : Fetch(page', card', c) = Fetch(page, card, c)
  BY DEF Fetch, Forgotten
<1>2. R(i_data_map[e]) \cap S = {}
  BY DEF TableInv, OwnedOK
<1> QED
  BY <1>1, <1>2, OthersKeepContents

LEMMA SimClear ==
  ASSUME TableInv, CursorInv, BlockInv, NEW h \in Handles, NEW f \in Files, clear(h, f)
  PROVE  Flat!Open(h, f, "WRITE")
<1> DEFINE dropped == {i_data_map[f][i] : i \in 2 .. i_blocks(f)}
<1>1. /\ fp[h] = Closed /\ i_data_map[f] # << >>
      /\ i_data_map' = [i_data_map EXCEPT ![f] = <<i_data_map[f][1]>>]
      /\ i_size' = [i_size EXCEPT ![f] = 0]
      /\ page' = [x \in Clusters |-> IF x \in dropped THEN NoPage ELSE page[x]]
      /\ fp' = [fp EXCEPT ![h] = dentry_open_file(f, "WRITE", 0, 1)]
      /\ card' = Forgotten(dropped) /\ buf' = << >>
  BY DEF clear, Present
<1>2. Types /\ i_data_map[f] \in Seq(Clusters)
  BY DEF TableInv, Types
<1>3. dropped \subseteq R(i_data_map[f])
  <2>1. \A i \in 2 .. i_blocks(f) : i \in 1 .. Len(i_data_map[f])
    BY <1>2 DEF i_blocks
  <2> QED
    BY <2>1 DEF R
<1> HIDE DEF dropped
<1>4. /\ i_data_map'[f] # << >> /\ i_size'[f] = 0
      /\ \A e \in Files \ {f} : i_data_map'[e] = i_data_map[e] /\ i_size'[e] = i_size[e]
  BY <1>1, <1>2 DEF Types
<1>5. \A e \in Files \ {f} : FlatContents'[e] = FlatContents[e]
  BY <1>1, <1>3, <1>4, DroppedKeepsOthers
<1>6. FlatContents'[f] = << >>
  BY <1>4, EmptyContents
<1> QED
  BY <1>1, <1>2, <1>5, <1>6, SimFresh

LEMMA SameContents ==
  ASSUME TableInv, CursorInv, UNCHANGED <<i_data_map, i_size, page, card>>
  PROVE  FlatContents' = FlatContents
<1>1. \A f \in Files : FlatContents'[f] = FlatContents[f]
  BY KeepsContents
<1> QED
  BY <1>1, ContentsShape

LEMMA SimOpen ==
  ASSUME TableInv, CursorInv, BlockInv, NEW h \in Handles, NEW f \in Files,
         NEW m \in Modes, fs_open(h, f, m)
  PROVE  Flat!Open(h, f, m)
<1> DEFINE n == i_size[f]
           r == dentry_open_file(f, m, n, i_blocks(f))
           s == FlatContents[f]
           a == [file |-> f, mode |-> m, pos |-> IF m = "APPEND" THEN Len(s) ELSE 0]
<1>1. /\ fp[h] = Closed /\ i_data_map[f] # << >> /\ m # "WRITE"
      /\ fp' = [fp EXCEPT ![h] = r] /\ buf' = << >>
      /\ UNCHANGED <<i_data_map, i_size, page, card>>
  BY DEF fs_open, Present, cardVars
<1>2. Types
  BY DEF TableInv
<1>3. Len(s) = n /\ s # Absent
  BY <1>1, PresentContents
<1>4. r \in HandleRec
  BY OpenedType DEF TableInv, Types, i_blocks
<1>5. AbsHandle(r) = a
  BY <1>3 DEF AbsHandle, dentry_open_file
<1>6. FlatContents' = FlatContents
  BY <1>1, SameContents
<1> HIDE DEF r
<1>7. FlatHandle' = [FlatHandle EXCEPT ![h] = AbsHandle(r)]
  BY <1>1, <1>2, <1>4, HandleBecomes, NotAHandle
<1>8. FlatHandle[h] = Closed
  BY <1>1, <1>2, HandleOf DEF Usable
<1>9. (IF FlatContents[f] = Absent \/ m = "WRITE" THEN << >> ELSE FlatContents[f]) = s
  BY <1>1, <1>3
<1>10. FlatContents' = [FlatContents EXCEPT ![f] = s]
  BY <1>6, ContentsShape
<1>11. FlatHandle' = [FlatHandle EXCEPT ![h] = a]
  BY <1>5, <1>7
<1>12. FlatContents[f] # Absent
  BY <1>3
<1>13. buf' = << >>
  BY <1>1
<1> HIDE DEF s
<1> QED
  BY <1>8, <1>9, <1>10, <1>11, <1>12, <1>13 DEF Flat!Open

\* What a read copies out, as a function.
LEMMA Sliced ==
  ASSUME NEW S, NEW s \in Seq(S), NEW p \in Nat, NEW n \in Nat, p + n <= Len(s)
  PROVE  SubSeq(s, p + 1, p + n) = [i \in 1 .. n |-> s[p + i]]
<1> DEFINE t == SubSeq(s, p + 1, p + n)
<1>1. p + 1 \in Int /\ p + n \in Int /\ \A i \in (p + 1) .. (p + n) : s[i] \in S
  OBVIOUS
<1>2. /\ t \in Seq(S)
      /\ Len(t) = IF p + 1 <= p + n THEN (p + n) - (p + 1) + 1 ELSE 0
      /\ \A i \in 1 .. (p + n) - (p + 1) + 1 : t[i] = s[(p + 1) + (i - 1)]
  BY <1>1, SubSeqProperties
<1> HIDE DEF t
<1>3. Len(t) = n
  BY <1>2
<1>4. \A i \in 1 .. n : t[i] = s[p + i]
  <2> SUFFICES ASSUME NEW i \in 1 .. n PROVE t[i] = s[p + i]
    OBVIOUS
  <2>1. i \in 1 .. (p + n) - (p + 1) + 1 /\ (p + 1) + (i - 1) = p + i
    OBVIOUS
  <2> QED
    BY <2>1, <1>2
<1>5. t = [i \in 1 .. n |-> t[i]]
  BY <1>2, <1>3
<1> QED
  BY <1>4, <1>5 DEF t

LEMMA SimRead ==
  ASSUME TableInv, CursorInv, BlockInv, NEW h \in Handles, NEW n \in Lens, fs_read(h, n)
  PROVE  Flat!Read(h, n)
<1> DEFINE f == fp[h].file
           p == fp[h].f_pos
           s == FlatContents[f]
           r == Moved(h, n)
<1>1. /\ Usable(h) /\ Reads(fp[h].mode) /\ p + n <= fp[h].f_size
      /\ n \in Nat /\ n > 0 /\ UNCHANGED <<i_data_map, i_size>>
      /\ buf' = [i \in 1 .. n |-> ByteAt(f, Cursor(h) + i - 1)]
      /\ fp' = [fp EXCEPT ![h] = r]
  BY Fat32Assumption DEF fs_read
<1>2. /\ Types /\ f \in Files /\ i_size[f] \in Nat /\ fp[h].f_size = i_size[f]
      /\ p \in Nat /\ p = Cursor(h) /\ i_data_map[f] # << >>
  BY <1>1, CursorOf
<1>3. r \in HandleRec /\ r.file = f /\ r.mode = fp[h].mode /\ r.f_pos = p + n
  BY <1>1, MovedHandle
<1>4. FlatContents' = FlatContents
  <2>1. card' = card /\ \A c \in Clusters : Fetch(page', card, c) = Fetch(page, card, c)
    BY ReadFills
  <2>2. \A e \in Files : R(i_data_map[e]) \subseteq Clusters
    BY MapType DEF TableInv, Types
  <2>3. \A e \in Files : FlatContents'[e] = FlatContents[e]
    BY <2>1, <2>2, <1>1, KeepsContents
  <2> QED
    BY <2>3, ContentsShape
<1>5. Len(s) = i_size[f] /\ s \in Seq(Values)
  BY <1>2, PresentContents
<1>6. \A j \in 1 .. i_size[f] : s[j] = ByteAt(f, j - 1)
  BY <1>2 DEF FlatContents, Present
<1>7. buf' = SubSeq(s, p + 1, p + n)
  <2>1. ASSUME NEW i \in 1 .. n PROVE ByteAt(f, Cursor(h) + i - 1) = s[p + i]
    <3>1. p + i \in 1 .. i_size[f]
      BY <1>1, <1>2
    <3>2. s[p + i] = ByteAt(f, (p + i) - 1)
      BY <3>1, <1>6
    <3>3. Cursor(h) + i - 1 = (p + i) - 1
      BY <3>1, <1>2
    <3> QED
      BY <3>2, <3>3
  <2>2. buf' = [i \in 1 .. n |-> s[p + i]]
    BY <1>1, <2>1
  <2>3. p + n <= Len(s)
    BY <1>1, <1>2, <1>5
  <2> HIDE DEF s, p
  <2>4. SubSeq(s, p + 1, p + n) = [i \in 1 .. n |-> s[p + i]]
    BY <2>3, <1>1, <1>2, <1>5, Sliced
  <2> QED
    BY <2>2, <2>4
<1> HIDE DEF r
<1>8. /\ FlatHandle' = [FlatHandle EXCEPT ![h].pos = r.f_pos]
      /\ FlatHandle[h].pos = p /\ FlatHandle[h].file = f /\ FlatHandle[h].mode = fp[h].mode
  BY <1>1, <1>2, <1>3, HandleMovesTo
<1>9. FlatHandle[h] \notin {Closed, Deleted}
  BY <1>1, <1>2, HandleOf
<1>10. FlatHandle' = [FlatHandle EXCEPT ![h].pos = @ + n]
  BY <1>3, <1>8
<1>11. p + n <= Len(s) /\ fp[h].mode # "WRITE"
  BY <1>1, <1>2, <1>5 DEF Reads
<1> HIDE DEF s, p, f
<1>12. s = FlatContents[FlatHandle[h].file] /\ p = FlatHandle[h].pos
  BY <1>8 DEF s, f
<1> QED
  BY <1>4, <1>7, <1>8, <1>9, <1>10, <1>11, <1>12
     DEF Flat!Read, Flat!Usable, Flat!Reads

LEMMA DivAbove ==
  ASSUME NEW q \in Nat, NEW t \in Int, t * BlockSize <= q
  PROVE  t <= q \div BlockSize
<1> DEFINE a == BlockSize
           d == q \div a
<1>1. a \in Nat /\ a > 0
  BY SizeType
<1>2. t * a <= q
  OBVIOUS
<1> HIDE DEF a
<1>3. d \in Int /\ q < d * a + a /\ d * a \in Int
  BY <1>1, DivFloor
<1> HIDE DEF d
<1>4. t <= d
  <2> SUFFICES ASSUME d + 1 <= t PROVE FALSE
    BY <1>3
  <2>1. (d + 1) * a <= t * a /\ (d + 1) * a = d * a + a
    BY <1>1, <1>3, Factor, Distribute
  <2>2. t * a \in Int
    BY <1>1
  <2> QED
    BY <2>1, <2>2, <1>1, <1>2, <1>3
<1> QED
  BY <1>4 DEF d, a

\* The bytes of a file after n bytes b were copied to its cursor: m is its map
\* then, which begins with the map it had.
LEMMA CopyBody ==
  ASSUME TableInv, CursorInv, BlockInv, NEW h \in Handles, Usable(h), NEW n \in Nat, n > 0,
         NEW b \in Values, NEW m \in Seq(Clusters), Injective(m),
         Len(i_data_map[fp[h].file]) <= Len(m),
         \A i \in 1 .. Len(i_data_map[fp[h].file]) : m[i] = i_data_map[fp[h].file][i],
         Fits(Len(m), Max2(i_size[fp[h].file], fp[h].f_pos + n)),
         NEW i \in 1 .. Max2(i_size[fp[h].file], fp[h].f_pos + n)
  PROVE  LET f == fp[h].file
             p == fp[h].f_pos
             z == Max2(i_size[f], p + n)
         IN /\ i \notin (p + 1) .. (p + n) => i \in 1 .. i_size[f]
            /\ Body(m, z, Copied(h, m, n, b), card)[i] =
               IF i \in (p + 1) .. (p + n) THEN b
               ELSE Body(i_data_map[f], i_size[f], page, card)[i]
<1> DEFINE f == fp[h].file
           p == fp[h].f_pos
           m0 == i_data_map[f]
           z0 == i_size[f]
           z == Max2(z0, p + n)
           k == fp[h].f_cur_map
           k2 == Moved(h, n).f_cur_map
           q == i - 1
           j == 1 + q \div BlockSize
           o == q % BlockSize
           c == m[j]
           P2 == Copied(h, m, n, b)
           T == \E x \in k .. k2 : x \in DOMAIN m /\ m[x] = c
<1>1. /\ Types /\ f \in Files /\ m0 \in Seq(Clusters) /\ z0 \in Nat /\ Fits(Len(m0), z0)
      /\ k \in 1 .. Len(m0) /\ p \in Nat /\ p = Cursor(h) /\ p <= z0
      /\ fp[h].f_cur_off \in 0 .. BlockSize
  BY CursorOf
<1>2. k2 \in Int /\ Fits(k2, p + n)
  BY MovedHandle
<1>3. z \in Nat /\ z \in {z0, p + n} /\ z >= z0 /\ z >= p + n
  BY <1>1 DEF Max2
<1>4. q \in Nat /\ j \in 1 .. Len(m) /\ o \in 0 .. BlockSize - 1 /\ c \in Clusters
  <2>1. Fits(Len(m), z) /\ i \in 1 .. z
    OBVIOUS
  <2> HIDE DEF z
  <2> QED
    BY <2>1, <1>3, ByteInMap
<1>5. Body(m, z, P2, card)[i] = Fetch(P2, card, c)[o]
  BY DEF Body
<1>6. i \in 1 .. z0 => Body(m0, z0, page, card)[i] = Fetch(page, card, m0[j])[o]
  BY DEF Body
<1>7. /\ ~T => P2[c] = page[c]
      /\ T => /\ P2[c] \in Block
              /\ \E l \in DOMAIN m : m[l] = c /\ P2[c][o] =
                   IF (l - 1) * BlockSize + o \in Cursor(h) .. Cursor(h) + n - 1
                     THEN b ELSE Fetch(page, card, c)[o]
  <2>1. T <=> CopiedInto(h, m, n, c)
    BY Zenon DEF CopiedInto
  <2> HIDE DEF T, o, c
  <2> QED
    BY <2>1, <1>4, CopiedByte
<1> (j - 1) * BlockSize + o = q
  <2> HIDE DEF q
  <2>1. q = (q \div BlockSize) * BlockSize + (q % BlockSize) /\ q \div BlockSize \in Nat
    <3>1. Len(m) \in Int /\ q < Len(m) * BlockSize
      <4>1. z <= Len(m) * BlockSize /\ Len(m) * BlockSize \in Int
        BY SizeType DEF Fits
      <4>2. q < z
        BY <1>3, <1>4 DEF q
      <4> HIDE DEF z
      <4> QED
        BY <4>1, <4>2, <1>3, <1>4
    <3> QED
      BY <3>1, <1>4, BytePlace
  <2>2. j - 1 = q \div BlockSize
    BY <2>1
  <2> QED
    BY <2>1, <2>2
<1>8. i \in (p + 1) .. (p + n) <=> q \in p .. (p + n) - 1
  BY <1>1
<1>9. i \notin (p + 1) .. (p + n) => i \in 1 .. z0
  <2> HIDE DEF z
  <2> QED
    BY <1>1, <1>3 DEF z
<1>10. i \in 1 .. z0 => j \in 1 .. Len(m0)
  BY <1>1, ByteInMap
<1>11. q \in p .. (p + n) - 1 => j \in k .. k2
  <2> SUFFICES ASSUME q \in p .. (p + n) - 1 PROVE j \in k .. k2
    OBVIOUS
  <2> DEFINE X == (k - 1) * BlockSize
             d == q \div BlockSize
  <2>1. k - 1 \in Int /\ X \in Int /\ k \in Int
    BY <1>1, SizeType
  <2>2. p = X + fp[h].f_cur_off /\ fp[h].f_cur_off \in Nat
    BY <1>1, SizeType DEF Cursor
  <2>3. X <= q
    <3>1. p \in Nat /\ q \in Nat /\ q >= p
      BY <1>1, <1>4
    <3>2. X \in Int /\ p = X + fp[h].f_cur_off /\ fp[h].f_cur_off \in Nat
      BY <2>1, <2>2
    <3> HIDE DEF X, q, p
    <3> QED
      BY <3>1, <3>2
  <2>4. k - 1 <= d
    <3> HIDE DEF q
    <3> QED
      BY <2>1, <2>3, <1>4, DivAbove
  <2>5. p + n <= k2 * BlockSize /\ k2 * BlockSize \in Int
    BY <1>2, SizeType DEF Fits
  <2>6. q < k2 * BlockSize
    BY <2>5, <1>1, <1>4
  <2>7. 1 + d \in 1 .. k2 /\ d \in Nat
    <3> HIDE DEF q
    <3> QED
      BY <2>6, <1>2, <1>4, BytePlace
  <2> HIDE DEF d
  <2> QED
    BY <2>1, <2>4, <2>7, <1>2 DEF d
<1>12. DOMAIN m = 1 .. Len(m)
  OBVIOUS
<1>13. CASE T
  <2> PICK l \in DOMAIN m : m[l] = c /\ P2[c][o] =
              IF (l - 1) * BlockSize + o \in Cursor(h) .. Cursor(h) + n - 1
                THEN b ELSE Fetch(page, card, c)[o]
    BY <1>7, <1>13, Zenon
  <2>1. l = j
    <3> HIDE DEF j, c
    <3>1. l \in 1 .. Len(m) /\ j \in 1 .. Len(m) /\ m[l] = m[j]
      BY <1>4, <1>12 DEF c
    <3> QED
      BY <3>1 DEF Injective
  <2>2. P2[c] # NoPage
    BY <1>7, <1>13, Fat32Assumption
  <2>3. Fetch(P2, card, c) = P2[c]
    BY <2>2 DEF Fetch
  <2>4. (l - 1) * BlockSize + o = q
    BY <2>1
  <2> HIDE DEF o, q, c, P2, T
  <2>5. Cursor(h) .. Cursor(h) + n - 1 = p .. (p + n) - 1
    BY <1>1
  <2>6. Fetch(P2, card, c)[o] = IF q \in p .. (p + n) - 1
                              THEN b ELSE Fetch(page, card, c)[o]
    BY <2>3, <2>4, <2>5
  <2>7. i \in 1 .. z0 => m0[j] = c
    BY <1>10 DEF c
  <2> HIDE DEF j, m0, z0, z, p
  <2>8. Body(m, z, P2, card)[i] =
          IF i \in (p + 1) .. (p + n) THEN b ELSE Body(m0, z0, page, card)[i]
    BY <1>5, <1>6, <1>8, <1>9, <2>6, <2>7
  <2> QED
    BY <1>9, <2>8 DEF m0, z0, z, p, P2
<1>14. CASE ~T
  <2>1. ~(j \in k .. k2)
    BY <1>4, <1>12, <1>14
  <2>2. i \notin (p + 1) .. (p + n)
    BY <2>1, <1>8, <1>11
  <2>3. i \in 1 .. z0 /\ m0[j] = c
    BY <2>2, <1>9, <1>10
  <2>4. Fetch(P2, card, c) = Fetch(page, card, c)
    BY <1>7, <1>14 DEF Fetch
  <2> HIDE DEF o, q, c, P2, T, j, m0, z0, z, p
  <2>5. Body(m, z, P2, card)[i] = Body(m0, z0, page, card)[i]
    BY <1>5, <1>6, <2>3, <2>4
  <2> QED
    BY <2>2, <2>3, <2>5 DEF m0, z0, z, p, P2
<1> QED
  BY <1>13, <1>14

\* A write: the file gets the bytes, the other files keep theirs.
LEMMA SimPut ==
  ASSUME TableInv, CursorInv, BlockInv, NEW h \in Handles, Usable(h), Writes(fp[h].mode),
         NEW n \in Nat, n > 0, NEW b \in Values, NEW m \in Seq(Clusters), Injective(m),
         Len(i_data_map[fp[h].file]) <= Len(m),
         \A i \in 1 .. Len(i_data_map[fp[h].file]) : m[i] = i_data_map[fp[h].file][i],
         Fits(Len(m), Max2(i_size[fp[h].file], fp[h].f_pos + n)),
         Put(h, m, n, b), card' = card, buf' = << >>, m # << >>,
         \A e \in Files \ {fp[h].file} : R(i_data_map[e]) \cap R(m) = {}
  PROVE  Flat!Write(h, n, b)
<1> DEFINE f == fp[h].file
           p == fp[h].f_pos
           z0 == i_size[f]
           z == Max2(z0, p + n)
           s == FlatContents[f]
           t == FlatContents'[f]
<1>1. /\ Types /\ f \in Files /\ z0 \in Nat /\ p \in Nat /\ i_data_map[f] # << >>
  BY CursorOf
<1>2. /\ z \in Nat /\ i_data_map'[f] = m /\ i_size'[f] = z
      /\ \A e \in Files \ {f} : i_data_map'[e] = i_data_map[e] /\ i_size'[e] = i_size[e]
      /\ \E r \in HandleRec :
                 /\ fp' = [fp EXCEPT ![h] = r]
                 /\ r.file = f /\ r.mode = fp[h].mode /\ r.f_pos = p + n
  BY PutParts
<1>3. page' = Copied(h, m, n, b)
  BY DEF Put
<1>4. s = Body(i_data_map[f], z0, page, card) /\ Len(s) = z0
  BY <1>1, PresentContents
<1>5. t = Body(m, z, Copied(h, m, n, b), card)
  BY <1>1, <1>2, <1>3, ContentsOfNext
<1>6. \A i \in 1 .. z : Body(m, z, Copied(h, m, n, b), card)[i] =
        IF i \in (p + 1) .. (p + n) THEN b ELSE Body(i_data_map[f], z0, page, card)[i]
  BY CopyBody
<1>7. t = [i \in 1 .. z |-> IF i \in (p + 1) .. (p + n) THEN b ELSE s[i]]
  <2>1. t = [i \in 1 .. z |-> t[i]]
    BY <1>5 DEF Body
  <2>2. \A i \in 1 .. z : t[i] = IF i \in (p + 1) .. (p + n) THEN b ELSE s[i]
    BY <1>4, <1>5, <1>6
  <2> HIDE DEF t, s, z, p
  <2> QED
    BY <2>1, <2>2
<1>8. z = IF p + n > Len(s) THEN p + n ELSE Len(s)
  <2> HIDE DEF s, p, z0
  <2> QED
    BY <1>1, <1>4 DEF Max2
<1>9. \A e \in Files \ {f} : FlatContents'[e] = FlatContents[e]
  <2>1. \A c \in Clusters \ R(m) : Fetch(page', card', c) = Fetch(page, card, c)
    <3> SUFFICES ASSUME NEW c \in Clusters \ R(m)
                 PROVE  Fetch(page', card', c) = Fetch(page, card, c)
      OBVIOUS
    <3>1. \A k \in DOMAIN m : m[k] # c
      BY DEF R
    <3>2. page'[c] = page[c]
      BY <1>3, <3>1, CopiedBlock
    <3> QED
      BY <3>2 DEF Fetch
  <2> HIDE DEF f
  <2> QED
    BY <2>1, <1>1, <1>2, OthersKeepContents DEF f
<1>10. FlatContents' = [FlatContents EXCEPT ![f] = t]
  <2> FlatContents'[f] = t
    OBVIOUS
  <2> HIDE DEF f, t
  <2> QED
    BY <1>1, <1>9, ContentsShape
<1>11. PICK r \in HandleRec : /\ fp' = [fp EXCEPT ![h] = r]
                              /\ r.file = f /\ r.mode = fp[h].mode /\ r.f_pos = p + n
  BY <1>2
<1>12. /\ FlatHandle' = [FlatHandle EXCEPT ![h].pos = p + n]
       /\ FlatHandle[h].pos = p /\ FlatHandle[h].file = f /\ FlatHandle[h].mode = fp[h].mode
  BY <1>1, <1>11, HandleMovesTo
<1>13. FlatHandle[h] \notin {Closed, Deleted}
  BY <1>1, HandleOf
<1>14. FlatHandle' = [FlatHandle EXCEPT ![h].pos = @ + n] /\ FlatHandle[h].mode # "READ"
  BY <1>12 DEF Writes
<1> HIDE DEF f, p, z, t
<1>15. Flat!Overwritten(s, p, n, b) = t
  <2> HIDE DEF s
  <2> QED
    BY <1>7, <1>8 DEF Flat!Overwritten
<1>16. FlatContents' = [FlatContents EXCEPT ![FlatHandle[h].file] =
                    Flat!Overwritten(@, FlatHandle[h].pos, n, b)]
  BY <1>10, <1>12, <1>15
<1> QED
  BY <1>13, <1>14, <1>16 DEF Flat!Write, Flat!Usable, Flat!Writes

LEMMA SimWrite ==
  ASSUME TableInv, ChainInv, CursorInv, BlockInv, NEW h \in Handles, NEW n \in Lens,
         NEW b \in UNION {Bytes[f] : f \in Files}, fs_write(h, n, b)
  PROVE  Flat!Write(h, n, b)
<1> DEFINE f == fp[h].file
           m == i_data_map[f]
<1>1. /\ Usable(h) /\ n \in Nat /\ n > 0 /\ Put(h, m, n, b)
      /\ m \in Seq(Clusters) /\ m # << >>
      /\ Fits(Len(m), Max2(i_size[f], fp[h].f_pos + n))
  BY WriteFits
<1>2. Writes(fp[h].mode) /\ card' = card /\ buf' = << >>
  BY DEF fs_write, cardVars
<1>3. f \in Files /\ b \in Values
  BY <1>1, CursorOf, ByteType
<1>4. Injective(m)
  BY <1>1, <1>3 DEF ChainInv, Present, MapOK
<1>5. \A e \in Files \ {f} : R(i_data_map[e]) \cap R(m) = {}
  BY <1>3 DEF TableInv, OwnedOK
<1>6. /\ Len(i_data_map[fp[h].file]) <= Len(m)
      /\ \A i \in 1 .. Len(i_data_map[fp[h].file]) : m[i] = i_data_map[fp[h].file][i]
  BY <1>1
<1> HIDE DEF m
<1> QED
  BY <1>1, <1>2, <1>3, <1>4, <1>5, <1>6, SimPut

LEMMA SimExpands ==
  ASSUME TableInv, TableInv', ChainInv, ChainInv', CursorInv, BlockInv,
         NEW h \in Handles, NEW n \in Lens,
         NEW b \in UNION {Bytes[f] : f \in Files}, fs_write_expands(h, n, b)
  PROVE  Flat!Write(h, n, b)
<1> DEFINE f == fp[h].file
           m0 == i_data_map[f]
           blks == expand_blks(f, fp[h].f_pos + n)
<1>1. m0 \in Seq(Clusters) /\ m0 # << >> /\ f \in Files /\ Types
  BY ExpandsTakes
<1>2. PICK s \in [1 .. blks -> Clusters] : Put(h, m0 \o s, n, b)
  BY ExpandsTakes
<1>3. /\ Usable(h) /\ n \in Nat /\ n > 0 /\ blks \in Nat
      /\ Fits(Len(m0) + blks, Max2(i_size[f], fp[h].f_pos + n))
  BY ExpandsFits
<1> HIDE DEF blks
<1>4. s \in Seq(Clusters) /\ Len(s) = blks
  BY <1>3, FunctionIsMap
<1> DEFINE m == m0 \o s
<1>5. m \in Seq(Clusters) /\ Len(m) = Len(m0) + blks /\ m # << >>
  <2> HIDE DEF m0
  <2>1. m0 \o s \in Seq(Clusters) /\ m0 \o s # << >>
    BY <1>1, <1>4, ConcatenatedMaps
  <2>2. Len(m0 \o s) = Len(m0) + Len(s)
    BY <1>1, <1>4
  <2> QED
    BY <2>1, <2>2, <1>4
<1>6. /\ Len(i_data_map[fp[h].file]) <= Len(m)
      /\ \A i \in 1 .. Len(i_data_map[fp[h].file]) : m[i] = i_data_map[fp[h].file][i]
  BY <1>1, <1>3, <1>4, <1>5
<1>7. Put(h, m, n, b)
  BY <1>2
<1> HIDE DEF m
<1>8. Fits(Len(m), Max2(i_size[fp[h].file], fp[h].f_pos + n))
  BY <1>3, <1>5
<1>9. Writes(fp[h].mode) /\ card' = card /\ buf' = << >>
  BY DEF fs_write_expands
<1>10. b \in Values
  BY ByteType
<1>11. i_data_map' = [i_data_map EXCEPT ![f] = m]
  BY <1>7 DEF Put
<1> HIDE DEF f
<1>12. i_data_map'[f] = m /\ \A e \in Files \ {f} : i_data_map'[e] = i_data_map[e]
  BY <1>1, <1>11 DEF Types
<1>13. Injective(m)
  BY <1>1, <1>5, <1>12 DEF ChainInv, Present, MapOK
<1>14. \A e \in Files \ {f} : R(i_data_map[e]) \cap R(m) = {}
  <2> SUFFICES ASSUME NEW e \in Files \ {f} PROVE R(i_data_map[e]) \cap R(m) = {}
    OBVIOUS
  <2>1. R(i_data_map'[e]) \cap R(i_data_map'[f]) = {}
    BY <1>1 DEF TableInv, OwnedOK
  <2> QED
    BY <2>1, <1>12
<1> QED
  BY <1>3, <1>5, <1>6, <1>7, <1>8, <1>9, <1>10, <1>13, <1>14, SimPut DEF f

LEMMA SimSeek ==
  ASSUME TableInv, CursorInv, BlockInv, NEW h \in Handles,
         NEW flag \in {"HEAD", "TAIL", "CUR"}, NEW o \in Offsets, fs_seek(h, flag, o)
  PROVE  Flat!Seek(h, flag, o)
<1>1. /\ Usable(h) /\ buf' = << >> /\ UNCHANGED <<i_data_map, i_size, page, card>>
  BY DEF fs_seek, cardVars
<1>2. PICK r \in HandleRec :
              /\ fp' = [fp EXCEPT ![h] = r]
              /\ r.file = fp[h].file /\ r.mode = fp[h].mode
              /\ r.f_pos = SeekTo(h, flag, o) /\ fp[h].f_size = i_size[fp[h].file]
  BY CursorSeek
<1>3. Types /\ fp[h].file \in Files /\ i_data_map[fp[h].file] # << >>
  BY <1>1, CursorOf
<1>4. /\ FlatHandle' = [FlatHandle EXCEPT ![h].pos = r.f_pos]
      /\ FlatHandle[h].file = fp[h].file /\ FlatHandle[h].pos = fp[h].f_pos
  BY <1>1, <1>2, <1>3, HandleMovesTo
<1>5. FlatHandle[h] \notin {Closed, Deleted}
  BY <1>1, <1>3, HandleOf
<1>6. FlatContents' = FlatContents
  BY <1>1, SameContents
<1>7. Len(FlatContents[fp[h].file]) = fp[h].f_size
  BY <1>2, <1>3, PresentContents
<1> DEFINE end == Len(FlatContents[FlatHandle[h].file])
           base == CASE flag = "HEAD" -> 0
                     [] flag = "TAIL" -> end
                     [] flag = "CUR" -> FlatHandle[h].pos
<1>8. r.f_pos = IF base + o \in 0 .. end THEN base + o ELSE end
  BY <1>2, <1>4, <1>7 DEF SeekTo
<1> QED
  BY <1>1, <1>4, <1>5, <1>6, <1>8 DEF Flat!Seek, Flat!Usable

LEMMA SimDelete ==
  ASSUME TableInv, CursorInv, BlockInv, NEW h \in Handles, fs_delete(h)
  PROVE  Flat!Delete(h)
<1> DEFINE f == fp[h].file
           dropped == {i_data_map[f][i] : i \in 1 .. i_blocks(f)}
<1>1. /\ Usable(h) /\ i_data_map' = [i_data_map EXCEPT ![f] = << >>]
      /\ i_size' = [i_size EXCEPT ![f] = 0] /\ fp' = [fp EXCEPT ![h] = Deleted]
      /\ card' = Forgotten(dropped) /\ buf' = << >>
      /\ page' = [x \in Clusters |-> IF x \in dropped THEN NoPage ELSE page[x]]
  BY DEF fs_delete
<1>2. Types /\ f \in Files
  BY <1>1, CursorOf
<1>3. dropped \subseteq R(i_data_map[f])
  BY DEF R, i_blocks
<1>4. FlatHandle[h] \notin {Closed, Deleted} /\ FlatHandle[h].file = f
  <2>1. FlatHandle[h] = AbsHandle(fp[h]) /\ FlatHandle[h] \notin {Closed, Deleted}
    BY <1>1, <1>2, HandleOf
  <2>2. AbsHandle(fp[h]).file = fp[h].file
    BY DEF AbsHandle
  <2> QED
    BY <2>1, <2>2
<1>5. FlatHandle' = [FlatHandle EXCEPT ![h] = Deleted]
  BY <1>1, <1>2, HandleBecomes
<1> HIDE DEF dropped, f
<1>6. /\ i_data_map'[f] = << >>
      /\ \A e \in Files \ {f} : i_data_map'[e] = i_data_map[e] /\ i_size'[e] = i_size[e]
  BY <1>1, <1>2 DEF Types
<1>7. \A e \in Files \ {f} : FlatContents'[e] = FlatContents[e]
  BY <1>1, <1>2, <1>3, <1>6, DroppedKeepsOthers
<1>8. FlatContents'[f] = Absent
  BY <1>2, <1>6, ContentsOfNext
<1>9. FlatContents' = [FlatContents EXCEPT ![f] = Absent]
  BY <1>2, <1>7, <1>8, ContentsShape
<1> QED
  BY <1>1, <1>4, <1>5, <1>9 DEF Flat!Delete, Flat!Usable

\* Closing writes pages to the card: get_fspage finds the same as before.
LEMMA SimClose ==
  ASSUME TableInv, CursorInv, BlockInv, NEW h \in Handles, fs_close(h)
  PROVE  Flat!Close(h)
<1>1. /\ Usable(h) /\ fp' = [fp EXCEPT ![h] = Closed] /\ buf' = << >>
      /\ UNCHANGED <<i_data_map, i_size, page>>
      /\ card' = [c \in Clusters |-> IF c \in Flushed(h) THEN page[c] ELSE card[c]]
  BY DEF fs_close
<1>2. \A c \in Flushed(h) : c \in Clusters /\ page[c] # NoPage
  BY DEF Flushed, BlockInv
<1>3. \A c \in Clusters : Fetch(page', card', c) = Fetch(page, card, c)
  BY <1>1, <1>2 DEF Fetch
<1>4. \A e \in Files : R(i_data_map[e]) \subseteq Clusters
  BY MapType DEF TableInv, Types
<1>5. \A e \in Files : FlatContents'[e] = FlatContents[e]
  BY <1>1, <1>3, <1>4, KeepsContents
<1>6. FlatContents' = FlatContents
  BY <1>5, ContentsShape
<1>7. FlatHandle' = [FlatHandle EXCEPT ![h] = Closed] /\ FlatHandle[h] # Closed
  BY <1>1, HandleBecomes, HandleOf DEF TableInv
<1> QED
  BY <1>1, <1>6, <1>7 DEF Flat!Close

LEMMA SimCloseDeleted ==
  ASSUME TableInv, CursorInv, NEW h \in Handles, fs_close_deleted(h)
  PROVE  Flat!Close(h) \/ Flat!Idle
<1>1. /\ fp[h] = Deleted /\ fp' = [fp EXCEPT ![h] = Closed] /\ buf' = << >>
      /\ UNCHANGED <<i_data_map, i_size, page, card>>
  BY DEF fs_close_deleted, cardVars
<1>2. FlatContents' = FlatContents
  BY <1>1, SameContents
<1>3. FlatHandle' = [FlatHandle EXCEPT ![h] = Closed] /\ FlatHandle[h] = Deleted
  BY <1>1, HandleBecomes, HandleOf DEF TableInv, Usable
<1>4. CASE FlatHandle[h] # Closed
  BY <1>1, <1>2, <1>3, <1>4 DEF Flat!Close
<1>5. CASE FlatHandle[h] = Closed
  <2>1. FlatHandle' = FlatHandle
    BY <1>3, <1>5, ContentsShape
  <2> QED
    BY <1>1, <1>2, <2>1 DEF Flat!Idle
<1> QED
  BY <1>4, <1>5

\* Switching the machine off with every file closed loses nothing.
LEMMA SimPowerCycle ==
  ASSUME TableInv, TableInv', PageInv, ChainInv, CursorInv, BlockInv, power_cycle
  PROVE  Flat!Idle
<1>1. /\ \A h \in Handles : fp[h] = Closed
      /\ page' = [c \in Clusters |-> NoPage] /\ buf' = << >> /\ UNCHANGED <<card, fp>>
  BY DEF power_cycle, cardVars
<1>2. \A f \in Files : /\ i_data_map'[f] = i_data_map[f]
                       /\ i_data_map[f] # << >> => i_size'[f] = i_size[f]
  BY PowerKeepsFiles
<1>3. ASSUME NEW f \in Files, i_data_map[f] # << >>, NEW c \in R(i_data_map[f])
      PROVE  Fetch(page', card', c) = Fetch(page, card, c)
  <2>1. ~HeldDirty(fp, f)
    BY <1>1 DEF HeldDirty
  <2>2. c \notin Dirty
    BY <1>3, <2>1 DEF PageInv, DirtOK
  <2>3. c \in Clusters
    BY MapType, <1>3 DEF TableInv, Types
  <2>4. page[c] = NoPage \/ page[c] = card[c]
    BY <2>2, <2>3 DEF PageInv, CleanOK
  <2> QED
    BY <2>3, <2>4, <1>1 DEF Fetch
<1>4. ASSUME NEW f \in Files PROVE FlatContents'[f] = FlatContents[f]
  <2>1. CASE i_data_map[f] = << >>
    BY <2>1, <1>2, ContentsOf, ContentsOfNext
  <2>2. CASE i_data_map[f] # << >>
    BY <2>2, <1>2, <1>3, KeepsContents
  <2> QED
    BY <2>1, <2>2
<1>5. FlatContents' = FlatContents
  BY <1>4, ContentsShape
<1>6. FlatHandle' = FlatHandle
  BY <1>1 DEF FlatHandle, Usable
<1> QED
  BY <1>1, <1>5, <1>6 DEF Flat!Idle

LEMMA SimStep ==
  TableInv /\ TableInv' /\ PageInv /\ ChainInv /\ ChainInv' /\ CursorInv /\ BlockInv
  /\ [Next]_vars => [Flat!Next]_(Flat!flatVars)
<1> SUFFICES ASSUME TableInv, TableInv', PageInv, ChainInv, ChainInv', CursorInv, BlockInv,
                    [Next]_vars
             PROVE  [Flat!Next]_(Flat!flatVars)
  OBVIOUS
<1>1. CASE UNCHANGED vars
  <2>1. UNCHANGED <<i_data_map, i_size, page, card, fp, buf>>
    BY <1>1 DEF vars, cardVars
  <2>2. FlatContents' = FlatContents
    BY <2>1, SameContents
  <2>3. FlatHandle' = FlatHandle
    BY <2>1 DEF FlatHandle, Usable
  <2> QED
    BY <2>1, <2>2, <2>3 DEF Flat!flatVars
<1>2. ASSUME NEW h \in Handles, NEW f \in Files, NEW m \in Modes,
             create_dentry(h, f, m) \/ fs_open(h, f, m)
      PROVE  Flat!Next
  <2>1. Flat!Open(h, f, m)
    BY <1>2, SimCreate, SimOpen
  <2> QED
    BY <2>1 DEF Flat!Next
<1>3. ASSUME NEW h \in Handles, NEW f \in Files, clear(h, f) PROVE Flat!Next
  <2>1. Flat!Open(h, f, "WRITE")
    BY <1>3, SimClear
  <2> QED
    BY <2>1 DEF Flat!Next
<1>4. ASSUME NEW h \in Handles, NEW n \in Lens, fs_read(h, n) PROVE Flat!Next
  <2>1. Flat!Read(h, n)
    BY <1>4, SimRead
  <2> QED
    BY <2>1 DEF Flat!Next
<1>5. ASSUME NEW h \in Handles, NEW n \in Lens, NEW b \in UNION {Bytes[f] : f \in Files},
             fs_write(h, n, b) \/ fs_write_expands(h, n, b)
      PROVE  Flat!Next
  <2>1. Flat!Write(h, n, b)
    BY <1>5, SimWrite, SimExpands
  <2> QED
    BY <2>1 DEF Flat!Next
<1>6. ASSUME NEW h \in Handles, NEW flag \in {"HEAD", "TAIL", "CUR"},
             NEW o \in Offsets, fs_seek(h, flag, o)
      PROVE  Flat!Next
  <2>1. Flat!Seek(h, flag, o)
    BY <1>6, SimSeek
  <2> QED
    BY <2>1 DEF Flat!Next
<1>7. ASSUME NEW h \in Handles, fs_delete(h) \/ fs_close(h) \/ fs_close_deleted(h)
      PROVE  Flat!Next
  <2>1. Flat!Delete(h) \/ Flat!Close(h) \/ Flat!Idle
    BY <1>7, SimDelete, SimClose, SimCloseDeleted
  <2> QED
    BY <2>1 DEF Flat!Next
<1>8. CASE power_cycle
  <2>1. Flat!Idle
    BY <1>8, SimPowerCycle
  <2> QED
    BY <2>1 DEF Flat!Next
<1>9. CASE Leaves
  <2>1. UNCHANGED <<i_data_map, i_size, page, card, fp>> /\ buf' = << >>
    BY <1>9, LeavesFiles
  <2>2. FlatContents' = FlatContents
    BY <2>1, SameContents
  <2>3. FlatHandle' = FlatHandle
    BY <2>1 DEF FlatHandle, Usable
  <2>4. Flat!Idle
    BY <2>1, <2>2, <2>3 DEF Flat!Idle
  <2> QED
    BY <2>4 DEF Flat!Next
<1> QED
  BY <1>1, <1>2, <1>3, <1>4, <1>5, <1>6, <1>7, <1>8, <1>9 DEF Next, Leaves

\* The FAT32 file system implements flat files for a card of any size: a read
\* returns the bytes last written there whatever was extended, emptied, deleted
\* or flushed in between, and switching the machine off with every file closed
\* changes no file; until a file is opened twice, the page cache is full, or a
\* restart meets a broken chain, where Fat32 stops (read_write.c 6-128, open.c
\* 9-55, fscache.c:42, fat.c 483-500).
THEOREM Fat32ImplementsFlatFile == Spec => ImplementsFlatFile
<1>1. Init => Flat!Init
  <2> SUFFICES ASSUME Init PROVE Flat!Init
    OBVIOUS
  <2>1. FlatContents = [f \in Files |-> Absent]
    BY DEF Init, FlatContents, Present
  <2>2. FlatHandle = [h \in Handles |-> Closed]
    BY DEF Init, FlatHandle, Usable
  <2> QED
    BY <2>1, <2>2 DEF Init, Flat!Init
<1> QED
  BY <1>1, SimStep, TableInvariant, PageInvariant, ChainInvariant, CursorInvariant,
     BlockInvariant, PTL DEF Spec, ImplementsFlatFile, Flat!Spec
=============================================================================
