----------------------------- MODULE SchedProofs ----------------------------
(***************************************************************************)
(* Proofs about process control, for any number of tasks, pids, semaphores *)
(* and callers.                                                            *)
(*                                                                         *)
(* Semaphores: SemInv says that no value, and nothing a preempted call has *)
(* loaded, is above the number of calls of V.                              *)
(*                                                                         *)
(* Pids: PidInv says that the pid of a task is marked, and that a pid      *)
(* which is chosen and not yet marked is nobody's.                         *)
(*                                                                         *)
(* Lists: ListInv says that the pointers form one ring through each head.  *)
(* Along a ring a rank counts the steps to its head; ranks move by one     *)
(* when a task is unlinked or added, and there are never more of them than *)
(* tasks, so following pointers for MaxTasks steps is enough.  Which ring  *)
(* a task is on (own) is hidden behind an existential quantifier: the code *)
(* keeps no such field.                                                    *)
(***************************************************************************)
EXTENDS Sched, WellFoundedInduction, TLAPS

-----------------------------------------------------------------------------
(* Following the pointers of a list.                                       *)

Heads == {S, W, X}

\* A set of numbers has a least one.
LEMMA Least ==
  ASSUME NEW I, I \subseteq Nat, I # {}
  PROVE  \E m \in I : \A k \in I : m <= k
<1>1. IsWellFoundedOn(OpToRel(<, Nat), Nat)
  BY NatLessThanWellFounded
<1>2. PICK m \in I : \A k \in I : ~(<<k, m>> \in OpToRel(<, Nat))
  BY <1>1, WFMin
<1>3. \A k \in I : ~(k < m)
  BY <1>2 DEF OpToRel
<1> QED
  BY <1>3

\* One step further than f goes with k - 1.
Further(f, k) ==
  [m \in Nodes |-> IF m \in {S, W, X} \/ k = 0 THEN m ELSE f[k - 1][next[m]]]

\* Following pointers is well defined for any number of steps.
LEMMA WalksExist ==
  ASSUME NEW n \in Nat
  PROVE  \E f : f = [k \in 0 .. n |-> Further(f, k)]
<1> DEFINE Missing == {i \in Nat : ~ \E f : f = [k \in 0 .. i |-> Further(f, k)]}
<1> SUFFICES ASSUME Missing # {} PROVE FALSE
  OBVIOUS
<1>1. PICK i \in Missing : \A j \in Missing : i <= j
  BY Least
<1>2. i \in Nat /\ ~ \E f : f = [k \in 0 .. i |-> Further(f, k)]
  OBVIOUS
<1>3. CASE i = 0
  <2> DEFINE h == [k \in 0 .. 0 |-> [m \in Nodes |-> m]]
  <2>1. \A k \in 0 .. 0 : Further(h, k) = [m \in Nodes |-> m]
    BY DEF Further
  <2>2. h = [k \in 0 .. 0 |-> Further(h, k)]
    BY <2>1
  <2> HIDE DEF h
  <2> QED
    BY <2>2, <1>2, <1>3
<1>4. CASE i # 0
  <2>1. i - 1 \in Nat /\ ~(i <= i - 1)
    BY <1>2, <1>4
  <2>2. i - 1 \notin Missing
    BY <2>1, <1>1
  <2>3. PICK f : f = [k \in 0 .. (i - 1) |-> Further(f, k)]
    BY <2>1, <2>2
  <2> DEFINE h == [k \in 0 .. i |-> IF k = i THEN Further(f, i) ELSE f[k]]
  <2>4. ASSUME NEW k \in 0 .. i PROVE h[k] = Further(h, k)
    <3>1. k = 0 \/ (k - 1 \in 0 .. (i - 1) /\ h[k - 1] = f[k - 1])
      BY <1>2, <1>4
    <3>2. Further(h, k) = Further(f, k)
      BY <3>1 DEF Further
    <3>3. CASE k = i
      BY <3>2, <3>3
    <3>4. CASE k # i
      <4>1. k \in 0 .. (i - 1)
        BY <3>4, <1>2
      <4> QED
        BY <3>2, <3>4, <4>1, <2>3
    <3> QED
      BY <3>3, <3>4
  <2>5. h = [k \in 0 .. i |-> Further(h, k)]
    BY <2>4
  <2> HIDE DEF h
  <2> QED
    BY <2>5, <1>2
<1> QED
  BY <1>3, <1>4

LEMMA FollowIs ==
  /\ Follow = [k \in 0 .. MaxTasks |-> Further(Follow, k)]
  /\ \A k \in 0 .. MaxTasks : Follow[k] = Further(Follow, k)
<1> DEFINE Q(f) == f = [k \in 0 .. MaxTasks |-> Further(f, k)]
<1>1. MaxTasks \in Nat
  BY SchedAssumption
<1>2. \E f : Q(f)
  BY <1>1, WalksExist
<1>3. Follow = CHOOSE f : Q(f)
  BY DEF Follow, Further
<1> HIDE DEF Q
<1>4. Q(Follow)
  BY <1>2, <1>3
<1>5. Follow = [k \in 0 .. MaxTasks |-> Further(Follow, k)]
  BY <1>4 DEF Q
<1> QED
  BY <1>5

-----------------------------------------------------------------------------
(* Semaphores.                                                             *)

\* Where a task may be in getSem, P or V, as long as V was called r times.
SemPlace(a, r) ==
  /\ a.pc \in {"sem_find", "sem_claim"} => a.arg \in 0 .. SemMax
  /\ a.pc \in {"sem_init", "p_test", "p_load", "p_store", "v_load", "v_store"}
       => a.arg \in Slots
  /\ a.pc \in {"p_load", "p_store"} => r > 0

SemRec == [key : [Slots -> BOOLEAN], value : [Slots -> Int],
           loaded : [Tasks -> Int], raised : Nat]

\* No value, in a slot or loaded, is more than the number of calls of V.
SemInv ==
  /\ sem \in SemRec
  /\ at = [t \in Tasks |-> at[t]]
  /\ \A i \in Slots : sem.value[i] <= sem.raised
  /\ \A t \in Tasks : sem.loaded[t] <= sem.raised /\ SemPlace(at[t], sem.raised)

LEMMA SemInit == Init => SemInv
<1> SUFFICES ASSUME Init PROVE SemInv
  OBVIOUS
<1>1. at = [t \in Tasks |-> Idling] /\ \A t \in Tasks : at[t] = Idling
  BY DEF Init
<1>2. SemPlace(Idling, 0)
  BY DEF SemPlace, Idling
<1>3. sem = [key |-> [i \in Slots |-> FALSE], value |-> [i \in Slots |-> 0],
             loaded |-> [t \in Tasks |-> 0], raised |-> 0]
  BY DEF Init
<1>4. sem \in SemRec /\ sem.raised = 0 /\ (\A i \in Slots : sem.value[i] = 0)
      /\ \A t \in Tasks : sem.loaded[t] = 0
  BY <1>3 DEF SemRec
<1>5. at = [t \in Tasks |-> at[t]]
  BY <1>1
<1> QED
  BY <1>1, <1>2, <1>4, <1>5 DEF SemInv

\* A task goes on in its call; the slots change or not.
LEMMA SemMoves ==
  ASSUME SemInv, NEW t \in Tasks, NEW a, at' = [at EXCEPT ![t] = a],
         sem' \in SemRec, sem.raised <= sem'.raised, SemPlace(a, sem'.raised),
         \A i \in Slots : sem'.value[i] <= sem'.raised,
         \A u \in Tasks : sem'.loaded[u] <= sem'.raised
  PROVE  SemInv'
<1>1. at' = [u \in Tasks |-> at'[u]] /\ at'[t] = a /\ \A u \in Tasks \ {t} : at'[u] = at[u]
  BY DEF SemInv
<1>2. sem.raised \in Nat /\ sem'.raised \in Nat
  BY DEF SemInv, SemRec
<1>3. \A u \in Tasks \ {t} : SemPlace(at[u], sem'.raised)
  BY <1>2 DEF SemInv, SemPlace
<1> QED
  BY <1>1, <1>3 DEF SemInv

LEMMA SemStays ==
  ASSUME SemInv, NEW t \in Tasks, NEW a, at' = [at EXCEPT ![t] = a], sem' = sem,
         SemPlace(a, sem.raised)
  PROVE  SemInv'
<1>1. sem.raised \in Nat
  BY DEF SemInv, SemRec
<1> QED
  BY <1>1, SemMoves DEF SemInv

LEMMA SemUntouched ==
  ASSUME SemInv, UNCHANGED <<sem, at>>
  PROVE  SemInv'
  BY DEF SemInv

\* Calls that are not about semaphores.
LEMMA SemOther ==
  ASSUME SemInv, NEW t \in Tasks,
         \/ loadUserProgram(t) \/ task_create(t) \/ task_create_mark(t) \/ task_create_link(t)
         \/ task_create_running(t) \/ (\E u \in Targets, sig \in KillSignals : kill(t, u, sig))
         \/ kill_store(t)
         \/ waitpid(t) \/ waitpid_add(t) \/ waitpid_status(t) \/ waitpid_return(t)
  PROVE  SemInv'
<1>1. CASE loadUserProgram(t)
  BY <1>1, SemUntouched DEF loadUserProgram
<1>2. ASSUME NEW pc, NEW arg, NEW val, sem' = sem, Goto(t, pc, arg, val),
             pc \in {"pid_mark", "link", "set_running", "kill_store", "wait_add",
                     "wait_status", "wait_spin"}
      PROVE  SemInv'
  <2> DEFINE a == [pc |-> pc, arg |-> arg, val |-> val]
  <2>1. SemPlace(a, sem.raised)
    BY <1>2 DEF SemPlace
  <2>2. at' = [at EXCEPT ![t] = a]
    BY <1>2 DEF Goto
  <2> HIDE DEF a
  <2> QED
    BY <2>1, <2>2, <1>2, SemStays
<1>3. ASSUME sem' = sem, Return(t) PROVE SemInv'
  <2>1. SemPlace(Idling, sem.raised)
    BY DEF SemPlace, Idling
  <2> QED
    BY <2>1, <1>3, SemStays DEF Return
<1>4. CASE task_create(t) \/ task_create_mark(t) \/ task_create_link(t)
  BY <1>2, <1>4 DEF task_create, task_create_mark, task_create_link
<1>5. CASE \/ task_create_running(t) \/ kill_store(t) \/ waitpid_return(t)
  BY <1>3, <1>5 DEF task_create_running, kill_store, waitpid_return
<1>6. CASE \E u \in Targets, sig \in KillSignals : kill(t, u, sig)
  BY <1>2, <1>6 DEF kill
<1>7. CASE waitpid(t) \/ waitpid_add(t) \/ waitpid_status(t)
  BY <1>2, <1>7 DEF waitpid, waitpid_add, waitpid_status
<1> QED
  BY <1>1, <1>4, <1>5, <1>6, <1>7

\* A semaphore call goes to its next place and leaves the slots alone.
LEMMA SemGoto ==
  ASSUME SemInv, NEW t \in Tasks, NEW pc, NEW arg, Goto(t, pc, arg, {}), sem' = sem,
         SemPlace([pc |-> pc, arg |-> arg, val |-> {}], sem.raised)
  PROVE  SemInv'
  BY SemStays DEF Goto

\* getSem: the search, the claim and the initialisation.
LEMMA SemGet ==
  ASSUME SemInv, NEW t \in Tasks,
         getSem(t) \/ getSem_find(t) \/ getSem_claim(t) \/ getSem_init(t)
  PROVE  SemInv'
<1> DEFINE i == at[t].arg
<1>1. SemMax \in Nat \ {0} /\ sem.raised \in Nat /\ sem \in SemRec
  BY SchedAssumption DEF SemInv, SemRec
<1>2. SemPlace(at[t], sem.raised)
  BY DEF SemInv
<1>3. Use(t) \in {"v_load", "p_test"}
  BY DEF Use
<1>4. CASE getSem(t)
  <2>1. SemPlace([pc |-> "sem_find", arg |-> 0, val |-> {}], sem.raised)
    BY <1>1 DEF SemPlace
  <2> QED
    BY <2>1, <1>4, SemGoto DEF getSem
<1>5. CASE getSem_find(t)
  <2>1. i \in 0 .. SemMax /\ sem' = sem
    BY <1>2, <1>5 DEF getSem_find, Running, SemPlace
  <2>2. SemPlace([pc |-> "sem_claim", arg |-> 0, val |-> {}], sem.raised)
    BY <1>1 DEF SemPlace
  <2>3. i # SemMax => i \in Slots /\ i + 1 \in 0 .. SemMax
    BY <2>1, <1>1 DEF Slots
  <2>4. i # SemMax => SemPlace([pc |-> Use(t), arg |-> i, val |-> {}], sem.raised)
    BY <2>3, <1>3 DEF SemPlace
  <2>5. i # SemMax => SemPlace([pc |-> "sem_find", arg |-> i + 1, val |-> {}], sem.raised)
    BY <2>3 DEF SemPlace
  <2>6. \/ Goto(t, "sem_claim", 0, {}) \/ (i # SemMax /\ Goto(t, Use(t), i, {}))
        \/ (i # SemMax /\ Goto(t, "sem_find", i + 1, {}))
    BY <1>5 DEF getSem_find
  <2> QED
    BY <2>1, <2>2, <2>4, <2>5, <2>6, SemGoto
<1>6. CASE getSem_claim(t)
  <2>1. i \in Slots /\ i + 1 \in 0 .. SemMax
    BY <1>1, <1>2, <1>6 DEF getSem_claim, Running, SemPlace, Slots
  <2>2. SemPlace([pc |-> "sem_claim", arg |-> i + 1, val |-> {}], sem.raised)
    BY <2>1 DEF SemPlace
  <2>3. SemPlace([pc |-> "sem_init", arg |-> i, val |-> {}], sem.raised)
    BY <2>1 DEF SemPlace
  <2>4. \/ Goto(t, "sem_claim", i + 1, {}) /\ sem' = sem
        \/ Goto(t, "sem_init", i, {}) /\ sem' = [sem EXCEPT !.key[i] = TRUE]
    BY <1>6 DEF getSem_claim
  <2>5. CASE Goto(t, "sem_init", i, {}) /\ sem' = [sem EXCEPT !.key[i] = TRUE]
    <3>1. /\ sem' \in SemRec /\ sem'.value = sem.value /\ sem'.loaded = sem.loaded
          /\ sem'.raised = sem.raised
      BY <2>1, <2>5, <1>1 DEF SemRec
    <3>2. at' = [at EXCEPT ![t] = [pc |-> "sem_init", arg |-> i, val |-> {}]]
      BY <2>5 DEF Goto
    <3> QED
      BY <2>3, <3>1, <3>2, <1>1, SemMoves DEF SemInv
  <2> QED
    BY <2>2, <2>4, <2>5, SemGoto
<1>7. CASE getSem_init(t)
  <2>1. i \in Slots
    BY <1>2, <1>7 DEF getSem_init, Running, SemPlace
  <2>2. sem' = [sem EXCEPT !.value[i] = 0] /\ Goto(t, Use(t), i, {})
    BY <1>7 DEF getSem_init
  <2>3. /\ sem' \in SemRec /\ sem'.loaded = sem.loaded /\ sem'.raised = sem.raised
        /\ \A j \in Slots : sem'.value[j] = IF j = i THEN 0 ELSE sem.value[j]
    BY <2>1, <2>2, <1>1 DEF SemRec
  <2>4. SemPlace([pc |-> Use(t), arg |-> i, val |-> {}], sem.raised)
    BY <2>1, <1>3 DEF SemPlace
  <2>5. \A j \in Slots : sem'.value[j] <= sem'.raised
    BY <2>3, <1>1 DEF SemInv
  <2>6. at' = [at EXCEPT ![t] = [pc |-> Use(t), arg |-> i, val |-> {}]]
    BY <2>2 DEF Goto
  <2> QED
    BY <2>3, <2>4, <2>5, <2>6, <1>1, SemMoves DEF SemInv
<1> QED
  BY <1>4, <1>5, <1>6, <1>7

\* A value is stored back, and what was loaded is forgotten.
LEMMA SemStored ==
  ASSUME sem \in SemRec, NEW t \in Tasks, NEW i \in Slots, NEW x \in Int, NEW r \in Nat,
         sem' = [key |-> sem.key, value |-> [sem.value EXCEPT ![i] = x],
                 loaded |-> [sem.loaded EXCEPT ![t] = 0], raised |-> r]
  PROVE  /\ sem' \in SemRec /\ sem'.raised = r
         /\ \A j \in Slots : sem'.value[j] = IF j = i THEN x ELSE sem.value[j]
         /\ \A u \in Tasks : sem'.loaded[u] = IF u = t THEN 0 ELSE sem.loaded[u]
<1> DEFINE A == [sem.value EXCEPT ![i] = x]
           B == [sem.loaded EXCEPT ![t] = 0]
<1>1. sem.value \in [Slots -> Int] /\ sem.loaded \in [Tasks -> Int] /\ sem.key \in [Slots -> BOOLEAN]
  BY DEF SemRec
<1>2. sem' = [key |-> sem.key, value |-> A, loaded |-> B, raised |-> r]
  OBVIOUS
<1>3. /\ A \in [Slots -> Int] /\ B \in [Tasks -> Int]
      /\ \A j \in Slots : A[j] = IF j = i THEN x ELSE sem.value[j]
      /\ \A u \in Tasks : B[u] = IF u = t THEN 0 ELSE sem.loaded[u]
  BY <1>1
<1> HIDE DEF A, B
<1>4. sem' \in SemRec
  BY <1>1, <1>2, <1>3 DEF SemRec
<1>5. sem'.value = A /\ sem'.loaded = B /\ sem'.raised = r
  BY <1>2
<1> QED
  BY <1>3, <1>4, <1>5

\* P and V: a value is loaded and stored back when others have been in between.
LEMMA SemUse ==
  ASSUME SemInv, NEW t \in Tasks, P(t) \/ Load(t) \/ P_store(t) \/ V(t)
  PROVE  SemInv'
<1> DEFINE i == at[t].arg
<1>1. sem.raised \in Nat /\ sem \in SemRec
  BY DEF SemInv, SemRec
<1>2. SemPlace(at[t], sem.raised)
  BY DEF SemInv
<1>3. i \in Slots
  BY <1>2 DEF P, Load, P_store, V, Running, SemPlace
<1>4. sem.value[i] \in Int /\ sem.value[i] <= sem.raised /\ sem.loaded[t] \in Int
      /\ sem.loaded[t] <= sem.raised
  BY <1>1, <1>3 DEF SemInv, SemRec
<1>5. CASE P(t)
  <2>1. sem.value[i] > 0 /\ Goto(t, "p_load", i, {}) /\ sem' = sem
    BY <1>5 DEF P
  <2>2. SemPlace([pc |-> "p_load", arg |-> i, val |-> {}], sem.raised)
    BY <2>1, <1>1, <1>3, <1>4 DEF SemPlace
  <2> QED
    BY <2>1, <2>2, SemGoto
<1>6. CASE Load(t)
  <2>1. sem' = [sem EXCEPT !.loaded[t] = sem.value[i]]
    BY <1>6 DEF Load
  <2>2. /\ sem' \in SemRec /\ sem'.value = sem.value /\ sem'.raised = sem.raised
        /\ \A u \in Tasks : sem'.loaded[u] = IF u = t THEN sem.value[i] ELSE sem.loaded[u]
    BY <2>1, <1>1, <1>4 DEF SemRec
  <2>3. \A u \in Tasks : sem'.loaded[u] <= sem'.raised
    BY <2>2, <1>4 DEF SemInv
  <2>4. PICK pc \in {"p_store", "v_store"} :
          Goto(t, pc, i, {}) /\ (pc = "p_store" => at[t].pc = "p_load")
    BY <1>6 DEF Load, Running
  <2>5. SemPlace([pc |-> pc, arg |-> i, val |-> {}], sem.raised)
    BY <2>4, <1>2, <1>3 DEF SemPlace
  <2>6. at' = [at EXCEPT ![t] = [pc |-> pc, arg |-> i, val |-> {}]]
    BY <2>4 DEF Goto
  <2> QED
    BY <2>2, <2>3, <2>5, <2>6, <1>1, SemMoves DEF SemInv
<1>7. CASE P_store(t)
  <2>1. /\ sem' = [sem EXCEPT !.value[i] = sem.loaded[t] - 1, !.loaded[t] = 0]
        /\ at' = [at EXCEPT ![t] = Idling]
    BY <1>7 DEF P_store, Return
  <2>2. /\ sem' \in SemRec /\ sem'.raised = sem.raised
        /\ \A j \in Slots : sem'.value[j] = IF j = i THEN sem.loaded[t] - 1 ELSE sem.value[j]
        /\ \A u \in Tasks : sem'.loaded[u] = IF u = t THEN 0 ELSE sem.loaded[u]
    <3>1. sem' = [key |-> sem.key, value |-> [sem.value EXCEPT ![i] = sem.loaded[t] - 1],
                  loaded |-> [sem.loaded EXCEPT ![t] = 0], raised |-> sem.raised]
      BY <2>1, <1>1 DEF SemRec
    <3>2. sem.loaded[t] - 1 \in Int
      BY <1>4
    <3> HIDE DEF i
    <3> QED
      BY <3>1, <3>2, <1>1, <1>3, SemStored
  <2>3. \A j \in Slots : sem'.value[j] <= sem'.raised
    BY <2>2, <1>1, <1>4 DEF SemInv
  <2>4. \A u \in Tasks : sem'.loaded[u] <= sem'.raised
    BY <2>2, <1>1 DEF SemInv
  <2>5. SemPlace(Idling, sem'.raised)
    BY DEF SemPlace, Idling
  <2>6. sem.raised <= sem'.raised
    BY <2>2, <1>1
  <2> QED
    BY <2>1, <2>2, <2>3, <2>4, <2>5, <2>6, SemMoves
<1>8. CASE V(t)
  <2>1. /\ sem' = [sem EXCEPT !.value[i] = sem.loaded[t] + 1, !.loaded[t] = 0,
                              !.raised = @ + 1]
        /\ at' = [at EXCEPT ![t] = Idling]
    BY <1>8 DEF V, Return
  <2>2. /\ sem' \in SemRec /\ sem'.raised = sem.raised + 1
        /\ \A j \in Slots : sem'.value[j] = IF j = i THEN sem.loaded[t] + 1 ELSE sem.value[j]
        /\ \A u \in Tasks : sem'.loaded[u] = IF u = t THEN 0 ELSE sem.loaded[u]
    <3>1. sem' = [key |-> sem.key, value |-> [sem.value EXCEPT ![i] = sem.loaded[t] + 1],
                  loaded |-> [sem.loaded EXCEPT ![t] = 0], raised |-> sem.raised + 1]
      BY <2>1, <1>1 DEF SemRec
    <3>2. sem.loaded[t] + 1 \in Int /\ sem.raised + 1 \in Nat
      BY <1>1, <1>4
    <3> HIDE DEF i
    <3> QED
      BY <3>1, <3>2, <1>1, <1>3, SemStored
  <2>3. ASSUME NEW j \in Slots PROVE sem'.value[j] <= sem'.raised
    <3>1. sem.value[j] \in Int /\ sem.value[j] <= sem.raised
      BY <1>1 DEF SemInv, SemRec
    <3> QED
      BY <3>1, <2>2, <1>1, <1>4
  <2>4. ASSUME NEW u \in Tasks PROVE sem'.loaded[u] <= sem'.raised
    <3>1. sem.loaded[u] \in Int /\ sem.loaded[u] <= sem.raised
      BY <1>1 DEF SemInv, SemRec
    <3> QED
      BY <3>1, <2>2, <1>1
  <2>5. SemPlace(Idling, sem'.raised)
    BY DEF SemPlace, Idling
  <2>6. sem.raised <= sem'.raised
    BY <2>2, <1>1
  <2> QED
    BY <2>1, <2>2, <2>3, <2>4, <2>5, <2>6, SemMoves
<1> QED
  BY <1>5, <1>6, <1>7, <1>8

\* The scheduler changes neither slots nor places.
LEMMA ScheduleLeaves ==
  ASSUME Tick \/ TickClearup \/ Schedule
  PROVE  UNCHANGED <<sem, at, created>>
<1>1. (Tick \/ TickClearup \/ clearup \/ Switch \/ HandlerReturns) => UNCHANGED <<sem, at, created>>
  BY DEF Tick, TickClearup, clearup, Switch, HandlerReturns, taskVars
<1>2. Scan => UNCHANGED <<sem, at, created>>
  BY DEF Scan, Stop, Wake, taskVars
<1>3. Find => UNCHANGED <<sem, at, created>>
  BY DEF Find, Stop, Wake, taskVars
<1> QED
  BY <1>1, <1>2, <1>3 DEF Schedule

\* What slots hold and tasks have loaded, in every reachable state.
THEOREM SemInvariant == Spec => []SemInv
<1>1. Init => SemInv
  BY SemInit
<1>2. SemInv /\ [Next]_vars => SemInv'
  <2> SUFFICES ASSUME SemInv, [Next]_vars PROVE SemInv'
    OBVIOUS
  <2>1. CASE UNCHANGED vars
    BY <2>1, SemUntouched DEF vars
  <2>2. CASE Tick \/ TickClearup \/ Schedule
    BY <2>2, ScheduleLeaves, SemUntouched
  <2>3. CASE Call
    BY <2>3, SemOther, SemGet, SemUse DEF Call
  <2> QED
    BY <2>1, <2>2, <2>3 DEF Next
<1> QED
  BY <1>1, <1>2, PTL DEF Spec

\* Whatever the number of tasks, slots and calls, and wherever the timer
\* interrupts them, no task gets past P before a V (pc.c getSem, P, V).
THEOREM NobodyPassesTooSoon == Spec => []TakenAfterRaised
<1>1. SemInv => TakenAfterRaised
  BY DEF SemInv, SemPlace, TakenAfterRaised
<1> QED
  BY <1>1, SemInvariant, PTL

-----------------------------------------------------------------------------
(* Pids.                                                                   *)

\* A pid is marked as long as a task has it, no two tasks have one pid, and the
\* pid that task_create has chosen but not yet marked is nobody's.
PidInv ==
  /\ created \in 1 .. MaxTasks /\ task_list \subseteq 0 .. (created - 1)
  /\ pid = [t \in Tasks |-> pid[t]] /\ at = [t \in Tasks |-> at[t]]
  /\ \A u \in task_list : pid[u] \in pid_status
  /\ PidsDistinct
  /\ \A t \in Tasks : at[t].pc = "pid_mark" =>
       t \in Creators /\ \A u \in task_list : pid[u] # at[t].arg

\* pid_alloc finds a pid that is not marked, unless it finds none.
LEMMA FreePidIsFree == FreePid # NoPid => FreePid \in Pids \ pid_status
<1> SUFFICES ASSUME FreePid # NoPid PROVE FreePid \in Pids \ pid_status
  OBVIOUS
<1> DEFINE F == Pids \ pid_status
<1>1. F # {} /\ FreePid = CHOOSE p \in F : \A q \in F : p <= q
  BY DEF FreePid
<1>2. F \subseteq Nat
  BY DEF Pids
<1> HIDE DEF F
<1>3. \E p \in F : \A q \in F : p <= q
  BY <1>1, <1>2, Least
<1>4. FreePid \in F
  BY <1>1, <1>3
<1> QED
  BY <1>4 DEF F

LEMMA PidInit == Init => PidInv
<1> SUFFICES ASSUME Init PROVE PidInv
  OBVIOUS
<1>1. created = 1 /\ task_list = {Idle} /\ MaxTasks \in Nat \ {0}
  BY SchedAssumption DEF Init
<1>2. pid = [t \in Tasks |-> IF t = Idle THEN 0 ELSE NoPid] /\ pid_status = {0}
  BY DEF Init
<1>3. Idle \in Tasks /\ Idle = 0
  BY <1>1 DEF Idle, Tasks
<1>4. at = [t \in Tasks |-> Idling] /\ Idling.pc # "pid_mark"
  BY DEF Init, Idling
<1>5. pid[Idle] = 0
  BY <1>2, <1>3
<1>6. created \in 1 .. MaxTasks /\ task_list \subseteq 0 .. (created - 1)
  BY <1>1, <1>3
<1>7. pid = [t \in Tasks |-> pid[t]] /\ at = [t \in Tasks |-> at[t]]
  BY <1>2, <1>4
<1>8. \A t \in Tasks : at[t].pc # "pid_mark"
  BY <1>4
<1> QED
  BY <1>1, <1>2, <1>5, <1>6, <1>7, <1>8 DEF PidInv, PidsDistinct

\* Nobody is created; tasks may end and marks may be added.
LEMMA PidStays ==
  ASSUME PidInv, created' = created, pid' = pid, task_list' \subseteq task_list,
         pid_status \subseteq pid_status',
         at' = [t \in Tasks |-> at'[t]],
         \A t \in Tasks : at'[t].pc = "pid_mark" => at'[t] = at[t]
  PROVE  PidInv'
<1>1. /\ created' \in 1 .. MaxTasks /\ task_list' \subseteq 0 .. (created' - 1)
      /\ pid' = [t \in Tasks |-> pid'[t]]
  BY DEF PidInv
<1>2. \A u \in task_list' : pid'[u] \in pid_status'
  BY DEF PidInv
<1>3. PidsDistinct'
  BY DEF PidInv, PidsDistinct
<1>4. \A t \in Tasks : at'[t].pc = "pid_mark" =>
        t \in Creators /\ \A u \in task_list' : pid'[u] # at'[t].arg
  BY DEF PidInv
<1> QED
  BY <1>1, <1>2, <1>3, <1>4 DEF PidInv

\* The calls of one task that make no task and choose no pid.
LEMMA PidMoves ==
  ASSUME PidInv, UNCHANGED <<created, pid, task_list, pid_status>>,
         NEW t \in Tasks, NEW a, at' = [at EXCEPT ![t] = a], a.pc # "pid_mark"
  PROVE  PidInv'
<1>1. at' = [u \in Tasks |-> at'[u]] /\ at'[t] = a /\ \A u \in Tasks \ {t} : at'[u] = at[u]
  BY DEF PidInv
<1>2. \A u \in Tasks : at'[u].pc = "pid_mark" => at'[u] = at[u]
  BY <1>1
<1> QED
  BY <1>1, <1>2, PidStays

\* A task is made: its pid was nobody's, and nobody else has chosen it.
LEMMA PidNew ==
  ASSUME PidInv, created < MaxTasks, NEW p, pid_status' = pid_status \cup {p},
         pid' = [pid EXCEPT ![created] = p], task_list' = task_list \cup {created},
         created' = created + 1, \A u \in task_list : pid[u] # p,
         at' = [t \in Tasks |-> at'[t]], \A t \in Tasks : at'[t].pc # "pid_mark"
  PROVE  PidInv'
<1>1. /\ created \in 1 .. MaxTasks /\ task_list \subseteq 0 .. (created - 1)
      /\ pid = [t \in Tasks |-> pid[t]] /\ MaxTasks \in Nat
  BY SchedAssumption DEF PidInv
<1>2. created \in Tasks /\ created' \in 1 .. MaxTasks
  BY <1>1 DEF Tasks
<1>3. created \notin task_list /\ task_list \subseteq Tasks
  BY <1>1, <1>2 DEF Tasks
<1>4. task_list' \subseteq 0 .. (created' - 1)
  <2>1. \A u \in 0 .. (created - 1) : u \in 0 .. (created' - 1)
    BY <1>1
  <2>2. created \in 0 .. (created' - 1)
    BY <1>1
  <2> QED
    BY <2>1, <2>2, <1>1
<1>5. /\ pid' = [t \in Tasks |-> pid'[t]] /\ pid'[created] = p
      /\ \A u \in task_list : pid'[u] = pid[u]
  BY <1>1, <1>2, <1>3
<1>6. (\A u \in task_list : pid[u] \in pid_status) /\ PidsDistinct
  BY DEF PidInv
<1>7. \A u \in task_list' : pid'[u] \in pid_status'
  <2>1. p \in pid_status' /\ \A q \in pid_status : q \in pid_status'
    OBVIOUS
  <2>2. ASSUME NEW u \in task_list PROVE pid'[u] \in pid_status'
    <3>1. pid[u] \in pid_status /\ pid'[u] = pid[u]
      BY <1>5, <1>6, Zenon
    <3>2. pid[u] \in pid_status'
      BY <3>1, <2>1, Zenon
    <3> QED
      BY <3>1, <3>2, Zenon
  <2>3. pid'[created] \in pid_status'
    BY <1>5, <2>1, Zenon
  <2> QED
    BY <2>2, <2>3, Zenon
<1>8. \A u, v \in task_list' : pid'[u] = pid'[v] => u = v
  <2> SUFFICES ASSUME NEW u \in task_list', NEW v \in task_list', pid'[u] = pid'[v]
               PROVE  u = v
    BY Zenon
  <2>1. u \in task_list \/ u = created
    BY Zenon
  <2>2. v \in task_list \/ v = created
    BY Zenon
  <2>3. CASE u \in task_list /\ v \in task_list
    <3>1. pid[u] = pid[v]
      BY <2>3, <1>5, Zenon
    <3> QED
      BY <3>1, <2>3, <1>6, Zenon DEF PidsDistinct
  <2>4. CASE u \in task_list /\ v = created
    <3>1. pid[u] = p
      BY <2>4, <1>5, Zenon
    <3> QED
      BY <3>1, <2>4, Zenon
  <2>5. CASE u = created /\ v \in task_list
    <3>1. pid[v] = p
      BY <2>5, <1>5, Zenon
    <3> QED
      BY <3>1, <2>5, Zenon
  <2> QED
    BY <2>1, <2>2, <2>3, <2>4, <2>5, Zenon
<1>9. PidsDistinct'
  BY <1>8, Zenon DEF PidsDistinct
<1> QED
  BY <1>2, <1>4, <1>5, <1>7, <1>9 DEF PidInv

\* The calls that make tasks.
LEMMA PidCreate ==
  ASSUME OneCreator, PidInv, NEW t \in Tasks,
         loadUserProgram(t) \/ task_create(t) \/ task_create_mark(t)
  PROVE  PidInv'
<1>1. at = [u \in Tasks |-> at[u]] /\ \A u \in Tasks : at[u].pc = "pid_mark" => u \in Creators
  BY DEF PidInv
<1>2. FreePid # NoPid => \A u \in task_list : pid[u] # FreePid
  BY FreePidIsFree DEF PidInv
<1>3. CASE loadUserProgram(t)
  <2>1. /\ at[t].pc = "run" /\ t \in Loaders /\ created < MaxTasks /\ FreePid # NoPid
        /\ pid_status' = pid_status \cup {FreePid} /\ at' = at
        /\ pid' = [pid EXCEPT ![created] = FreePid]
        /\ task_list' = task_list \cup {created} /\ created' = created + 1
    BY <1>3 DEF loadUserProgram, NewTask, Running
  <2>2. \A u \in Tasks : at'[u].pc # "pid_mark"
    BY <2>1, <1>1 DEF OneCreator
  <2>3. at' = [u \in Tasks |-> at'[u]]
    BY <2>1, <1>1
  <2> QED
    BY <2>1, <2>2, <2>3, <1>2, PidNew
<1>4. CASE task_create(t)
  <2> DEFINE a == [pc |-> "pid_mark", arg |-> FreePid, val |-> {}]
  <2>1. /\ t \in Creators /\ FreePid # NoPid /\ at' = [at EXCEPT ![t] = a]
        /\ UNCHANGED <<pid, created, task_list, pid_status>>
    BY <1>4 DEF task_create, Goto, taskVars
  <2>2. at' = [u \in Tasks |-> at'[u]] /\ at'[t] = a /\ \A u \in Tasks \ {t} : at'[u] = at[u]
    BY <2>1, <1>1
  <2>3. a.arg = FreePid
    OBVIOUS
  <2> HIDE DEF a
  <2>4. ASSUME NEW c \in Tasks, at'[c].pc = "pid_mark"
        PROVE  c \in Creators /\ \A u \in task_list' : pid'[u] # at'[c].arg
    <3>1. CASE c = t
      BY <3>1, <2>1, <2>2, <2>3, <1>2
    <3>2. CASE c # t
      BY <3>2, <2>1, <2>2, <2>4 DEF PidInv
    <3> QED
      BY <3>1, <3>2
  <2> QED
    BY <2>1, <2>2, <2>4 DEF PidInv, PidsDistinct
<1>5. CASE task_create_mark(t)
  <2> DEFINE a == [pc |-> "link", arg |-> created, val |-> {}]
  <2>1. /\ at[t].pc = "pid_mark" /\ created < MaxTasks
        /\ pid_status' = pid_status \cup {at[t].arg} /\ at' = [at EXCEPT ![t] = a]
        /\ pid' = [pid EXCEPT ![created] = at[t].arg]
        /\ task_list' = task_list \cup {created} /\ created' = created + 1
    BY <1>5 DEF task_create_mark, Running, Goto
  <2>2. at' = [u \in Tasks |-> at'[u]] /\ at'[t] = a /\ \A u \in Tasks \ {t} : at'[u] = at[u]
    BY <2>1, <1>1
  <2>3. a.pc # "pid_mark"
    OBVIOUS
  <2> HIDE DEF a
  <2>4. \A u \in Tasks : at'[u].pc # "pid_mark"
    BY <2>1, <2>2, <2>3, <1>1 DEF OneCreator
  <2>5. \A u \in task_list : pid[u] # at[t].arg
    BY <2>1 DEF PidInv
  <2> QED
    BY <2>1, <2>2, <2>4, <2>5, PidNew
<1> QED
  BY <1>3, <1>4, <1>5

\* The other calls.
LEMMA PidOther ==
  ASSUME PidInv, NEW t \in Tasks,
         \/ task_create_link(t)
         \/ task_create_running(t) \/ (\E u \in Targets, sig \in KillSignals : kill(t, u, sig))
         \/ kill_store(t)
         \/ waitpid(t) \/ waitpid_add(t) \/ waitpid_status(t) \/ waitpid_return(t)
         \/ getSem(t) \/ getSem_find(t) \/ getSem_claim(t) \/ getSem_init(t)
         \/ P(t) \/ Load(t) \/ P_store(t) \/ V(t)
  PROVE  PidInv'
<1>1. ASSUME NEW pc, NEW arg, NEW val, Goto(t, pc, arg, val), pc # "pid_mark",
             UNCHANGED <<created, pid, task_list, pid_status>>
      PROVE  PidInv'
  <2> DEFINE a == [pc |-> pc, arg |-> arg, val |-> val]
  <2>1. at' = [at EXCEPT ![t] = a] /\ a.pc # "pid_mark"
    BY <1>1 DEF Goto
  <2> HIDE DEF a
  <2> QED
    BY <2>1, <1>1, PidMoves
<1>2. ASSUME Return(t), UNCHANGED <<created, pid, task_list, pid_status>> PROVE PidInv'
  <2>1. at' = [at EXCEPT ![t] = Idling] /\ Idling.pc # "pid_mark"
    BY <1>2 DEF Return, Idling
  <2> QED
    BY <2>1, <1>2, PidMoves
<1>3. Use(t) # "pid_mark"
  BY DEF Use
<1>4. CASE task_create_link(t) \/ waitpid(t) \/ waitpid_add(t) \/ waitpid_status(t)
  BY <1>1, <1>4 DEF task_create_link, waitpid, waitpid_add, waitpid_status, taskVars
<1>5. CASE task_create_running(t) \/ kill_store(t) \/ waitpid_return(t)
  BY <1>2, <1>5 DEF task_create_running, kill_store, waitpid_return, taskVars
<1>6. CASE \E u \in Targets, sig \in KillSignals : kill(t, u, sig)
  BY <1>1, <1>6 DEF kill, taskVars
<1>7. CASE getSem(t) \/ P(t) \/ Load(t)
  BY <1>1, <1>7 DEF getSem, P, Load, SemStep, taskVars
<1>8. CASE getSem_find(t) \/ getSem_claim(t) \/ getSem_init(t)
  BY <1>1, <1>3, <1>8 DEF getSem_find, getSem_claim, getSem_init, SemStep, taskVars
<1>9. CASE P_store(t) \/ V(t)
  BY <1>2, <1>9 DEF P_store, V, SemStep, taskVars
<1> QED
  BY <1>4, <1>5, <1>6, <1>7, <1>8, <1>9

\* The scheduler ends tasks and adds marks at most.
LEMMA PidSchedule ==
  ASSUME PidInv, Tick \/ TickClearup \/ Schedule
  PROVE  PidInv'
<1>1. UNCHANGED <<sem, at, created>>
  BY ScheduleLeaves
<1>2. pid' = pid /\ task_list' \subseteq task_list /\ pid_status \subseteq pid_status'
  <2>1. CASE Tick \/ TickClearup \/ clearup \/ Switch \/ HandlerReturns
    BY <2>1 DEF Tick, TickClearup, clearup, Switch, HandlerReturns, taskVars
  <2>2. CASE Scan
    BY <2>2 DEF Scan, Stop, Wake, pid_delete, taskVars
  <2>3. CASE Find
    BY <2>3 DEF Find, Stop, Wake, pid_delete, taskVars
  <2> QED
    BY <2>1, <2>2, <2>3 DEF Schedule
<1>3. at' = [t \in Tasks |-> at'[t]]
  BY <1>1 DEF PidInv
<1> QED
  BY <1>1, <1>2, <1>3, PidStays

\* Pids and their marks, in every reachable state with one creator.
THEOREM PidInvariant == OneCreator => (Spec => []PidInv)
<1> SUFFICES ASSUME OneCreator PROVE Spec => []PidInv
  OBVIOUS
<1>1. Init => PidInv
  BY PidInit
<1>2. PidInv /\ [Next]_vars => PidInv'
  <2> SUFFICES ASSUME PidInv, [Next]_vars PROVE PidInv'
    OBVIOUS
  <2>1. CASE UNCHANGED vars
    <3>1. UNCHANGED <<created, pid, task_list, pid_status, at>>
      BY <2>1 DEF vars, taskVars
    <3>2. at' = [t \in Tasks |-> at'[t]]
      BY <3>1 DEF PidInv
    <3> QED
      BY <3>1, <3>2, PidStays
  <2>2. CASE Tick \/ TickClearup \/ Schedule
    BY <2>2, PidSchedule
  <2>3. CASE Call
    BY <2>3, PidCreate, PidOther DEF Call
  <2> QED
    BY <2>1, <2>2, <2>3 DEF Next
<1> QED
  BY <1>1, <1>2, PTL DEF Spec

\* With one creator no two tasks have the same pid, although pid_delete marks
\* pids it should release, tasks end and the creator can be interrupted between
\* the search and the mark (pc.c pid_alloc, pid_delete, task_create).
THEOREM PidsAreDistinct == OneCreator => (Spec => []PidsDistinct)
<1> SUFFICES ASSUME OneCreator PROVE Spec => []PidsDistinct
  OBVIOUS
<1>1. PidInv => PidsDistinct
  BY DEF PidInv
<1>2. Spec => []PidInv
  BY PidInvariant
<1> QED
  BY <1>1, <1>2, PTL

-----------------------------------------------------------------------------
(* The lists.  Two facts describe them: the pointers form rings, one ring  *)
(* through each head, and along a ring a rank counts the steps that are    *)
(* left to its head.                                                       *)

\* Task_list T is linked into rings: own says through which head.
Ring(nx, la, T, own) ==
  /\ T \subseteq Tasks
  /\ nx \in [Nodes -> Nodes] /\ la \in [Nodes -> Nodes] /\ own \in [Nodes -> Heads]
  /\ \A h \in Heads : own[h] = h
  /\ \A n \in T \cup Heads :
       /\ nx[n] \in T \cup Heads /\ la[n] \in T \cup Heads
       /\ nx[la[n]] = n /\ la[nx[n]] = n /\ own[nx[n]] = own[n]

\* The ranks of a ring count down to 0 at its head and start no higher than
\* its length.
Ranked(nx, T, own, rank, len) ==
  /\ rank \in [Nodes -> Nat] /\ len \in [Heads -> Nat]
  /\ \A h \in Heads : rank[h] = 0
  /\ \A n \in T : rank[n] \in 1 .. len[own[n]] /\ rank[nx[n]] = rank[n] - 1
  /\ \A m, n \in T : own[m] = own[n] /\ rank[m] = rank[n] => m = n

\* The tasks on all lists.
Size(len) == len[S] + len[W] + len[X]

\* Rings of at most k tasks.
Linked(nx, la, T, own, k) ==
  /\ Ring(nx, la, T, own)
  /\ \E rank, len : Ranked(nx, T, own, rank, len) /\ Size(len) <= k

LEMMA HeadsAreNoTasks ==
  /\ Tasks \cap Heads = {} /\ Nodes = Tasks \cup Heads /\ Tasks \subseteq Nat
  /\ S \in Heads /\ W \in Heads /\ X \in Heads /\ S # W /\ W # X /\ S # X
<1>1. MaxTasks \in Nat
  BY SchedAssumption
<1>2. Tasks \subseteq Nat
  BY <1>1 DEF Tasks
<1>3. S \notin Nat /\ W \notin Nat /\ X \notin Nat
  BY DEF S, W, X
<1>4. S # W /\ W # X /\ S # X
  BY DEF S, W, X
<1> QED
  BY <1>2, <1>3, <1>4 DEF Heads, Nodes

-----------------------------------------------------------------------------
(* Unlinking.                                                              *)

\* task_list_delete redirects two pointers.
LEMMA DeleteIs ==
  ASSUME NEW nx \in [Nodes -> Nodes], NEW la \in [Nodes -> Nodes], NEW n \in Nodes
  PROVE  task_list_delete([next |-> nx, last |-> la], n)
           = [next |-> [nx EXCEPT ![la[n]] = nx[n]], last |-> [la EXCEPT ![nx[n]] = la[n]]]
<1> DEFINE nx2 == [nx EXCEPT ![la[n]] = nx[n]]
<1>1. nx2[n] = nx[n]
  OBVIOUS
<1> QED
  BY <1>1 DEF task_list_delete

\* The rings close behind the node.
LEMMA RingDelete ==
  ASSUME NEW nx, NEW la, NEW T, NEW own, Ring(nx, la, T, own), NEW n \in T,
         nx[n] # n, NEW nx2, NEW la2,
         nx2 = [nx EXCEPT ![la[n]] = nx[n]], la2 = [la EXCEPT ![nx[n]] = la[n]]
  PROVE  Ring(nx2, la2, T \ {n}, own)
<1>1. /\ T \subseteq Tasks /\ own \in [Nodes -> Heads]
      /\ nx \in [Nodes -> Nodes] /\ la \in [Nodes -> Nodes]
      /\ \A h \in Heads : own[h] = h
  BY DEF Ring
<1>2. \A m \in T \cup Heads :
        /\ nx[m] \in T \cup Heads /\ la[m] \in T \cup Heads
        /\ nx[la[m]] = m /\ la[nx[m]] = m /\ own[nx[m]] = own[m]
  BY DEF Ring
<1>3. T \cup Heads \subseteq Nodes /\ n \notin Heads
  BY <1>1, HeadsAreNoTasks
<1>4. /\ nx2 \in [Nodes -> Nodes] /\ nx2[la[n]] = nx[n]
      /\ \A m \in Nodes : m # la[n] => nx2[m] = nx[m]
  BY <1>1, <1>2, <1>3
<1>5. /\ la2 \in [Nodes -> Nodes] /\ la2[nx[n]] = la[n]
      /\ \A m \in Nodes : m # nx[n] => la2[m] = la[m]
  BY <1>1, <1>2, <1>3
<1>6. ASSUME NEW m \in (T \ {n}) \cup Heads
      PROVE  /\ nx2[m] \in (T \ {n}) \cup Heads /\ la2[m] \in (T \ {n}) \cup Heads
             /\ nx2[la2[m]] = m /\ la2[nx2[m]] = m /\ own[nx2[m]] = own[m]
  <2>1. m \in T \cup Heads /\ m # n /\ m \in Nodes
    BY <1>3
  <2>2. nx[m] \in Nodes /\ la[m] \in Nodes /\ nx[n] \in Nodes /\ la[n] \in Nodes /\ la[n] # n
    BY <2>1, <1>2, <1>3
  <2>3. /\ nx2[m] \in (T \ {n}) \cup Heads /\ la2[nx2[m]] = m /\ own[nx2[m]] = own[m]
    <3>1. CASE m = la[n]
      BY <3>1, <1>2, <1>4, <1>5
    <3>2. CASE m # la[n]
      <4>1. nx2[m] = nx[m] /\ nx[m] # n /\ nx[m] # nx[n]
        BY <3>2, <2>1, <1>2, <1>4
      <4> QED
        BY <4>1, <2>1, <2>2, <1>2, <1>5
    <3> QED
      BY <3>1, <3>2
  <2>4. la2[m] \in (T \ {n}) \cup Heads /\ nx2[la2[m]] = m
    <3>1. CASE m = nx[n]
      BY <3>1, <2>2, <1>2, <1>4, <1>5
    <3>2. CASE m # nx[n]
      <4>1. la2[m] = la[m] /\ la[m] # n /\ la[m] # la[n]
        BY <3>2, <2>1, <1>2, <1>5
      <4> QED
        BY <4>1, <2>1, <2>2, <1>2, <1>4
    <3> QED
      BY <3>1, <3>2
  <2> QED
    BY <2>3, <2>4
<1>7. T \ {n} \subseteq Tasks
  BY <1>1
<1> HIDE DEF Heads
<1> QED
  BY <1>1, <1>4, <1>5, <1>6, <1>7 DEF Ring

\* The rings are ranked, and hold d tasks more than the lengths len say.
Resized(nx, T, own, len, d) ==
  \E rank2, len2 : Ranked(nx, T, own, rank2, len2) /\ Size(len2) = Size(len) + d

\* The nodes before it come one step closer to their head.
LEMMA RankDelete ==
  ASSUME NEW nx, NEW la, NEW T, NEW own, Ring(nx, la, T, own), NEW n \in T,
         NEW rank, NEW len, Ranked(nx, T, own, rank, len), nx[n] # n, NEW nx2,
         nx2 = [nx EXCEPT ![la[n]] = nx[n]]
  PROVE  Resized(nx2, T \ {n}, own, len, -1)
<1>1. /\ T \subseteq Tasks /\ own \in [Nodes -> Heads]
      /\ nx \in [Nodes -> Nodes] /\ la \in [Nodes -> Nodes]
      /\ \A h \in Heads : own[h] = h
  BY DEF Ring
<1>2. \A m \in T \cup Heads :
        /\ nx[m] \in T \cup Heads /\ la[m] \in T \cup Heads
        /\ nx[la[m]] = m /\ la[nx[m]] = m /\ own[nx[m]] = own[m]
  BY DEF Ring
<1>3. T \cup Heads \subseteq Nodes /\ n \notin Heads /\ n \in Nodes
  BY <1>1, HeadsAreNoTasks
<1>4. /\ nx2[la[n]] = nx[n]
      /\ \A m \in Nodes : m # la[n] => nx2[m] = nx[m]
  BY <1>1, <1>2, <1>3
<1>5. /\ rank \in [Nodes -> Nat] /\ len \in [Heads -> Nat]
      /\ \A h \in Heads : rank[h] = 0
      /\ \A m \in T : rank[m] \in 1 .. len[own[m]] /\ rank[nx[m]] = rank[m] - 1
      /\ \A m, k \in T : own[m] = own[k] /\ rank[m] = rank[k] => m = k
  BY DEF Ranked
<1> DEFINE h == own[n]
           r == rank[n]
           Before(m) == own[m] = h /\ rank[m] > r
           rank2 == [m \in Nodes |-> IF Before(m) THEN rank[m] - 1 ELSE rank[m]]
           len2 == [len EXCEPT ![h] = len[h] - 1]
<1>6. h \in Heads /\ r \in 1 .. len[h] /\ len[h] \in Nat
  BY <1>1, <1>3, <1>5
<1>7. /\ len2 \in [Heads -> Nat] /\ len2[h] = len[h] - 1
      /\ \A g \in Heads : g # h => len2[g] = len[g]
  BY <1>5, <1>6
<1>8. /\ \A m \in Nodes : Before(m) => rank2[m] = rank[m] - 1
      /\ \A m \in Nodes : ~Before(m) => rank2[m] = rank[m]
      /\ \A m \in Nodes : rank[m] \in Nat
  BY <1>5
<1>9. rank2 \in [Nodes -> Nat]
  <2>1. \A m \in Nodes : Before(m) => rank[m] - 1 \in Nat
    BY <1>5, <1>6
  <2> QED
    BY <2>1, <1>8
<1>10. \A g \in Heads : rank2[g] = 0
  <2>1. \A g \in Heads : ~Before(g) /\ g \in Nodes
    BY <1>3, <1>5, <1>6
  <2> QED
    BY <2>1, <1>5, <1>8
<1> HIDE DEF rank2, len2, h, r
<1>11. ASSUME NEW m \in T, m # n PROVE rank2[m] \in 1 .. len2[own[m]]
  <2>1. m \in Nodes /\ own[m] \in Heads /\ len[own[m]] \in Nat /\ rank[m] \in 1 .. len[own[m]]
    BY <1>1, <1>3, <1>5
  <2>2. CASE own[m] # h
    <3>1. rank2[m] = rank[m] /\ len2[own[m]] = len[own[m]]
      BY <2>2, <2>1, <1>7, <1>8
    <3> QED
      BY <3>1, <2>1
  <2>3. CASE own[m] = h
    <3>1. rank[m] # r
      BY <2>3, <1>11, <1>5 DEF h, r
    <3>2. CASE rank[m] > r
      BY <3>2, <2>3, <2>1, <1>6, <1>7, <1>8
    <3>3. CASE rank[m] < r
      <4>1. rank2[m] = rank[m]
        BY <3>3, <2>3, <2>1, <1>6, <1>8
      <4> QED
        BY <4>1, <3>3, <2>3, <2>1, <1>6, <1>7
    <3> QED
      BY <3>1, <3>2, <3>3, <2>1, <1>6
  <2> QED
    BY <2>2, <2>3
<1>12. ASSUME NEW m \in T, m # n PROVE rank2[nx2[m]] = rank2[m] - 1
  <2>1. m \in Nodes /\ nx[m] \in T \cup Heads /\ nx[m] \in Nodes /\ own[nx[m]] = own[m]
        /\ rank[nx[m]] = rank[m] - 1 /\ rank[m] \in Nat /\ rank[nx[m]] \in Nat
    BY <1>2, <1>3, <1>5, <1>8
  <2>2. /\ nx[n] \in Nodes /\ own[nx[n]] = h /\ rank[nx[n]] = r - 1 /\ r \in Nat
        /\ rank[nx[n]] \in Nat
    BY <1>2, <1>3, <1>5, <1>6, <1>8 DEF h, r
  <2>3. CASE m = la[n]
    <3>1. nx2[m] = nx[n] /\ nx[m] = n
      BY <2>3, <1>2, <1>4
    <3>2. own[m] = h /\ rank[m] = r + 1
      BY <3>1, <2>1, <2>2 DEF h, r
    <3>3. rank2[m] = r
      BY <3>2, <2>1, <2>2, <1>8
    <3>4. rank2[nx[n]] = r - 1
      BY <2>2, <1>8
    <3> QED
      BY <3>1, <3>3, <3>4
  <2>4. CASE m # la[n]
    <3>1. nx2[m] = nx[m] /\ nx[m] # n
      BY <2>4, <2>1, <1>2, <1>4
    <3>2. own[m] = h => rank[nx[m]] # r
      <4>1. SUFFICES ASSUME own[m] = h, rank[nx[m]] = r PROVE FALSE
        OBVIOUS
      <4>2. nx[m] \notin Heads
        BY <4>1, <1>5, <1>6
      <4> QED
        BY <4>1, <4>2, <3>1, <2>1, <1>5 DEF h, r
    <3>3. CASE own[m] # h
      BY <3>1, <3>3, <2>1, <1>8
    <3>4. CASE own[m] = h /\ rank[m] > r
      <4>1. rank[nx[m]] > r
        BY <3>4, <3>2, <2>1, <2>2
      <4> QED
        BY <4>1, <3>1, <3>4, <2>1, <2>2, <1>8
    <3>5. CASE own[m] = h /\ ~(rank[m] > r)
      <4>1. ~(rank[nx[m]] > r)
        BY <3>5, <2>1, <2>2
      <4> QED
        BY <4>1, <3>1, <3>5, <2>1, <2>2, <1>8
    <3> QED
      BY <3>3, <3>4, <3>5
  <2> QED
    BY <2>3, <2>4
<1>13. ASSUME NEW m \in T, m # n, NEW k \in T, k # n, own[m] = own[k], rank2[m] = rank2[k]
       PROVE  m = k
  <2>1. /\ m \in Nodes /\ k \in Nodes /\ rank[m] \in Nat /\ rank[k] \in Nat /\ r \in Nat
        /\ (own[m] = own[k] /\ rank[m] = rank[k] => m = k)
    BY <1>3, <1>5, <1>6, <1>8
  <2>2. own[m] = h => rank[m] # r /\ rank[k] # r
    BY <1>13, <1>5 DEF h, r
  <2>3. rank[m] = rank[k]
    <3>1. CASE own[m] # h
      BY <3>1, <1>13, <2>1, <1>8
    <3>2. CASE own[m] = h
      <4>1. rank2[m] = (IF rank[m] > r THEN rank[m] - 1 ELSE rank[m])
        BY <3>2, <2>1, <1>8
      <4>2. rank2[k] = (IF rank[k] > r THEN rank[k] - 1 ELSE rank[k])
        BY <3>2, <1>13, <2>1, <1>8
      <4> QED
        BY <4>1, <4>2, <3>2, <2>1, <2>2, <1>13
    <3> QED
      BY <3>1, <3>2
  <2> QED
    BY <2>1, <2>3, <1>13
<1>14. Ranked(nx2, T \ {n}, own, rank2, len2)
  <2>1. \A m \in T \ {n} : rank2[m] \in 1 .. len2[own[m]] /\ rank2[nx2[m]] = rank2[m] - 1
    BY <1>11, <1>12
  <2>2. \A m, k \in T \ {n} : own[m] = own[k] /\ rank2[m] = rank2[k] => m = k
    BY <1>13
  <2> QED
    BY <2>1, <2>2, <1>7, <1>9, <1>10 DEF Ranked
<1>15. Size(len2) = Size(len) + -1
  <2>1. len[S] \in Nat /\ len[W] \in Nat /\ len[X] \in Nat
    BY <1>5, HeadsAreNoTasks
  <2>2. CASE h = S
    BY <2>1, <2>2, <1>7, HeadsAreNoTasks DEF Size
  <2>3. CASE h = W
    BY <2>1, <2>3, <1>7, HeadsAreNoTasks DEF Size
  <2>4. CASE h = X
    BY <2>1, <2>4, <1>7, HeadsAreNoTasks DEF Size
  <2> QED
    BY <2>2, <2>3, <2>4, <1>6 DEF Heads
<1> QED
  BY <1>14, <1>15 DEF Resized

-----------------------------------------------------------------------------
(* Linking at the tail.                                                    *)

\* task_list_add sets two pointers of the node and redirects two.
LEMMA AddIs ==
  ASSUME NEW nx, NEW la, NEW h, NEW n
  PROVE  task_list_add([next |-> nx, last |-> la], h, n)
           = [next |-> [[nx EXCEPT ![n] = h] EXCEPT ![la[h]] = n],
              last |-> [[la EXCEPT ![h] = n] EXCEPT ![n] = la[h]]]
  BY DEF task_list_add

\* The ring of h opens before its head and takes the node.
LEMMA RingAdd ==
  ASSUME NEW nx, NEW la, NEW T, NEW own, Ring(nx, la, T, own),
         NEW n \in Tasks, n \notin T, NEW h \in Heads, NEW nx2, NEW la2, NEW own2,
         nx2 = [[nx EXCEPT ![n] = h] EXCEPT ![la[h]] = n],
         la2 = [[la EXCEPT ![h] = n] EXCEPT ![n] = la[h]],
         own2 = [own EXCEPT ![n] = h]
  PROVE  Ring(nx2, la2, T \cup {n}, own2)
<1> DEFINE prev == la[h]
<1>1. /\ T \subseteq Tasks /\ own \in [Nodes -> Heads]
      /\ nx \in [Nodes -> Nodes] /\ la \in [Nodes -> Nodes]
      /\ \A g \in Heads : own[g] = g
  BY DEF Ring
<1>2. \A m \in T \cup Heads :
        /\ nx[m] \in T \cup Heads /\ la[m] \in T \cup Heads
        /\ nx[la[m]] = m /\ la[nx[m]] = m /\ own[nx[m]] = own[m]
  BY DEF Ring
<1>3. /\ T \cup Heads \subseteq Nodes /\ n \notin Heads /\ n \in Nodes /\ h \in Nodes
      /\ n # h /\ n \notin T \cup Heads
  <2>1. T \cup Heads \subseteq Nodes /\ T \cap Heads = {}
    BY <1>1, HeadsAreNoTasks, Zenon
  <2>2. n \notin Heads /\ n \in Nodes /\ h \in Nodes
    BY HeadsAreNoTasks, Zenon
  <2> QED
    BY <2>1, <2>2, Zenon
<1>4. prev \in T \cup Heads /\ prev \in Nodes /\ prev # n /\ nx[prev] = h /\ own[prev] = h
  BY <1>1, <1>2, <1>3
<1>5. /\ nx2 \in [Nodes -> Nodes] /\ nx2[n] = h /\ nx2[prev] = n
      /\ \A m \in Nodes : m # n /\ m # prev => nx2[m] = nx[m]
  BY <1>1, <1>3, <1>4
<1>6. /\ la2 \in [Nodes -> Nodes] /\ la2[h] = n /\ la2[n] = prev
      /\ \A m \in Nodes : m # n /\ m # h => la2[m] = la[m]
  BY <1>1, <1>3, <1>4
<1>7. /\ own2 \in [Nodes -> Heads] /\ own2[n] = h
      /\ \A m \in Nodes : m # n => own2[m] = own[m]
  BY <1>1, <1>3
<1> HIDE DEF prev
<1>8. ASSUME NEW m \in (T \cup {n}) \cup Heads
      PROVE  /\ nx2[m] \in (T \cup {n}) \cup Heads /\ la2[nx2[m]] = m
             /\ own2[nx2[m]] = own2[m]
  <2>1. CASE m = n
    BY <2>1, <1>1, <1>3, <1>5, <1>6, <1>7
  <2>2. CASE m = prev
    BY <2>2, <1>3, <1>4, <1>5, <1>6, <1>7
  <2>3. CASE m # n /\ m # prev
    <3>1. m \in T \cup Heads /\ m \in Nodes /\ nx2[m] = nx[m]
      BY <2>3, <1>3, <1>5
    <3>2. nx[m] \in T \cup Heads /\ nx[m] \in Nodes /\ nx[m] # n /\ la[nx[m]] = m /\ own[nx[m]] = own[m]
      BY <3>1, <1>2, <1>3
    <3>3. nx[m] # h
      BY <3>2, <2>3 DEF prev
    <3> QED
      BY <3>1, <3>2, <3>3, <2>3, <1>6, <1>7
  <2> QED
    BY <2>1, <2>2, <2>3
<1>9. ASSUME NEW m \in (T \cup {n}) \cup Heads
      PROVE  la2[m] \in (T \cup {n}) \cup Heads /\ nx2[la2[m]] = m
  <2>1. CASE m = n
    BY <2>1, <1>4, <1>5, <1>6
  <2>2. CASE m = h
    BY <2>2, <1>5, <1>6
  <2>3. CASE m # n /\ m # h
    <3>1. m \in T \cup Heads /\ m \in Nodes /\ la2[m] = la[m]
      BY <2>3, <1>3, <1>6
    <3>2. la[m] \in T \cup Heads /\ la[m] \in Nodes /\ la[m] # n /\ nx[la[m]] = m
      BY <3>1, <1>2, <1>3
    <3>3. la[m] # prev
      BY <3>2, <2>3, <1>4
    <3> QED
      BY <3>1, <3>2, <3>3, <2>3, <1>5
  <2> QED
    BY <2>1, <2>2, <2>3
<1>10. \A g \in Heads : own2[g] = g
  BY <1>1, <1>3, <1>7
<1>11. T \cup {n} \subseteq Tasks
  BY <1>1
<1> QED
  BY <1>5, <1>6, <1>7, <1>8, <1>9, <1>10, <1>11 DEF Ring

\* The other nodes of that ring are one step further from their head.
LEMMA RankAdd ==
  ASSUME NEW nx, NEW la, NEW T, NEW own, Ring(nx, la, T, own),
         NEW rank, NEW len, Ranked(nx, T, own, rank, len),
         NEW n \in Tasks, n \notin T, NEW h \in Heads, NEW nx2, NEW own2,
         nx2 = [[nx EXCEPT ![n] = h] EXCEPT ![la[h]] = n],
         own2 = [own EXCEPT ![n] = h]
  PROVE  Resized(nx2, T \cup {n}, own2, len, 1)
<1> DEFINE prev == la[h]
<1>1. /\ T \subseteq Tasks /\ own \in [Nodes -> Heads]
      /\ nx \in [Nodes -> Nodes] /\ la \in [Nodes -> Nodes]
      /\ \A g \in Heads : own[g] = g
  BY DEF Ring
<1>2. \A m \in T \cup Heads :
        /\ nx[m] \in T \cup Heads /\ la[m] \in T \cup Heads
        /\ nx[la[m]] = m /\ la[nx[m]] = m /\ own[nx[m]] = own[m]
  BY DEF Ring
<1>3. /\ T \cup Heads \subseteq Nodes /\ n \notin Heads /\ n \in Nodes /\ h \in Nodes
      /\ n # h /\ n \notin T \cup Heads /\ T \cap Heads = {}
  <2>1. T \cup Heads \subseteq Nodes /\ T \cap Heads = {}
    BY <1>1, HeadsAreNoTasks, Zenon
  <2>2. n \notin Heads /\ n \in Nodes /\ h \in Nodes
    BY HeadsAreNoTasks, Zenon
  <2> QED
    BY <2>1, <2>2, Zenon
<1>4. prev \in T \cup Heads /\ prev \in Nodes /\ prev # n /\ nx[prev] = h /\ own[prev] = h
  BY <1>1, <1>2, <1>3
<1>5. /\ nx2[n] = h /\ nx2[prev] = n
      /\ \A m \in Nodes : m # n /\ m # prev => nx2[m] = nx[m]
  BY <1>1, <1>3, <1>4
<1>6. own2[n] = h /\ \A m \in Nodes : m # n => own2[m] = own[m]
  BY <1>1, <1>3
<1>7. /\ rank \in [Nodes -> Nat] /\ len \in [Heads -> Nat]
      /\ \A g \in Heads : rank[g] = 0
      /\ \A m \in T : rank[m] \in 1 .. len[own[m]] /\ rank[nx[m]] = rank[m] - 1
      /\ \A m, k \in T : own[m] = own[k] /\ rank[m] = rank[k] => m = k
  BY DEF Ranked
<1> DEFINE Shifted(m) == m \in T /\ own[m] = h
           rank2 == [m \in Nodes |-> IF m = n THEN 1 ELSE
                       IF Shifted(m) THEN rank[m] + 1 ELSE rank[m]]
           len2 == [len EXCEPT ![h] = len[h] + 1]
<1>8. /\ len2 \in [Heads -> Nat] /\ len2[h] = len[h] + 1 /\ len[h] \in Nat
      /\ \A g \in Heads : g # h => len2[g] = len[g]
  BY <1>7
<1>9. /\ rank2 \in [Nodes -> Nat] /\ rank2[n] = 1
      /\ \A m \in Nodes : m # n /\ Shifted(m) => rank2[m] = rank[m] + 1
      /\ \A m \in Nodes : m # n /\ ~Shifted(m) => rank2[m] = rank[m]
      /\ \A m \in Nodes : rank[m] \in Nat
  BY <1>3, <1>7
<1>10. \A g \in Heads : rank2[g] = 0
  BY <1>3, <1>7, <1>9
<1> HIDE DEF rank2, len2, prev
<1>11. ASSUME NEW m \in T
       PROVE  rank2[m] \in 1 .. len2[own2[m]] /\ rank2[nx2[m]] = rank2[m] - 1
  <2>1. /\ m \in Nodes /\ m # n /\ own2[m] = own[m] /\ own[m] \in Heads
        /\ len[own[m]] \in Nat /\ rank[m] \in 1 .. len[own[m]] /\ rank[m] \in Nat
        /\ nx[m] \in T \cup Heads /\ nx[m] \in Nodes /\ nx[m] # n /\ own[nx[m]] = own[m]
        /\ rank[nx[m]] = rank[m] - 1 /\ la[nx[m]] = m
    BY <1>1, <1>2, <1>3, <1>6, <1>7
  <2>2. CASE own[m] = h
    <3>1. rank2[m] = rank[m] + 1
      BY <2>1, <2>2, <1>9
    <3>2. rank2[m] \in 1 .. len2[own2[m]]
      BY <3>1, <2>1, <2>2, <1>8
    <3>3. CASE m = prev
      <4>1. rank[m] = 1
        BY <3>3, <2>1, <1>4, <1>7
      <4> QED
        BY <4>1, <3>1, <3>2, <3>3, <1>5, <1>9
    <3>4. CASE m # prev
      <4>1. nx2[m] = nx[m]
        BY <3>4, <2>1, <1>5
      <4>2. nx[m] \in T
        BY <3>4, <2>1, <2>2, <1>1 DEF prev
      <4>3. rank2[nx[m]] = rank[nx[m]] + 1
        BY <4>2, <2>1, <2>2, <1>9
      <4> QED
        BY <4>1, <4>3, <3>1, <3>2, <2>1
    <3> QED
      BY <3>3, <3>4
  <2>3. CASE own[m] # h
    <3>1. rank2[m] = rank[m] /\ m # prev
      BY <2>1, <2>3, <1>4, <1>9
    <3>2. nx2[m] = nx[m] /\ rank2[nx[m]] = rank[nx[m]]
      BY <3>1, <2>1, <2>3, <1>5, <1>9
    <3> QED
      BY <3>1, <3>2, <2>1, <2>3, <1>8
  <2> QED
    BY <2>2, <2>3
<1>12. rank2[n] \in 1 .. len2[own2[n]] /\ rank2[nx2[n]] = rank2[n] - 1
  BY <1>5, <1>6, <1>8, <1>9, <1>10
<1>13. ASSUME NEW m \in T \cup {n}, NEW k \in T \cup {n}, own2[m] = own2[k], rank2[m] = rank2[k]
       PROVE  m = k
  <2>1. ASSUME NEW j \in T, own2[j] = h PROVE rank2[j] # rank2[n]
    <3>1. j \in Nodes /\ j # n /\ own[j] = h /\ rank[j] \in 1 .. len[h]
      BY <2>1, <1>3, <1>6, <1>7
    <3> QED
      BY <3>1, <1>8, <1>9
  <2>2. CASE m = n \/ k = n
    BY <2>1, <2>2, <1>6, <1>13
  <2>3. CASE m \in T /\ k \in T
    <3>1. /\ m \in Nodes /\ k \in Nodes /\ m # n /\ k # n /\ own[m] = own[k]
          /\ rank[m] \in Nat /\ rank[k] \in Nat
      BY <2>3, <1>3, <1>6, <1>9, <1>13
    <3>2. rank[m] = rank[k]
      BY <3>1, <2>3, <1>9, <1>13
    <3> QED
      BY <3>1, <3>2, <2>3, <1>7
  <2> QED
    BY <2>2, <2>3
<1>14. Ranked(nx2, T \cup {n}, own2, rank2, len2)
  <2>1. \A m \in T \cup {n} : rank2[m] \in 1 .. len2[own2[m]] /\ rank2[nx2[m]] = rank2[m] - 1
    BY <1>11, <1>12
  <2>2. \A m, k \in T \cup {n} : own2[m] = own2[k] /\ rank2[m] = rank2[k] => m = k
    BY <1>13
  <2> QED
    BY <2>1, <2>2, <1>8, <1>9, <1>10 DEF Ranked
<1>15. Size(len2) = Size(len) + 1
  <2>1. len[S] \in Nat /\ len[W] \in Nat /\ len[X] \in Nat
    BY <1>7, HeadsAreNoTasks
  <2>2. CASE h = S
    BY <2>1, <2>2, <1>8, HeadsAreNoTasks DEF Size
  <2>3. CASE h = W
    BY <2>1, <2>3, <1>8, HeadsAreNoTasks DEF Size
  <2>4. CASE h = X
    BY <2>1, <2>4, <1>8, HeadsAreNoTasks DEF Size
  <2> QED
    BY <2>2, <2>3, <2>4 DEF Heads
<1> QED
  BY <1>14, <1>15 DEF Resized

-----------------------------------------------------------------------------
(* The list primitives on rings of at most k tasks.                        *)

\* What is left when a task is taken off its list.
LEMMA LinkedDelete ==
  ASSUME NEW nx, NEW la, NEW T, NEW own, NEW k \in Nat, Linked(nx, la, T, own, k),
         NEW n \in T, nx[n] # n, NEW nx2, NEW la2,
         nx2 = [nx EXCEPT ![la[n]] = nx[n]], la2 = [la EXCEPT ![nx[n]] = la[n]]
  PROVE  Linked(nx2, la2, T \ {n}, own, k - 1)
<1>1. Ring(nx, la, T, own)
  BY DEF Linked
<1>2. PICK rank, len : Ranked(nx, T, own, rank, len) /\ Size(len) <= k
  BY DEF Linked
<1>3. Ring(nx2, la2, T \ {n}, own)
  BY <1>1, RingDelete
<1>4. Resized(nx2, T \ {n}, own, len, -1)
  BY <1>1, <1>2, RankDelete
<1>5. PICK rank2, len2 : Ranked(nx2, T \ {n}, own, rank2, len2) /\ Size(len2) = Size(len) + -1
  BY <1>4, Zenon DEF Resized
<1>6. len[S] \in Nat /\ len[W] \in Nat /\ len[X] \in Nat
  BY <1>2, HeadsAreNoTasks DEF Ranked
<1>7. Size(len) \in Nat
  BY <1>6 DEF Size
<1>8. Size(len2) <= k - 1
  BY <1>7, <1>2, <1>5
<1> QED
  BY <1>3, <1>5, <1>8 DEF Linked

\* task_list_delete takes a task off its list.  Its own pointers stay, and
\* unlinking it once more changes nothing.
LEMMA Deletes ==
  ASSUME NEW nx, NEW la, NEW T, NEW own, NEW k \in Nat, Linked(nx, la, T, own, k),
         NEW n \in T, NEW D, D = task_list_delete([next |-> nx, last |-> la], n)
  PROVE  /\ Linked(D.next, D.last, T \ {n}, own, k - 1)
         /\ D.next[D.last[n]] = D.next[n] /\ D.last[D.next[n]] = D.last[n]
<1> DEFINE nx2 == [nx EXCEPT ![la[n]] = nx[n]]
           la2 == [la EXCEPT ![nx[n]] = la[n]]
<1>1. Ring(nx, la, T, own)
  BY DEF Linked
<1>2. PICK rank, len : Ranked(nx, T, own, rank, len) /\ Size(len) <= k
  BY DEF Linked
<1>3. /\ nx \in [Nodes -> Nodes] /\ la \in [Nodes -> Nodes] /\ n \in Nodes
      /\ nx[n] \in Nodes /\ la[n] \in Nodes /\ nx[la[n]] = n
  BY <1>1, HeadsAreNoTasks DEF Ring
<1>4. nx[n] # n /\ la[n] # n
  BY <1>2, <1>3 DEF Ranked
<1>5. D = [next |-> nx2, last |-> la2]
  BY <1>3, DeleteIs
<1>6. nx2[n] = nx[n] /\ la2[n] = la[n] /\ nx2[la[n]] = nx[n] /\ la2[nx[n]] = la[n]
  BY <1>3, <1>4
<1>7. Linked(nx2, la2, T \ {n}, own, k - 1)
  BY <1>4, LinkedDelete
<1> HIDE DEF nx2, la2
<1>8. D.next = nx2 /\ D.last = la2
  <2>1. \A a, b : [next |-> a, last |-> b].next = a /\ [next |-> a, last |-> b].last = b
    OBVIOUS
  <2> QED
    BY <1>5, <2>1, Zenon
<1> QED
  BY <1>6, <1>7, <1>8, Zenon

\* task_list_add puts a task that is on no list onto list h.
LEMMA Adds ==
  ASSUME NEW nx, NEW la, NEW T, NEW own, NEW k \in Int, Linked(nx, la, T, own, k),
         NEW n \in Tasks, n \notin T, NEW h \in Heads,
         NEW A, A = task_list_add([next |-> nx, last |-> la], h, n)
  PROVE  Linked(A.next, A.last, T \cup {n}, [own EXCEPT ![n] = h], k + 1)
<1> DEFINE nx2 == [[nx EXCEPT ![n] = h] EXCEPT ![la[h]] = n]
           la2 == [[la EXCEPT ![h] = n] EXCEPT ![n] = la[h]]
           own2 == [own EXCEPT ![n] = h]
<1>1. Ring(nx, la, T, own)
  BY DEF Linked
<1>2. PICK rank, len : Ranked(nx, T, own, rank, len) /\ Size(len) <= k
  BY DEF Linked
<1>3. A = [next |-> nx2, last |-> la2]
  BY AddIs
<1> HIDE DEF nx2, la2, own2
<1>4. A.next = nx2 /\ A.last = la2
  <2>1. \A a, b : [next |-> a, last |-> b].next = a /\ [next |-> a, last |-> b].last = b
    OBVIOUS
  <2> QED
    BY <1>3, <2>1, Zenon
<1>5. Ring(nx2, la2, T \cup {n}, own2)
  BY <1>1, RingAdd DEF nx2, la2, own2
<1>6. PICK rank2, len2 : Ranked(nx2, T \cup {n}, own2, rank2, len2) /\ Size(len2) = Size(len) + 1
  <2>1. Resized(nx2, T \cup {n}, own2, len, 1)
    BY <1>1, <1>2, RankAdd DEF nx2, own2
  <2> QED
    BY <2>1, Zenon DEF Resized
<1>7. len[S] \in Nat /\ len[W] \in Nat /\ len[X] \in Nat
  BY <1>2, HeadsAreNoTasks DEF Ranked
<1>8. Size(len2) <= k + 1
  <2>1. Size(len) \in Nat
    BY <1>7 DEF Size
  <2> QED
    BY <2>1, <1>2, <1>6
<1>9. Linked(nx2, la2, T \cup {n}, own2, k + 1)
  BY <1>5, <1>6, <1>8 DEF Linked
<1> QED
  BY <1>4, <1>9 DEF own2

\* The two together move a task to the tail of list h.
LEMMA Moves ==
  ASSUME NEW nx, NEW la, NEW T, NEW own, NEW k \in Nat, Linked(nx, la, T, own, k),
         NEW n \in T, NEW h \in Heads, NEW A,
         A = task_list_add(task_list_delete([next |-> nx, last |-> la], n), h, n)
  PROVE  Linked(A.next, A.last, T, [own EXCEPT ![n] = h], k)
<1> DEFINE D == task_list_delete([next |-> nx, last |-> la], n)
<1>1. D = [next |-> D.next, last |-> D.last]
  BY DEF task_list_delete
<1>2. A = task_list_add(D, h, n)
  OBVIOUS
<1>3. Linked(D.next, D.last, T \ {n}, own, k - 1)
  BY Deletes
<1>4. n \in Tasks /\ n \notin T \ {n} /\ (T \ {n}) \cup {n} = T /\ (k - 1) + 1 = k /\ k - 1 \in Int
  BY DEF Linked, Ring
<1> HIDE DEF D
<1>5. A = task_list_add([next |-> D.next, last |-> D.last], h, n)
  BY <1>1, <1>2
<1>6. Linked(A.next, A.last, (T \ {n}) \cup {n}, [own EXCEPT ![n] = h], (k - 1) + 1)
  BY <1>3, <1>4, <1>5, Adds
<1> QED
  BY <1>4, <1>6

-----------------------------------------------------------------------------
(* What the pointers of the lists say, in every reachable state.           *)

\* The calls that leave a task off the lists in between.
OffLists == {"pid_mark", "link", "set_running", "wait_add", "wait_status", "wait_spin"}

\* What the lists rest on besides their pointers.
Frame ==
  /\ created \in 1 .. MaxTasks /\ task_list \subseteq 0 .. (created - 1)
  /\ at = [t \in Tasks |-> at[t]] /\ status = [t \in Tasks |-> status[t]]
  /\ signals = [t \in Tasks |-> signals[t]]
  /\ \A t \in Tasks : at[t].pc \notin OffLists
  /\ \A t \in Tasks : at[t].pc = "kill_store" => at[t].arg \in Targets

On(own) == Linked(next, last, task_list, own, created)

\* Where the tasks are that wait, that runs, and that the scheduler looks at.
\* A task that clearup has unlinked still points into its list, at nodes that
\* are neighbours now.
Held(own) ==
  /\ \A t \in task_list : own[t] = W => status[t] = "INTERRUPTIBLE"
  /\ intr.pc \in {"none", "handler"} => current \in task_list /\ own[current] = S
  /\ intr.pc = "scan" => intr.it \in task_list \cup {W} /\ own[intr.it] = W
  /\ intr.pc = "switch" => intr.it \in task_list /\ own[intr.it] = S
  /\ intr.pc = "clearup" =>
       /\ intr.it \in Tasks
       /\ \/ intr.it \in task_list /\ own[intr.it] = X
          \/ /\ intr.it \notin task_list /\ next[last[intr.it]] = next[intr.it]
             /\ last[next[intr.it]] = last[intr.it]

\* The shell can always run.
Shell(own) ==
  ShellIsSpared => /\ Idle \in task_list /\ own[Idle] = S
                   /\ signals[Idle] = {} /\ intr.pc # "wild"

ListInv == Frame /\ \E own : On(own) /\ Held(own) /\ Shell(own)

-----------------------------------------------------------------------------

\* Following the pointers of a ring ends at its head.
LEMMA HeadOfIs ==
  ASSUME NEW own, created \in 1 .. MaxTasks, On(own)
  PROVE  \A n \in task_list \cup Heads : HeadOf(n) = own[n]
<1>1. Ring(next, last, task_list, own) /\ MaxTasks \in Nat
  BY SchedAssumption DEF On, Linked
<1>2. PICK rank, len : Ranked(next, task_list, own, rank, len) /\ Size(len) <= created
  BY DEF On, Linked
<1>3. /\ \A h \in Heads : own[h] = h
      /\ \A n \in task_list : next[n] \in task_list \cup Heads /\ own[next[n]] = own[n]
      /\ task_list \subseteq Tasks /\ own \in [Nodes -> Heads]
  BY <1>1 DEF Ring
<1>4. /\ rank \in [Nodes -> Nat] /\ len \in [Heads -> Nat]
      /\ \A h \in Heads : rank[h] = 0
      /\ \A n \in task_list : rank[n] \in 1 .. len[own[n]] /\ rank[next[n]] = rank[n] - 1
  BY <1>2 DEF Ranked
<1>5. task_list \cup Heads \subseteq Nodes /\ task_list \cap Heads = {}
  BY <1>3, HeadsAreNoTasks
<1>6. \A n \in task_list \cup Heads : rank[n] \in 0 .. MaxTasks
  <2>1. len[S] \in Nat /\ len[W] \in Nat /\ len[X] \in Nat
    BY <1>4, HeadsAreNoTasks
  <2>2. \A h \in Heads : len[h] \in Nat /\ len[h] <= MaxTasks
    BY <2>1, <1>1, <1>2 DEF Heads, Size
  <2>3. \A n \in task_list : own[n] \in Heads
    BY <1>3, <1>5
  <2>4. ASSUME NEW n \in task_list PROVE rank[n] \in 0 .. MaxTasks
    <3>1. rank[n] \in 1 .. len[own[n]] /\ len[own[n]] \in Nat /\ len[own[n]] <= MaxTasks
      BY <2>2, <2>3, <1>4
    <3> QED
      BY <3>1, <1>1
  <2> QED
    BY <2>4, <1>1, <1>4
<1> DEFINE Right(k) == \A n \in task_list \cup Heads : rank[n] <= k => Follow[k][n] = own[n]
           Wrong == {k \in Nat : k <= MaxTasks /\ ~Right(k)}
<1>7. Wrong = {}
  <2> SUFFICES ASSUME Wrong # {} PROVE FALSE
    OBVIOUS
  <2>1. PICK k \in Wrong : \A j \in Wrong : k <= j
    BY Least
  <2>2. k \in 0 .. MaxTasks /\ ~Right(k)
    BY <1>1
  <2>3. PICK n \in task_list \cup Heads : rank[n] <= k /\ Follow[k][n] # own[n]
    BY <2>2
  <2>4. Follow[k] = Further(Follow, k) /\ n \in Nodes
    BY <2>2, <1>5, FollowIs
  <2>5. n \in task_list
    <3>1. n \in Heads => Follow[k][n] = n
      BY <2>4 DEF Further, Heads
    <3> QED
      BY <3>1, <2>3, <1>3
  <2>6. rank[n] \in 1 .. MaxTasks /\ rank[next[n]] = rank[n] - 1 /\ k # 0 /\ n \notin Heads
    BY <2>2, <2>3, <2>5, <1>1, <1>4, <1>5, <1>6
  <2>7. Follow[k][n] = Follow[k - 1][next[n]]
    BY <2>4, <2>6 DEF Further, Heads
  <2>8. k - 1 \in Nat /\ k - 1 <= MaxTasks /\ ~(k <= k - 1)
    BY <2>2, <2>6, <1>1
  <2>9. Right(k - 1)
    BY <2>1, <2>8
  <2>10. rank[next[n]] <= k - 1 /\ next[n] \in task_list \cup Heads
    BY <2>2, <2>3, <2>5, <2>6, <1>1, <1>3
  <2>11. Follow[k - 1][next[n]] = own[next[n]]
    BY <2>9, <2>10
  <2> QED
    BY <2>3, <2>5, <2>7, <2>11, <1>3
<1>8. Right(MaxTasks)
  BY <1>1, <1>7
<1> QED
  BY <1>6, <1>8, <1>1 DEF HeadOf

\* From any node the next pointer leads to a task of the same list or to its
\* head.
LEMMA NextOn ==
  ASSUME NEW nx, NEW la, NEW T, NEW own, NEW k, Linked(nx, la, T, own, k),
         NEW n \in T \cup Heads
  PROVE  /\ nx[n] \in T \cup {own[n]} /\ own[nx[n]] = own[n] /\ own[n] \in Heads
         /\ (nx[n] \in Tasks => nx[n] \in T) /\ (nx[n] \notin Tasks => nx[n] = own[n])
<1>1. Ring(nx, la, T, own)
  BY DEF Linked
<1>2. /\ nx[n] \in T \cup Heads /\ own[nx[n]] = own[n] /\ T \subseteq Tasks
      /\ \A h \in Heads : own[h] = h
      /\ own \in [Nodes -> Heads]
  BY <1>1 DEF Ring
<1>3. n \in Nodes
  BY <1>2, HeadsAreNoTasks
<1> QED
  BY <1>2, <1>3, HeadsAreNoTasks

\* Moving a task: own changes for it alone.
LEMMA MovesNow ==
  ASSUME NEW own, Frame, On(own), NEW t \in task_list, NEW h \in Heads, MoveTo(h, t),
         UNCHANGED <<task_list, created>>
  PROVE  \E o : /\ On(o)' /\ o[t] = h /\ \A m \in Nodes : m # t => o[m] = own[m]
<1> DEFINE o == [own EXCEPT ![t] = h]
           A == task_list_add(task_list_delete([next |-> next, last |-> last], t), h, t)
<1>1. own \in [Nodes -> Heads] /\ t \in Nodes /\ created \in Nat
  BY HeadsAreNoTasks, SchedAssumption DEF On, Linked, Ring, Frame
<1>2. next' = A.next /\ last' = A.last
  BY DEF MoveTo, SetLists, Now
<1>3. Linked(A.next, A.last, task_list, o, created)
  BY <1>1, Moves DEF On
<1>4. o[t] = h /\ \A m \in Nodes : m # t => o[m] = own[m]
  BY <1>1
<1> HIDE DEF o, A
<1>5. On(o)'
  BY <1>2, <1>3 DEF On
<1> QED
  BY <1>4, <1>5

-----------------------------------------------------------------------------
(* Every step keeps the frame.                                             *)

LEMMA FrameMoves ==
  ASSUME Frame, UNCHANGED <<created, task_list, status>>, NEW t \in Tasks, NEW a,
         at' = [at EXCEPT ![t] = a], a.pc \notin OffLists,
         a.pc = "kill_store" => a.arg \in Targets,
         signals' = [u \in Tasks |-> signals'[u]]
  PROVE  Frame'
<1>1. at' = [u \in Tasks |-> at'[u]] /\ at'[t] = a /\ \A u \in Tasks \ {t} : at'[u] = at[u]
  BY DEF Frame
<1>2. \A u \in Tasks : at'[u].pc \notin OffLists
  BY <1>1 DEF Frame
<1>3. \A u \in Tasks : at'[u].pc = "kill_store" => at'[u].arg \in Targets
  BY <1>1 DEF Frame
<1> QED
  BY <1>1, <1>2, <1>3 DEF Frame

\* The calls that leave the lists alone.
Apart(t) ==
  \/ \E u \in Targets, sig \in KillSignals : kill(t, u, sig)
  \/ kill_store(t)
  \/ getSem(t) \/ getSem_find(t) \/ getSem_claim(t) \/ getSem_init(t)
  \/ P(t) \/ Load(t) \/ P_store(t) \/ V(t)

LEMMA ApartLeaves ==
  ASSUME NEW t, Apart(t)
  PROVE  UNCHANGED <<next, last, created, task_list, status, pid, current, intr>>
  BY DEF Apart, kill, kill_store, getSem, getSem_find, getSem_claim, getSem_init, P, Load,
         P_store, V, SemStep, lists, taskVars

LEMMA FrameCalls ==
  ASSUME Frame, NEW t \in Tasks, Apart(t)
  PROVE  Frame'
<1>1. UNCHANGED <<created, task_list, status>>
  BY ApartLeaves
<1>2. ASSUME NEW pc, NEW arg, NEW val, Goto(t, pc, arg, val), pc \notin OffLists,
             pc # "kill_store", signals' = signals
      PROVE  Frame'
  <2> DEFINE a == [pc |-> pc, arg |-> arg, val |-> val]
  <2>1. at' = [at EXCEPT ![t] = a] /\ a.pc \notin OffLists /\ a.pc # "kill_store"
    BY <1>2 DEF Goto
  <2>2. signals' = [u \in Tasks |-> signals'[u]]
    BY <1>2 DEF Frame
  <2> HIDE DEF a
  <2> QED
    BY <2>1, <2>2, <1>1, FrameMoves
<1>3. Use(t) \notin OffLists /\ Use(t) # "kill_store"
  BY DEF Use, OffLists
<1>4. ASSUME Return(t), signals' = [u \in Tasks |-> signals'[u]] PROVE Frame'
  <2>1. at' = [at EXCEPT ![t] = Idling] /\ Idling.pc \notin OffLists /\ Idling.pc # "kill_store"
    BY <1>4 DEF Return, Idling, OffLists
  <2> QED
    BY <2>1, <1>1, <1>4, FrameMoves
<1>5. CASE \E u \in Targets, sig \in KillSignals : kill(t, u, sig)
  <2>1. PICK u \in Targets, sig \in KillSignals : kill(t, u, sig)
    BY <1>5
  <2> DEFINE a == [pc |-> "kill_store", arg |-> u, val |-> signals[u] \cup {sig}]
  <2>2. at' = [at EXCEPT ![t] = a] /\ a.pc \notin OffLists /\ a.arg \in Targets
    BY <2>1 DEF kill, Goto, OffLists
  <2>3. signals' = [v \in Tasks |-> signals'[v]]
    BY <2>1 DEF kill, taskVars, Frame
  <2> HIDE DEF a
  <2> QED
    BY <2>2, <2>3, <1>1, FrameMoves
<1>6. CASE kill_store(t)
  <2>1. Return(t) /\ signals' = [signals EXCEPT ![at[t].arg] = at[t].val]
    BY <1>6 DEF kill_store
  <2>2. signals' = [u \in Tasks |-> signals'[u]]
    BY <2>1 DEF Frame
  <2> QED
    BY <2>1, <2>2, <1>4
<1>7. CASE getSem(t) \/ P(t) \/ Load(t)
  BY <1>2, <1>7 DEF getSem, P, Load, SemStep, taskVars, OffLists
<1>8. CASE getSem_find(t) \/ getSem_claim(t)
  BY <1>2, <1>3, <1>8 DEF getSem_find, getSem_claim, SemStep, taskVars, OffLists
<1>9. CASE getSem_init(t)
  BY <1>2, <1>3, <1>9 DEF getSem_init, SemStep, taskVars
<1>10. CASE P_store(t) \/ V(t)
  <2>1. Return(t) /\ signals' = signals
    BY <1>10 DEF P_store, V, SemStep, taskVars
  <2>2. signals' = [u \in Tasks |-> signals'[u]]
    BY <2>1 DEF Frame
  <2> QED
    BY <2>1, <2>2, <1>4
<1> QED
  BY <1>5, <1>6, <1>7, <1>8, <1>9, <1>10 DEF Apart

LEMMA FrameSchedule ==
  ASSUME Frame, Tick \/ TickClearup \/ Schedule
  PROVE  Frame'
<1>1. UNCHANGED <<at, created>>
  BY ScheduleLeaves
<1>2. /\ task_list' \subseteq task_list
      /\ (\E t : status' = [status EXCEPT ![t] = "RUNNING"])
           \/ (\E t : status' = [status EXCEPT ![t] = "INTERRUPTIBLE"]) \/ status' = status
      /\ (\E t, v : signals' = [signals EXCEPT ![t] = v]) \/ signals' = signals
  <2>1. CASE Tick \/ TickClearup \/ clearup \/ Switch \/ HandlerReturns
    BY <2>1 DEF Tick, TickClearup, clearup, Switch, HandlerReturns, taskVars
  <2>2. CASE Scan
    BY <2>2 DEF Scan, Stop, Wake, taskVars
  <2>3. CASE Find
    BY <2>3 DEF Find, Stop, Wake, taskVars
  <2> QED
    BY <2>1, <2>2, <2>3 DEF Schedule
<1>3. status' = [t \in Tasks |-> status'[t]]
  BY <1>2 DEF Frame
<1>4. signals' = [t \in Tasks |-> signals'[t]]
  BY <1>2 DEF Frame
<1> QED
  BY <1>1, <1>2, <1>3, <1>4 DEF Frame

-----------------------------------------------------------------------------
(* Every step keeps the lists.                                             *)

\* The calls that leave the lists alone.
LEMMA ListCalls ==
  ASSUME ListInv, NEW t \in Tasks, Apart(t)
  PROVE  ListInv'
<1>1. Frame /\ Frame'
  BY FrameCalls DEF ListInv
<1>2. PICK own : On(own) /\ Held(own) /\ Shell(own)
  BY DEF ListInv
<1>3. UNCHANGED <<next, last, created, task_list, status, pid, current, intr>>
  BY ApartLeaves
<1>4. On(own)' /\ Held(own)'
  BY <1>2, <1>3 DEF On, Held
<1>5. ShellIsSpared => signals'[Idle] = signals[Idle]
  <2>1. CASE kill_store(t)
    <3>1. /\ at[t].pc = "kill_store" /\ signals' = [signals EXCEPT ![at[t].arg] = at[t].val]
          /\ signals = [u \in Tasks |-> signals[u]]
      BY <2>1, <1>1 DEF kill_store, Running, Frame
    <3>2. at[t].arg \in Targets
      BY <3>1, <1>1 DEF Frame
    <3>3. Idle \in Tasks
      BY SchedAssumption DEF Idle, Tasks
    <3> QED
      BY <3>1, <3>2, <3>3 DEF ShellIsSpared
  <2>2. CASE ~kill_store(t)
    <3>1. signals' = signals
      BY <2>2 DEF Apart, kill, getSem, getSem_find, getSem_claim, getSem_init, P, Load,
                  P_store, V, SemStep, taskVars
    <3> QED
      BY <3>1
  <2> QED
    BY <2>1, <2>2
<1>6. Shell(own)'
  BY <1>2, <1>3, <1>5 DEF Shell
<1> QED
  BY <1>1, <1>4, <1>6 DEF ListInv

\* A new task goes onto the schedule list.
LEMMA ListLoad ==
  ASSUME ListInv, NEW t \in Tasks, loadUserProgram(t)
  PROVE  ListInv'
<1>1. Frame
  BY DEF ListInv
<1>2. PICK own : On(own) /\ Held(own) /\ Shell(own)
  BY DEF ListInv
<1>3. /\ intr.pc = "none" /\ created < MaxTasks /\ UNCHANGED <<signals, current, at, intr>>
      /\ task_list' = task_list \cup {created} /\ created' = created + 1
      /\ status' = [status EXCEPT ![created] = "RUNNING"]
      /\ SetLists(task_list_add(Now, S, created))
  BY DEF loadUserProgram, NewTask, Running
<1>4. /\ created \in 1 .. MaxTasks /\ task_list \subseteq 0 .. (created - 1) /\ MaxTasks \in Nat
      /\ status = [u \in Tasks |-> status[u]]
  BY <1>1, SchedAssumption DEF Frame
<1>5. created \in Tasks /\ created' \in 1 .. MaxTasks /\ created \in Int
  BY <1>3, <1>4 DEF Tasks
<1>6. created \notin task_list /\ task_list \subseteq Tasks
  BY <1>4, <1>5 DEF Tasks
<1>7. task_list' \subseteq 0 .. (created' - 1)
  <2>1. \A u \in 0 .. (created - 1) : u \in 0 .. (created' - 1)
    BY <1>3, <1>4
  <2>2. created \in 0 .. (created' - 1)
    BY <1>3, <1>4
  <2> QED
    BY <2>1, <2>2, <1>3, <1>4
<1>8. /\ status' = [u \in Tasks |-> status'[u]]
      /\ \A u \in Tasks : u # created => status'[u] = status[u]
  BY <1>3, <1>4, <1>5
<1>9. Frame'
  BY <1>1, <1>3, <1>5, <1>7, <1>8 DEF Frame
<1> DEFINE o == [own EXCEPT ![created] = S]
           A == task_list_add([next |-> next, last |-> last], S, created)
<1>10. next' = A.next /\ last' = A.last
  BY <1>3 DEF SetLists, Now
<1>11. Linked(A.next, A.last, task_list \cup {created}, o, created + 1)
  BY <1>2, <1>5, <1>6, Adds, HeadsAreNoTasks DEF On
<1>12. own \in [Nodes -> Heads]
  BY <1>2 DEF On, Linked, Ring
<1>13. o[created] = S /\ \A m \in Nodes : m # created => o[m] = own[m]
  BY <1>5, <1>12, HeadsAreNoTasks
<1>14. PICK oo : oo = o
  OBVIOUS
<1> HIDE DEF o, A
<1>15. On(oo)'
  BY <1>3, <1>10, <1>11, <1>14 DEF On
<1>16. oo[created] = S /\ \A m \in task_list : oo[m] = own[m]
  BY <1>6, <1>13, <1>14, HeadsAreNoTasks
<1>17. Held(oo)'
  <2>1. current \in task_list /\ own[current] = S
    BY <1>2, <1>3 DEF Held
  <2>2. \A u \in task_list' : oo[u] = W => status'[u] = "INTERRUPTIBLE"
    <3>1. \A u \in task_list : oo[u] = W => status'[u] = "INTERRUPTIBLE"
      BY <1>2, <1>6, <1>8, <1>16 DEF Held
    <3> QED
      BY <3>1, <1>3, <1>16, HeadsAreNoTasks
  <2>3. current' \in task_list' /\ oo[current'] = S
    BY <2>1, <1>3, <1>16
  <2>4. intr'.pc = "none"
    BY <1>3
  <2> QED
    BY <2>2, <2>3, <2>4 DEF Held
<1>18. Shell(oo)'
  BY <1>2, <1>3, <1>16 DEF Shell
<1> QED
  BY <1>9, <1>15, <1>17, <1>18 DEF ListInv

\* A task t of some list is moved to list h; the steps of the scheduler that
\* move one.
LEMMA ListMoves ==
  ASSUME NEW own, Frame, Frame', On(own), Shell(own), NEW t \in task_list, NEW h \in Heads,
         MoveTo(h, t), UNCHANGED <<task_list, created>>,
         \A u \in task_list : own[u] = W => status[u] = "INTERRUPTIBLE",
         \A u \in task_list : u # t => status'[u] = status[u],
         h = W => status'[t] = "INTERRUPTIBLE",
         \/ intr'.pc = "find" 
         \/ intr'.pc = "switch" /\ intr'.it = t /\ h = S,
         ShellIsSpared => /\ signals'[Idle] = signals[Idle] /\ (t = Idle => h = S)
  PROVE  ListInv'
<1>1. PICK o : On(o)' /\ o[t] = h /\ \A m \in Nodes : m # t => o[m] = own[m]
  BY MovesNow
<1>2. t \in Nodes /\ task_list \subseteq Nodes
  BY HeadsAreNoTasks DEF On, Linked, Ring
<1>3. \A m \in task_list : m # t => o[m] = own[m]
  BY <1>1, <1>2
<1>4. \A u \in task_list : o[u] = W => status'[u] = "INTERRUPTIBLE"
  BY <1>1, <1>3
<1>5. Held(o)'
  BY <1>1, <1>4 DEF Held
<1>6. Shell(o)'
  BY <1>1, <1>3 DEF Shell
<1> QED
  BY <1>1, <1>5, <1>6 DEF ListInv

\* The scheduler looks at another node, or gives the CPU away, and leaves the
\* lists alone.
LEMMA ListLooks ==
  ASSUME NEW own, Frame', On(own), Shell(own),
         UNCHANGED <<next, last, task_list, created, status>>,
         \A u \in task_list : own[u] = W => status[u] = "INTERRUPTIBLE",
         \/ intr'.pc = "find"
         \/ intr'.pc = "switch" /\ intr'.it \in task_list /\ own[intr'.it] = S
         \/ intr'.pc = "scan" /\ intr'.it \in task_list \cup {W} /\ own[intr'.it] = W
         \/ intr'.pc = "clearup" /\ intr'.it \in task_list /\ own[intr'.it] = X
         \/ intr'.pc \in {"none", "handler"} /\ current' \in task_list /\ own[current'] = S
         \/ intr'.pc = "wild" /\ ~ShellIsSpared,
         ShellIsSpared => signals'[Idle] = signals[Idle]
  PROVE  ListInv'
<1>1. On(own)'
  BY DEF On
<1>2. task_list \subseteq Tasks
  BY DEF On, Linked, Ring
<1>3. Held(own)'
  BY <1>2 DEF Held
<1>4. Shell(own)'
  BY DEF Shell
<1> QED
  BY <1>1, <1>3, <1>4 DEF ListInv

\* The interrupt is taken.
LEMMA ListTick ==
  ASSUME ListInv, Tick \/ TickClearup
  PROVE  ListInv'
<1>1. Frame /\ Frame'
  BY FrameSchedule DEF ListInv
<1>2. PICK own : On(own) /\ Held(own) /\ Shell(own)
  BY DEF ListInv
<1>3. /\ intr.pc = "none" /\ UNCHANGED <<status, signals, pid, created, task_list>>
  BY DEF Tick, TickClearup, In, taskVars
<1>4. /\ current \in task_list /\ own[current] = S
      /\ \A u \in task_list : own[u] = W => status[u] = "INTERRUPTIBLE"
  BY <1>2, <1>3 DEF Held
<1>5. CASE TickClearup
  <2>1. /\ next[X] # X /\ UNCHANGED <<next, last>>
        /\ intr' = [pc |-> "clearup", it |-> next[X], flag |-> FALSE]
    BY <1>5 DEF TickClearup, Step, lists
  <2>2. X \in Heads /\ own[X] = X
    BY <1>2, HeadsAreNoTasks DEF On, Linked, Ring
  <2>3. next[X] \in task_list /\ own[next[X]] = X
    BY <2>1, <2>2, <1>2, NextOn DEF On
  <2>4. intr'.pc = "clearup" /\ intr'.it = next[X]
    BY <2>1
  <2> QED
    BY <2>1, <2>3, <2>4, <1>1, <1>2, <1>3, <1>4, ListLooks
<1>6. CASE Tick
  <2>1. PICK o : /\ On(o)' /\ o[current] = S
                 /\ \A m \in Nodes : m # current => o[m] = own[m]
    <3>1. CASE status[current] = "RUNNING"
      <4>1. MoveTo(S, current)
        BY <1>6, <3>1 DEF Tick, MoveTo
      <4> QED
        BY <4>1, <1>1, <1>2, <1>3, <1>4, MovesNow, HeadsAreNoTasks
    <3>2. CASE status[current] # "RUNNING"
      <4>1. UNCHANGED <<next, last>>
        BY <1>6, <3>2 DEF Tick, SetLists, Now
      <4>2. On(own)'
        BY <4>1, <1>2, <1>3 DEF On
      <4> QED
        BY <4>2, <1>4
    <3> QED
      BY <3>1, <3>2
  <2>2. intr' = [pc |-> "scan", it |-> next'[W], flag |-> FALSE]
    BY <1>6 DEF Tick, SetLists, Step
  <2>3. intr'.pc = "scan" /\ intr'.it = next'[W]
    BY <2>2
  <2>4. Linked(next', last', task_list, o, created)
    BY <2>1, <1>3 DEF On
  <2>5. W \in Heads /\ o[W] = W
    BY <2>4, HeadsAreNoTasks DEF Linked, Ring
  <2>6. next'[W] \in task_list \cup {W} /\ o[next'[W]] = W
    BY <2>4, <2>5, NextOn
  <2>7. task_list \subseteq Nodes
    BY <2>4, HeadsAreNoTasks DEF Linked, Ring
  <2>8. \A m \in task_list : o[m] = own[m]
    BY <2>1, <2>7, <1>4
  <2>9. \A u \in task_list : o[u] = W => status[u] = "INTERRUPTIBLE"
    BY <2>8, <1>4
  <2>10. Held(o)'
    BY <2>3, <2>6, <2>9, <1>3 DEF Held
  <2>11. Shell(o)'
    BY <2>3, <2>8, <1>2, <1>3 DEF Shell
  <2> QED
    BY <2>1, <2>10, <2>11, <1>1 DEF ListInv
<1> QED
  BY <1>5, <1>6

\* The loop of clearup unlinks a task once, and from then on nothing.
LEMMA ListClearup ==
  ASSUME ListInv, clearup
  PROVE  ListInv'
<1>1. Frame /\ Frame'
  BY FrameSchedule DEF ListInv, Schedule
<1>2. PICK own : On(own) /\ Held(own) /\ Shell(own)
  BY DEF ListInv
<1> DEFINE n == intr.it
           D == task_list_delete([next |-> next, last |-> last], n)
<1>3. /\ intr.pc = "clearup" /\ next' = D.next /\ last' = D.last
      /\ task_list' = task_list \ {n}
      /\ UNCHANGED <<status, signals, created, current, intr>>
  BY DEF clearup, In, SetLists, Now
<1>4. /\ n \in Tasks
      /\ \/ n \in task_list /\ own[n] = X
         \/ /\ n \notin task_list /\ next[last[n]] = next[n] /\ last[next[n]] = last[n]
  BY <1>2, <1>3 DEF Held
<1>5. created \in Nat
  BY <1>1, SchedAssumption DEF Frame
<1>6. \A u \in task_list : own[u] = W => status[u] = "INTERRUPTIBLE"
  BY <1>2, <1>3 DEF Held
<1>7. CASE n \in task_list
  <2>1. /\ Linked(D.next, D.last, task_list \ {n}, own, created - 1)
        /\ D.next[D.last[n]] = D.next[n] /\ D.last[D.next[n]] = D.last[n]
    <3>1. Linked(next, last, task_list, own, created)
      BY <1>2 DEF On
    <3>2. PICK d : d = D
      OBVIOUS
    <3>3. d = task_list_delete([next |-> next, last |-> last], n)
      BY <3>2
    <3> HIDE DEF D, n
    <3>4. /\ Linked(d.next, d.last, task_list \ {n}, own, created - 1)
          /\ d.next[d.last[n]] = d.next[n] /\ d.last[d.next[n]] = d.last[n]
      BY <3>1, <3>3, <1>5, <1>7, Deletes
    <3> QED
      BY <3>2, <3>4, Zenon
  <2> HIDE DEF D, n
  <2>2. \A k \in Int : k <= created - 1 => k <= created
    BY <1>5
  <2>3. Linked(D.next, D.last, task_list \ {n}, own, created)
    <3>1. PICK rank, len : /\ Ranked(D.next, task_list \ {n}, own, rank, len)
                           /\ Size(len) <= created - 1
      BY <2>1 DEF Linked
    <3>2. len[S] \in Nat /\ len[W] \in Nat /\ len[X] \in Nat
      BY <3>1, HeadsAreNoTasks DEF Ranked
    <3>3. Size(len) \in Int
      BY <3>2 DEF Size
    <3>4. Size(len) <= created
      BY <3>1, <3>3, <2>2
    <3> QED
      BY <3>1, <3>4, <2>1 DEF Linked
  <2>4. On(own)'
    BY <2>3, <1>3 DEF On
  <2>5. intr'.pc = "clearup" /\ intr'.it = n
    BY <1>3 DEF n
  <2>6. n \notin task_list' /\ next'[last'[n]] = next'[n] /\ last'[next'[n]] = last'[n]
    BY <2>1, <1>3
  <2>7. \A u \in task_list' : own[u] = W => status'[u] = "INTERRUPTIBLE"
    BY <1>3, <1>6
  <2>8. Held(own)'
    BY <2>5, <2>6, <2>7, <1>4 DEF Held
  <2>9. Shell(own)'
    BY <2>5, <1>2, <1>3, <1>4, <1>7, HeadsAreNoTasks DEF Shell
  <2> QED
    BY <2>4, <2>8, <2>9, <1>1 DEF ListInv
<1>8. CASE n \notin task_list
  <2>1. next \in [Nodes -> Nodes] /\ last \in [Nodes -> Nodes] /\ n \in Nodes
    BY <1>2, <1>4, HeadsAreNoTasks DEF On, Linked, Ring
  <2>2. D = [next |-> [next EXCEPT ![last[n]] = next[n]], last |-> [last EXCEPT ![next[n]] = last[n]]]
    BY <2>1, DeleteIs
  <2>3. [next EXCEPT ![last[n]] = next[n]] = next /\ [last EXCEPT ![next[n]] = last[n]] = last
    BY <2>1, <1>4, <1>8
  <2>4. D = [next |-> next, last |-> last]
    BY <2>2, <2>3
  <2> HIDE DEF D, n
  <2>5. D.next = next /\ D.last = last
    BY <2>4
  <2>6. UNCHANGED <<next, last, task_list>>
    BY <2>5, <1>3, <1>8
  <2>7. On(own)' /\ Held(own)' /\ Shell(own)'
    BY <2>6, <1>2, <1>3 DEF On, Held, Shell
  <2> QED
    BY <2>7, <1>1 DEF ListInv
<1> QED
  BY <1>7, <1>8

\* The context switch and the end of a signal handler.
LEMMA ListSwitch ==
  ASSUME ListInv, Switch \/ HandlerReturns
  PROVE  ListInv'
<1>1. Frame /\ Frame'
  BY FrameSchedule DEF ListInv, Schedule
<1>2. PICK own : On(own) /\ Held(own) /\ Shell(own)
  BY DEF ListInv
<1>3. UNCHANGED <<next, last, status, signals, created, task_list>>
  BY DEF Switch, HandlerReturns, lists, taskVars
<1>4. \A u \in task_list : own[u] = W => status[u] = "INTERRUPTIBLE"
  BY <1>2 DEF Held
<1>5. intr'.pc \in {"none", "handler"} /\ current' \in task_list /\ own[current'] = S
  <2>1. CASE Switch
    <3>1. intr.pc = "switch" /\ current' = intr.it /\ intr'.pc \in {"none", "handler"}
      BY <2>1 DEF Switch, In, Step
    <3> QED
      BY <3>1, <1>2 DEF Held
  <2>2. CASE HandlerReturns
    <3>1. intr.pc = "handler" /\ current' = current /\ intr'.pc = "none"
      BY <2>2 DEF HandlerReturns, In, Step
    <3> QED
      BY <3>1, <1>2 DEF Held
  <2> QED
    BY <2>1, <2>2
<1> QED
  BY <1>1, <1>2, <1>3, <1>4, <1>5, ListLooks

\* A list whose head points at itself has no task.
LEMMA OnlyHead ==
  ASSUME NEW own, On(own), NEW h \in Heads, next[h] = h
  PROVE  \A n \in task_list : own[n] # h
<1>1. Ring(next, last, task_list, own)
  BY DEF On, Linked
<1>2. PICK rank, len : Ranked(next, task_list, own, rank, len)
  BY DEF On, Linked
<1>3. /\ own[h] = h /\ last[h] = h /\ h \notin task_list /\ task_list \cap Heads = {}
      /\ task_list \cup Heads \subseteq Nodes
  BY <1>1, HeadsAreNoTasks DEF Ring
<1> DEFINE Ranks == {i \in Nat : \E n \in task_list : own[n] = h /\ rank[n] = i}
<1> SUFFICES ASSUME Ranks # {} PROVE FALSE
  <2>1. \A n \in task_list : rank[n] \in Nat
    BY <1>2, <1>3 DEF Ranked
  <2> QED
    BY <2>1
<1>4. PICK i \in Ranks : \A j \in Ranks : i <= j
  BY Least
<1>5. PICK n \in task_list : own[n] = h /\ rank[n] = i
  OBVIOUS
<1>6. /\ next[n] \in task_list \cup Heads /\ own[next[n]] = h /\ last[next[n]] = n
      /\ rank[next[n]] = rank[n] - 1 /\ rank[n] \in Nat /\ rank[next[n]] \in Nat
  BY <1>1, <1>2, <1>3, <1>5 DEF Ring, Ranked
<1>7. next[n] \notin Heads
  BY <1>1, <1>3, <1>5, <1>6 DEF Ring
<1>8. rank[n] - 1 \in Ranks
  BY <1>6, <1>7
<1>9. i <= rank[n] - 1
  BY <1>4, <1>8
<1> QED
  BY <1>5, <1>6, <1>9

\* The wait list is searched: a task is stopped, woken or passed over.
LEMMA ListScan ==
  ASSUME ListInv, Scan
  PROVE  ListInv'
<1>1. Frame /\ Frame'
  BY FrameSchedule DEF ListInv, Schedule
<1>2. PICK own : On(own) /\ Held(own) /\ Shell(own)
  BY DEF ListInv
<1>3. PICK t : t = intr.it
  OBVIOUS
<1>4. /\ t \in task_list \cup {W} /\ own[t] = W
      /\ \A u \in task_list : own[u] = W => status[u] = "INTERRUPTIBLE"
  BY <1>2, <1>3 DEF Scan, In, Held
<1>5. /\ task_list \subseteq Tasks /\ W \in Heads /\ S \in Heads /\ X \in Heads
      /\ W # S /\ W # X /\ W \notin Tasks
  BY <1>2, HeadsAreNoTasks DEF On, Linked, Ring
<1>6. status = [u \in Tasks |-> status[u]] /\ signals = [u \in Tasks |-> signals[u]]
  BY <1>1 DEF Frame
<1>7. Idle \in Tasks /\ (ShellIsSpared => own[Idle] = S /\ Idle # t)
  BY <1>2, <1>4, <1>5, SchedAssumption DEF Shell, Idle, Tasks
<1>8. CASE t = W
  <2>1. /\ UNCHANGED <<next, last, task_list, created, status, signals>>
        /\ intr' = [pc |-> "find", it |-> S, flag |-> FALSE]
    BY <1>3, <1>8 DEF Scan, Step, lists, taskVars
  <2>2. intr'.pc = "find"
    BY <2>1
  <2> QED
    BY <2>1, <2>2, <1>1, <1>2, <1>4, ListLooks
<1>9. CASE t # W /\ "SIGSTOP" \in signals[t]
  <2>1. Stop(t) /\ t \in task_list
    BY <1>3, <1>4, <1>5, <1>9 DEF Scan
  <2>2. /\ MoveTo(X, t) /\ UNCHANGED <<task_list, created, status>>
        /\ signals' = [signals EXCEPT ![t] = @ \ {"SIGSTOP"}] /\ intr'.pc = "find"
    BY <2>1 DEF Stop, Step
  <2>3. ShellIsSpared => signals'[Idle] = signals[Idle]
    BY <2>2, <1>6, <1>7
  <2> QED
    BY <2>1, <2>2, <2>3, <1>1, <1>2, <1>4, <1>5, <1>7, ListMoves
<1>10. CASE t # W /\ "SIGSTOP" \notin signals[t] /\ "SIGCHILD" \in signals[t]
  <2>1. t \in task_list /\ status[t] = "INTERRUPTIBLE" /\ t \in Tasks
    BY <1>4, <1>5, <1>10
  <2>2. Wake(t) /\ intr' = [pc |-> "switch", it |-> t, flag |-> FALSE]
    BY <1>3, <1>10, <2>1 DEF Scan, Step
  <2>3. /\ MoveTo(S, t) /\ UNCHANGED <<task_list, created>>
        /\ status' = [status EXCEPT ![t] = "RUNNING"]
        /\ signals' = [signals EXCEPT ![t] = @ \ {"SIGCHILD"}]
        /\ intr'.pc = "switch" /\ intr'.it = t
    BY <2>2 DEF Wake
  <2>4. ShellIsSpared => signals'[Idle] = signals[Idle]
    BY <2>3, <1>6, <1>7
  <2>5. \A u \in task_list : u # t => status'[u] = status[u]
    BY <2>3, <1>5, <1>6
  <2> QED
    BY <2>1, <2>3, <2>4, <2>5, <1>1, <1>2, <1>4, <1>5, <1>7, ListMoves
<1>11. CASE t # W /\ "SIGSTOP" \notin signals[t] /\ "SIGCHILD" \notin signals[t]
  <2>1. t \in task_list /\ t \in Tasks
    BY <1>4, <1>5, <1>11
  <2>2. /\ UNCHANGED <<next, last, task_list, created, status, signals>>
        /\ intr' = [pc |-> "scan", it |-> next[t], flag |-> FALSE]
    BY <1>3, <1>11, <2>1 DEF Scan, Step, lists, taskVars
  <2>3. intr'.pc = "scan" /\ intr'.it = next[t]
    BY <2>2
  <2>4. next[t] \in task_list \cup {W} /\ own[next[t]] = W
    BY <2>1, <1>2, <1>4, NextOn DEF On
  <2> QED
    BY <2>2, <2>3, <2>4, <1>1, <1>2, <1>4, ListLooks
<1> QED
  BY <1>8, <1>9, <1>10, <1>11

\* The head of the schedule list is stopped, put to sleep or chosen.
LEMMA ListFind ==
  ASSUME ListInv, Find
  PROVE  ListInv'
<1>1. Frame /\ Frame'
  BY FrameSchedule DEF ListInv, Schedule
<1>2. PICK own : On(own) /\ Held(own) /\ Shell(own)
  BY DEF ListInv
<1>3. PICK t : t = next[S]
  OBVIOUS
<1>4. /\ task_list \subseteq Tasks /\ W \in Heads /\ S \in Heads /\ X \in Heads
      /\ W # S /\ S # X /\ S \notin Tasks /\ own[S] = S
  BY <1>2, HeadsAreNoTasks DEF On, Linked, Ring
<1>5. /\ (t \in Tasks => t \in task_list) /\ (t \notin Tasks => t = S) /\ own[t] = S
  BY <1>2, <1>3, <1>4, NextOn DEF On
<1>6. \A u \in task_list : own[u] = W => status[u] = "INTERRUPTIBLE"
  BY <1>2 DEF Held
<1>7. status = [u \in Tasks |-> status[u]] /\ signals = [u \in Tasks |-> signals[u]]
  BY <1>1 DEF Frame
<1>8. Idle \in Tasks /\ (ShellIsSpared => own[Idle] = S /\ signals[Idle] = {} /\ Idle \in task_list)
  BY <1>2, SchedAssumption DEF Shell, Idle, Tasks
<1>9. CASE t \notin Tasks
  <2>1. /\ UNCHANGED <<next, last, task_list, created, status, signals>>
        /\ intr' = [pc |-> "wild", it |-> S, flag |-> FALSE]
    BY <1>3, <1>9 DEF Find, Step, lists, taskVars
  <2>2. intr'.pc = "wild"
    BY <2>1
  <2>3. ~ShellIsSpared
    <3>1. next[S] = S
      BY <1>3, <1>5, <1>9
    <3>2. \A n \in task_list : own[n] # S
      BY <3>1, <1>2, <1>4, OnlyHead
    <3> QED
      BY <3>2, <1>8
  <2> QED
    BY <2>1, <2>2, <2>3, <1>1, <1>2, <1>6, ListLooks
<1>10. CASE t \in Tasks /\ "SIGSTOP" \in signals[t]
  <2>1. Stop(t) /\ t \in task_list
    BY <1>3, <1>5, <1>10 DEF Find
  <2>2. /\ MoveTo(X, t) /\ UNCHANGED <<task_list, created, status>>
        /\ signals' = [signals EXCEPT ![t] = @ \ {"SIGSTOP"}] /\ intr'.pc = "find"
    BY <2>1 DEF Stop, Step
  <2>3. ShellIsSpared => t # Idle
    BY <1>8, <1>10
  <2>4. ShellIsSpared => signals'[Idle] = signals[Idle]
    BY <2>2, <2>3, <1>7, <1>8
  <2>5. X # W
    BY HeadsAreNoTasks
  <2> QED
    BY <2>1, <2>2, <2>3, <2>4, <2>5, <1>1, <1>2, <1>4, <1>6, ListMoves
<1>11. CASE t \in Tasks /\ "SIGSTOP" \notin signals[t] /\ "SIGWAIT" \in signals[t]
  <2>1. t \in task_list
    BY <1>5, <1>11
  <2>2. /\ MoveTo(W, t) /\ UNCHANGED <<task_list, created>>
        /\ status' = [status EXCEPT ![t] = "INTERRUPTIBLE"]
        /\ signals' = [signals EXCEPT ![t] = @ \ {"SIGWAIT"}] /\ intr'.pc = "find"
    BY <1>3, <1>11 DEF Find, Step
  <2>3. ShellIsSpared => t # Idle
    BY <1>8, <1>11
  <2>4. ShellIsSpared => signals'[Idle] = signals[Idle]
    BY <2>2, <2>3, <1>7, <1>8
  <2>5. status'[t] = "INTERRUPTIBLE" /\ \A u \in task_list : u # t => status'[u] = status[u]
    BY <2>1, <2>2, <1>4, <1>7
  <2> QED
    BY <2>1, <2>2, <2>3, <2>4, <2>5, <1>1, <1>2, <1>4, <1>6, ListMoves
<1>12. CASE /\ t \in Tasks /\ "SIGSTOP" \notin signals[t] /\ "SIGWAIT" \notin signals[t]
            /\ "SIGCHILD" \in signals[t]
  <2>1. t \in task_list /\ (ShellIsSpared => t # Idle)
    BY <1>5, <1>8, <1>12
  <2>2. intr' = [pc |-> "switch", it |-> t, flag |-> FALSE]
    BY <1>3, <1>12 DEF Find, Step
  <2>3. intr'.pc = "switch" /\ intr'.it = t
    BY <2>2
  <2>4. CASE status[t] = "INTERRUPTIBLE"
    <3>1. /\ MoveTo(S, t) /\ UNCHANGED <<task_list, created>>
          /\ status' = [status EXCEPT ![t] = "RUNNING"]
          /\ signals' = [signals EXCEPT ![t] = @ \ {"SIGCHILD"}]
      BY <1>3, <1>12, <2>4 DEF Find, Wake
    <3>2. ShellIsSpared => signals'[Idle] = signals[Idle]
      BY <3>1, <2>1, <1>7, <1>8
    <3>3. \A u \in task_list : u # t => status'[u] = status[u]
      BY <3>1, <1>4, <1>7
    <3> QED
      BY <3>1, <3>2, <3>3, <2>1, <2>3, <1>1, <1>2, <1>4, <1>6, ListMoves
  <2>5. CASE status[t] # "INTERRUPTIBLE"
    <3>1. UNCHANGED <<next, last, task_list, created, status, signals>>
      BY <1>3, <1>12, <2>5 DEF Find, lists, taskVars
    <3> QED
      BY <3>1, <2>1, <2>3, <1>1, <1>2, <1>5, <1>6, ListLooks
  <2> QED
    BY <2>4, <2>5
<1>13. CASE /\ t \in Tasks /\ "SIGSTOP" \notin signals[t] /\ "SIGWAIT" \notin signals[t]
            /\ "SIGCHILD" \notin signals[t]
  <2>1. t \in task_list
    BY <1>5, <1>13
  <2>2. /\ UNCHANGED <<next, last, task_list, created, status>>
        /\ signals' = [signals EXCEPT ![t] = @ \ {"SIGRESERVE"}]
        /\ intr'.pc = "switch" /\ intr'.it = t
    BY <1>3, <1>13 DEF Find, Step, lists
  <2>3. ShellIsSpared => signals'[Idle] = signals[Idle]
    <3>1. CASE t = Idle
      BY <3>1, <2>2, <1>7, <1>8
    <3>2. CASE t # Idle
      BY <3>2, <2>2, <1>7, <1>8
    <3> QED
      BY <3>1, <3>2
  <2> QED
    BY <2>1, <2>2, <2>3, <1>1, <1>2, <1>5, <1>6, ListLooks
<1> QED
  BY <1>9, <1>10, <1>11, <1>12, <1>13

\* The lists are linked initially.
LEMMA ListInit == Init => ListInv
<1> SUFFICES ASSUME Init PROVE ListInv
  OBVIOUS
<1>1. /\ MaxTasks \in Nat \ {0} /\ Idle = 0 /\ Idle \in Tasks
      /\ created = 1 /\ task_list = {Idle} /\ current = Idle
      /\ intr = [pc |-> "none", it |-> S, flag |-> FALSE]
      /\ at = [t \in Tasks |-> Idling]
      /\ status = [t \in Tasks |-> IF t = Idle THEN "RUNNING" ELSE "PREPARING"]
      /\ signals = [t \in Tasks |-> {}]
  BY SchedAssumption DEF Init, Idle, Tasks
<1>2. Idling.pc = "run" /\ "run" \notin OffLists
  BY DEF Idling, OffLists
<1>3. Frame
  <2>1. created \in 1 .. MaxTasks /\ task_list \subseteq 0 .. (created - 1)
    BY <1>1
  <2>2. \A t \in Tasks : at[t].pc = "run"
    BY <1>1, <1>2
  <2>3. /\ at = [t \in Tasks |-> at[t]] /\ status = [t \in Tasks |-> status[t]]
        /\ signals = [t \in Tasks |-> signals[t]]
    BY <1>1
  <2> QED
    BY <2>1, <2>2, <2>3, <1>2 DEF Frame
<1> DEFINE o == [n \in Nodes |-> IF n \in Tasks THEN S ELSE n]
           f == [n \in Nodes |-> IF n = S THEN Idle ELSE IF n = Idle THEN S ELSE n]
           rank == [n \in Nodes |-> IF n = Idle THEN 1 ELSE 0]
           len == [h \in Heads |-> IF h = S THEN 1 ELSE 0]
<1>4. next = f /\ last = f
  BY DEF Init
<1>5. /\ Idle \notin Heads /\ Idle \in Nodes /\ Heads \subseteq Nodes /\ S \in Heads /\ S # Idle
      /\ \A h \in Heads : h \notin Tasks
      /\ \A n \in Nodes : n \notin Tasks => n \in Heads
  BY <1>1, HeadsAreNoTasks
<1>6. /\ f \in [Nodes -> Nodes] /\ f[S] = Idle /\ f[Idle] = S
      /\ \A h \in Heads : h # S => f[h] = h
  BY <1>5
<1>7. /\ o \in [Nodes -> Heads] /\ o[Idle] = S /\ \A h \in Heads : o[h] = h
  BY <1>1, <1>5
<1>8. /\ rank \in [Nodes -> Nat] /\ rank[Idle] = 1 /\ \A h \in Heads : rank[h] = 0
      /\ len \in [Heads -> Nat] /\ len[S] = 1 /\ len[W] = 0 /\ len[X] = 0
  BY <1>5, HeadsAreNoTasks
<1> HIDE DEF o, f, rank, len
<1>9. Ring(f, f, {Idle}, o)
  <2>1. ASSUME NEW n \in {Idle} \cup Heads
        PROVE  f[n] \in {Idle} \cup Heads /\ f[f[n]] = n /\ o[f[n]] = o[n]
    <3>1. CASE n = Idle \/ n = S
      BY <3>1, <1>5, <1>6, <1>7
    <3>2. CASE n # Idle /\ n # S
      BY <3>2, <1>6
    <3> QED
      BY <3>1, <3>2
  <2>2. {Idle} \subseteq Tasks
    BY <1>1
  <2> QED
    BY <2>1, <2>2, <1>6, <1>7 DEF Ring
<1>10. Ranked(f, {Idle}, o, rank, len)
  <2>1. rank[Idle] \in 1 .. len[o[Idle]] /\ rank[f[Idle]] = rank[Idle] - 1
    BY <1>5, <1>6, <1>7, <1>8
  <2> QED
    BY <2>1, <1>8 DEF Ranked
<1>11. Size(len) <= 1
  BY <1>8 DEF Size
<1>12. On(o)
  <2>1. Linked(f, f, {Idle}, o, 1)
    BY <1>9, <1>10, <1>11 DEF Linked
  <2> QED
    BY <2>1, <1>1, <1>4 DEF On
<1>13. intr.pc = "none" /\ S # W
  BY <1>1, HeadsAreNoTasks
<1>14. Held(o)
  BY <1>1, <1>7, <1>13 DEF Held
<1>15. Shell(o)
  BY <1>1, <1>7, <1>13 DEF Shell
<1> QED
  BY <1>3, <1>12, <1>14, <1>15 DEF ListInv

\* The lists of pc.c stay rings through their heads as long as the calls that
\* change them run with interrupts disabled.
THEOREM ListInvariant == Uninterrupted => (Spec => []ListInv)
<1> SUFFICES ASSUME Uninterrupted PROVE Spec => []ListInv
  OBVIOUS
<1>1. Init => ListInv
  BY ListInit
<1>2. ListInv /\ [Next]_vars => ListInv'
  <2> SUFFICES ASSUME ListInv, [Next]_vars PROVE ListInv'
    OBVIOUS
  <2>1. CASE UNCHANGED vars
    BY <2>1 DEF vars, lists, taskVars, ListInv, Frame, On, Held, Shell
  <2>2. CASE Tick \/ TickClearup
    BY <2>2, ListTick
  <2>3. CASE Schedule
    BY <2>3, ListClearup, ListScan, ListFind, ListSwitch DEF Schedule
  <2>4. CASE Call
    <3>1. PICK t \in Tasks :
            \/ loadUserProgram(t) \/ Apart(t)
            \/ task_create(t) \/ task_create_mark(t) \/ task_create_link(t)
            \/ task_create_running(t)
            \/ waitpid(t) \/ waitpid_add(t) \/ waitpid_status(t) \/ waitpid_return(t)
      BY <2>4 DEF Call, Apart
    <3>2. at[t].pc \notin OffLists
      BY DEF ListInv, Frame
    <3>3. ~task_create(t) /\ ~waitpid(t)
      BY DEF Uninterrupted, task_create, waitpid
    <3>4. ~task_create_mark(t) /\ ~task_create_link(t) /\ ~task_create_running(t)
      BY <3>2 DEF task_create_mark, task_create_link, task_create_running, Running, OffLists
    <3>5. ~waitpid_add(t) /\ ~waitpid_status(t) /\ ~waitpid_return(t)
      BY <3>2 DEF waitpid_add, waitpid_status, waitpid_return, Running, OffLists
    <3> QED
      BY <3>1, <3>3, <3>4, <3>5, ListLoad, ListCalls
  <2> QED
    BY <2>1, <2>2, <2>3, <2>4 DEF Next
<1> QED
  BY <1>1, <1>2, PTL DEF Spec

\* Every task that exists is linked into exactly one of the lists and no pointer
\* of a list dangles, whatever the scheduler moves, stops and clears up
\* (pc.c task_list_add, task_list_delete, pc_schedule, clearup).
THEOREM ListsAreSound == Uninterrupted => (Spec => []ListsSound)
<1> SUFFICES ASSUME Uninterrupted PROVE Spec => []ListsSound
  OBVIOUS
<1>1. ListInv => ListsSound
  <2> SUFFICES ASSUME ListInv PROVE ListsSound
    OBVIOUS
  <2>1. PICK own : On(own)
    BY DEF ListInv
  <2>2. \A n \in task_list \cup Heads : HeadOf(n) = own[n]
    BY <2>1, HeadOfIs DEF ListInv, Frame
  <2>3. Ring(next, last, task_list, own) /\ task_list \cup Heads \subseteq Nodes
    BY <2>1, HeadsAreNoTasks DEF On, Linked, Ring
  <2>4. \A n \in task_list \cup Heads :
          /\ next[last[n]] = n /\ last[next[n]] = n /\ next[n] \in task_list \cup Heads
          /\ own[n] \in Heads
    BY <2>3 DEF Ring
  <2>5. Live = task_list \cup Heads /\ {S, W, X} = Heads
    BY DEF Live, Heads
  <2> QED
    BY <2>2, <2>4, <2>5 DEF ListsSound
<1>2. Spec => []ListInv
  BY ListInvariant
<1> QED
  BY <1>1, <1>2, PTL

\* The CPU is given to a task of the schedule list and never to a list head, as
\* long as nobody stops the shell or makes it wait: the schedule list is then
\* never empty (pc.c pc_schedule takes its first node without a test).
THEOREM ScheduledTaskRuns ==
  Uninterrupted /\ ShellIsSpared => (Spec => []RunsAScheduledTask)
<1> SUFFICES ASSUME Uninterrupted, ShellIsSpared PROVE Spec => []RunsAScheduledTask
  OBVIOUS
<1>1. ListInv => RunsAScheduledTask
  <2> SUFFICES ASSUME ListInv PROVE RunsAScheduledTask
    OBVIOUS
  <2>1. PICK own : On(own) /\ Held(own) /\ Shell(own)
    BY DEF ListInv
  <2>2. \A n \in task_list \cup Heads : HeadOf(n) = own[n]
    BY <2>1, HeadOfIs DEF ListInv, Frame
  <2>3. intr.pc # "wild"
    BY <2>1 DEF Shell
  <2>4. intr.pc = "none" => current \in task_list /\ own[current] = S
    BY <2>1 DEF Held
  <2> QED
    BY <2>2, <2>3, <2>4 DEF RunsAScheduledTask
<1>2. Spec => []ListInv
  BY ListInvariant
<1> QED
  BY <1>1, <1>2, PTL
=============================================================================
