-------------------------------- MODULE Sched -------------------------------
(***************************************************************************)
(* Process control, kernel/pc/pc.c: task lists, signals, waiting, the pid  *)
(* bitmap and the timer interrupt pc_schedule.                             *)
(*                                                                         *)
(* One CPU.  The current task runs its kernel calls with interrupts on, so *)
(* a timer interrupt may come between any two steps of a call; a step is   *)
(* one list primitive, one load or one store.  pc_schedule itself runs     *)
(* with interrupts masked: its steps follow each other with nothing in     *)
(* between.                                                                *)
(*                                                                         *)
(* The lists are kept as the code keeps them, by the pointers of their     *)
(* nodes, because an interrupted call leaves them in states that are not   *)
(* lists.  A node is a task (its node_shedule) or a list head.             *)
(***************************************************************************)
EXTENDS Integers, FiniteSets

CONSTANTS
  MaxTasks,      \* bound: task structures ever allocated
  PidRows,       \* PID_STATUS_SIZE, rows of the pid bitmap
  PidBits,       \* pids per row, the bits of an unsigned char
  Loaders,       \* tasks that call loadUserProgram (the shell is task 0)
  Creators,      \* tasks that call task_create
  Waiters,       \* tasks that call waitpid
  Killers,       \* tasks that call kill
  Targets,       \* the tasks they send signals to
  KillSignals,   \* the signals they send
  SemMax,        \* SEM_MAX, slots for semaphores
  Raisers,       \* tasks that call getSem and V
  Takers,        \* tasks that call getSem and P
  MaxRaises      \* bound: calls of V

ASSUME SchedAssumption ==
  /\ MaxTasks \in Nat \ {0}
  /\ PidRows \in Nat \ {0}
  /\ PidBits \in Nat \ {0}
  /\ Loaders \cup Creators \cup Waiters \cup Killers \cup Targets
       \cup Raisers \cup Takers \subseteq 0 .. (MaxTasks - 1)
  /\ SemMax \in Nat \ {0} /\ MaxRaises \in Nat
  /\ KillSignals \subseteq {"SIGSTOP", "SIGCHILD", "SIGWAIT", "SIGRESERVE"}

VARIABLES
  next, last,    \* the pointers of every node
  task_list,     \* tasks on task_list, searched by pid
  created,       \* task structures allocated so far
  status,        \* task_struct.status
  signals,       \* task_struct.signals
  pid,           \* task_struct.pid
  pid_status,    \* the pid bitmap: pids marked as taken
  sem,           \* the slots, what a preempted P or V has loaded, and,
                 \* as history, how often V was called
  current,
  at,            \* where each task is in a kernel call
  intr           \* where pc_schedule is

Tasks == 0 .. (MaxTasks - 1)
Idle == 0

\* The list heads: schedule list, wait list, exit list.
S == -1
W == -2
X == -3
Nodes == Tasks \cup {S, W, X}

Signals == {"SIGSTOP", "SIGCHILD", "SIGWAIT", "SIGRESERVE"}
Pids == 0 .. (PidRows * PidBits - 1)
NoPid == -1

Slots == 0 .. (SemMax - 1)

lists == <<next, last>>
taskVars == <<status, signals, pid, created, task_list>>
vars == <<lists, taskVars, pid_status, sem, current, at, intr>>

-----------------------------------------------------------------------------
(* List primitives, pointer by pointer.                                    *)

\* task_list_add at the tail of list l.
task_list_add(L, l, n) ==
  LET prev == L.last[l]
  IN  [next |-> [[L.next EXCEPT ![n] = l] EXCEPT ![prev] = n],
       last |-> [[L.last EXCEPT ![l] = n] EXCEPT ![n] = prev]]

task_list_delete(L, n) ==
  LET nx == [L.next EXCEPT ![L.last[n]] = L.next[n]]
  IN  [next |-> nx, last |-> [L.last EXCEPT ![nx[n]] = L.last[n]]]

Now == [next |-> next, last |-> last]
SetLists(L) == next' = L.next /\ last' = L.last
\* Mutant: the node is not unlinked first.
MoveToLinked(l, n) == SetLists(task_list_add(Now, l, n))

MoveTo(l, n) == SetLists(task_list_add(task_list_delete(Now, n), l, n))

-----------------------------------------------------------------------------
(* The pid bitmap.                                                         *)

Row(p) == {q \in Pids : q \div PidBits = p \div PidBits}

\* pid_alloc reads the bitmap: the lowest free pid, or none.
FreePid ==
  IF Pids \subseteq pid_status THEN NoPid
  ELSE CHOOSE p \in Pids \ pid_status : \A q \in Pids \ pid_status : p <= q

\* pid_delete ORs the row with the complement of the pid's bit.
pid_delete(p) == pid_status' = pid_status \cup (Row(p) \ {p})

-----------------------------------------------------------------------------
(* Kernel calls of the current task.                                       *)

Idling == [pc |-> "run", arg |-> 0, val |-> {}]

\* The current task executes, no interrupt being handled.
Running(t, pc) == intr.pc = "none" /\ current = t /\ at[t].pc = pc

Goto(t, pc, arg, val) ==
  at' = [at EXCEPT ![t] = [pc |-> pc, arg |-> arg, val |-> val]]
Return(t) == at' = [at EXCEPT ![t] = Idling]

\* init_pc: the shell is task 0 and the only one.
Init ==
  /\ next = [n \in Nodes |-> IF n = S THEN Idle ELSE IF n = Idle THEN S ELSE n]
  /\ last = [n \in Nodes |-> IF n = S THEN Idle ELSE IF n = Idle THEN S ELSE n]
  /\ task_list = {Idle}
  /\ created = 1
  /\ status = [t \in Tasks |-> IF t = Idle THEN "RUNNING" ELSE "PREPARING"]
  /\ signals = [t \in Tasks |-> {}]
  /\ pid = [t \in Tasks |-> IF t = Idle THEN 0 ELSE NoPid]
  /\ pid_status = {0}
  /\ sem = [key |-> [i \in Slots |-> FALSE], value |-> [i \in Slots |-> 0],
            loaded |-> [t \in Tasks |-> 0], raised |-> 0]
  /\ current = Idle
  /\ at = [t \in Tasks |-> Idling]
  /\ intr = [pc |-> "none", it |-> S, flag |-> FALSE]

\* task_create_ builds the structure of a task with pid p, puts it onto the
\* list of all tasks and the schedule list and makes it RUNNING.
NewTask(p) ==
  /\ pid' = [pid EXCEPT ![created] = p]
  /\ task_list' = task_list \cup {created}
  /\ SetLists(task_list_add(Now, S, created))
  /\ status' = [status EXCEPT ![created] = "RUNNING"]
  /\ created' = created + 1

\* loadUserProgram: pid_alloc and task_create_ with interrupts disabled.  A
\* failed pid_alloc makes task_create_ return without a task.
loadUserProgram(t) ==
  /\ Running(t, "run") /\ t \in Loaders /\ created < MaxTasks
  /\ FreePid # NoPid
  /\ pid_status' = pid_status \cup {FreePid}
  /\ NewTask(FreePid)
  /\ UNCHANGED <<signals, sem, current, at, intr>>

\* task_create, with interrupts on: pid_alloc chooses a pid ...
task_create(t) ==
  /\ Running(t, "run") /\ t \in Creators /\ created < MaxTasks
  /\ FreePid # NoPid
  /\ Goto(t, "pid_mark", FreePid, {})
  /\ UNCHANGED <<lists, taskVars, pid_status, sem, current, intr>>

\* Mutant: the pid is not marked as taken.
task_create_unmarked(t) ==
  /\ Running(t, "pid_mark") /\ created < MaxTasks
  /\ pid' = [pid EXCEPT ![created] = at[t].arg]
  /\ created' = created + 1
  /\ task_list' = task_list \cup {created}
  /\ Goto(t, "link", created, {})
  /\ UNCHANGED <<lists, status, signals, pid_status, sem, current, intr>>

\* ... and marks it; kmalloc and the initialisation of the structure follow,
\* then the task goes onto the list of all tasks ...
task_create_mark(t) ==
  /\ Running(t, "pid_mark") /\ created < MaxTasks
  /\ pid_status' = pid_status \cup {at[t].arg}
  /\ pid' = [pid EXCEPT ![created] = at[t].arg]
  /\ created' = created + 1
  /\ task_list' = task_list \cup {created}
  /\ Goto(t, "link", created, {})
  /\ UNCHANGED <<lists, status, signals, sem, current, intr>>

\* ... and onto the schedule list ...
task_create_link(t) ==
  /\ Running(t, "link")
  /\ SetLists(task_list_add(Now, S, at[t].arg))
  /\ Goto(t, "set_running", at[t].arg, {})
  /\ UNCHANGED <<taskVars, pid_status, sem, current, intr>>

\* ... and becomes RUNNING.
task_create_running(t) ==
  /\ Running(t, "set_running")
  /\ status' = [status EXCEPT ![at[t].arg] = "RUNNING"]
  /\ Return(t)
  /\ UNCHANGED <<lists, signals, pid, created, task_list, pid_status, sem, current, intr>>

\* kill loads the signal word of the task that has the pid, ORs in its bit ...
kill(t, u, sig) ==
  /\ Running(t, "run") /\ t \in Killers /\ u \in task_list
  /\ Goto(t, "kill_store", u, signals[u] \cup {sig})
  /\ UNCHANGED <<lists, taskVars, pid_status, sem, current, intr>>

\* ... and stores it back.
kill_store(t) ==
  /\ Running(t, "kill_store")
  /\ signals' = [signals EXCEPT ![at[t].arg] = at[t].val]
  /\ Return(t)
  /\ UNCHANGED <<lists, status, pid, created, task_list, pid_status, sem, current, intr>>

\* waitpid takes the current task off the schedule list, ...
waitpid(t) ==
  /\ Running(t, "run") /\ t \in Waiters
  /\ SetLists(task_list_delete(Now, t))
  /\ Goto(t, "wait_add", 0, {})
  /\ UNCHANGED <<taskVars, pid_status, sem, current, intr>>

\* ... puts it on the wait list, ...
waitpid_add(t) ==
  /\ Running(t, "wait_add")
  /\ SetLists(task_list_add(Now, W, t))
  /\ Goto(t, "wait_status", 0, {})
  /\ UNCHANGED <<taskVars, pid_status, sem, current, intr>>

\* ... marks it as waiting, ...
waitpid_status(t) ==
  /\ Running(t, "wait_status")
  /\ status' = [status EXCEPT ![t] = "INTERRUPTIBLE"]
  /\ Goto(t, "wait_spin", 0, {})
  /\ UNCHANGED <<lists, signals, pid, created, task_list, pid_status, sem, current, intr>>

\* ... and spins until the scheduler has changed the mark.
waitpid_return(t) ==
  /\ Running(t, "wait_spin")
  /\ status[t] # "INTERRUPTIBLE"
  /\ Return(t)
  /\ UNCHANGED <<lists, taskVars, pid_status, sem, current, intr>>

-----------------------------------------------------------------------------
(* Semaphores, as tasks of one key use them: getSem with the value 0, then *)
(* V or P.  Every comparison, load and store is a step.                    *)

SemStep == UNCHANGED <<lists, taskVars, pid_status, current, intr>>
Use(t) == IF t \in Raisers THEN "v_load" ELSE "p_test"

\* getSem looks for the key ...
getSem(t) ==
  /\ Running(t, "run")
  /\ t \in Takers \/ (t \in Raisers /\ sem.raised < MaxRaises)
  /\ Goto(t, "sem_find", 0, {}) /\ SemStep /\ UNCHANGED sem

getSem_find(t) ==
  /\ Running(t, "sem_find")
  /\ LET i == at[t].arg
     IN  IF i = SemMax THEN Goto(t, "sem_claim", 0, {})
         ELSE IF sem.key[i] THEN Goto(t, Use(t), i, {})
         ELSE Goto(t, "sem_find", i + 1, {})
  /\ SemStep /\ UNCHANGED sem

\* ... and then for a slot without one, which it claims ...
getSem_claim(t) ==
  /\ Running(t, "sem_claim") /\ at[t].arg < SemMax
  /\ LET i == at[t].arg
     IN  IF sem.key[i] THEN Goto(t, "sem_claim", i + 1, {}) /\ UNCHANGED sem
         ELSE Goto(t, "sem_init", i, {}) /\ sem' = [sem EXCEPT !.key[i] = TRUE]
  /\ SemStep

\* ... and initialises.
getSem_init(t) ==
  /\ Running(t, "sem_init")
  /\ sem' = [sem EXCEPT !.value[at[t].arg] = 0]
  /\ Goto(t, Use(t), at[t].arg, {}) /\ SemStep

\* Mutant: a value of zero lets the task pass.
P_passes_zero(t) ==
  /\ Running(t, "p_test") /\ sem.value[at[t].arg] >= 0
  /\ Goto(t, "p_load", at[t].arg, {}) /\ SemStep /\ UNCHANGED sem

\* P tests the value, again and again while it is not positive, ...
P(t) ==
  /\ Running(t, "p_test") /\ sem.value[at[t].arg] > 0
  /\ Goto(t, "p_load", at[t].arg, {}) /\ SemStep /\ UNCHANGED sem

\* ... and then loads it and stores it decremented; V loads it and stores it
\* incremented.
Load(t) ==
  /\ \/ Running(t, "p_load") /\ Goto(t, "p_store", at[t].arg, {})
     \/ Running(t, "v_load") /\ Goto(t, "v_store", at[t].arg, {})
  /\ sem' = [sem EXCEPT !.loaded[t] = sem.value[at[t].arg]]
  /\ SemStep

P_store(t) ==
  /\ Running(t, "p_store")
  /\ sem' = [sem EXCEPT !.value[at[t].arg] = sem.loaded[t] - 1, !.loaded[t] = 0]
  /\ Return(t) /\ SemStep

V(t) ==
  /\ Running(t, "v_store")
  /\ sem' = [sem EXCEPT !.value[at[t].arg] = sem.loaded[t] + 1, !.loaded[t] = 0,
                        !.raised = @ + 1]
  /\ Return(t) /\ SemStep

-----------------------------------------------------------------------------
(* pc_schedule, the timer interrupt.                                       *)

In(pc) == intr.pc = pc
Step(pc, it, flag) == intr' = [pc |-> pc, it |-> it, flag |-> flag]

\* Mutant: the current task stays at the head of the schedule list.
TickNoRotation ==
  /\ In("none")
  /\ next[X] = X
  /\ Step("scan", next[W], FALSE)
  /\ UNCHANGED <<lists, taskVars, pid_status, sem, current, at>>

\* The interrupt is taken; with an empty exit list clearup returns at once,
\* and a current task that is RUNNING goes to the tail of the schedule list.
Tick ==
  /\ In("none")
  /\ next[X] = X
  /\ LET L == IF status[current] = "RUNNING"
              THEN task_list_add(task_list_delete(Now, current), S, current)
              ELSE Now
     IN  SetLists(L) /\ Step("scan", L.next[W], FALSE)
  /\ UNCHANGED <<taskVars, pid_status, sem, current, at>>

\* With tasks on the exit list the interrupt enters the loop of clearup ...
TickClearup ==
  /\ In("none")
  /\ next[X] # X
  /\ Step("clearup", next[X], FALSE)
  /\ UNCHANGED <<lists, taskVars, pid_status, sem, current, at>>

\* ... which unlinks the task its node stands for and tests the same node
\* again.
clearup ==
  /\ In("clearup")
  /\ intr.it # X
  /\ SetLists(task_list_delete(Now, intr.it))
  /\ task_list' = task_list \ {intr.it}
  /\ UNCHANGED <<status, signals, pid, created, pid_status, sem, current, at, intr>>

\* Mutant: the scheduler does not look for another task.
StopAndRun(t) ==
  /\ MoveTo(X, t)
  /\ pid_delete(pid[t])
  /\ signals' = [signals EXCEPT ![t] = @ \ {"SIGSTOP"}]
  /\ Step("switch", t, FALSE)
  /\ UNCHANGED <<status, pid, created, task_list, sem, current, at>>

\* SIGSTOP: to the exit list, the pid is released.
Stop(t) ==
  /\ MoveTo(X, t)
  /\ pid_delete(pid[t])
  /\ signals' = [signals EXCEPT ![t] = @ \ {"SIGSTOP"}]
  /\ Step("find", S, FALSE)
  /\ UNCHANGED <<status, pid, created, task_list, sem, current, at>>

\* SIGCHILD for a waiting task: back to the schedule list.
Wake(t) ==
  /\ MoveTo(S, t)
  /\ status' = [status EXCEPT ![t] = "RUNNING"]
  /\ signals' = [signals EXCEPT ![t] = @ \ {"SIGCHILD"}]
  /\ UNCHANGED <<pid, created, task_list>>

\* Mutant: only the first waiting task is looked at.
ScanFirstOnly ==
  /\ In("scan")
  /\ LET t == intr.it
     IN  IF t \in Tasks /\ "SIGCHILD" \in signals[t]
         THEN /\ Wake(t)
              /\ Step("switch", t, FALSE)
              /\ UNCHANGED <<pid_status, sem, current, at>>
         ELSE /\ Step("find", S, FALSE)
              /\ UNCHANGED <<lists, taskVars, pid_status, sem, current, at>>

\* The wait list is searched for a task that was killed or woken; the task
\* that is woken runs at once.
Scan ==
  /\ In("scan")
  /\ LET t == intr.it
     IN  IF t = W
         THEN /\ Step("find", S, FALSE)
              /\ UNCHANGED <<lists, taskVars, pid_status, sem, current, at>>
         ELSE IF t \notin Tasks
         THEN /\ Step("wild", S, FALSE)
              /\ UNCHANGED <<lists, taskVars, pid_status, sem, current, at>>
         ELSE IF "SIGSTOP" \in signals[t]
         THEN Stop(t)
         ELSE IF "SIGCHILD" \in signals[t]
         THEN /\ IF status[t] = "INTERRUPTIBLE" THEN Wake(t)
                 ELSE UNCHANGED <<lists, taskVars>>
              /\ Step("switch", t, FALSE)
              /\ UNCHANGED <<pid_status, sem, current, at>>
         ELSE /\ Step("scan", next[t], FALSE)
              /\ UNCHANGED <<lists, taskVars, pid_status, sem, current, at>>

\* The head of the schedule list is examined until one can run.
Find ==
  /\ In("find")
  /\ LET t == next[S]
     IN  IF t \notin Tasks
         THEN /\ Step("wild", S, FALSE)
              /\ UNCHANGED <<lists, taskVars, pid_status, sem, current, at>>
         ELSE IF "SIGSTOP" \in signals[t]
         THEN Stop(t)
         ELSE IF "SIGWAIT" \in signals[t]
         THEN /\ MoveTo(W, t)
              /\ status' = [status EXCEPT ![t] = "INTERRUPTIBLE"]
              /\ signals' = [signals EXCEPT ![t] = @ \ {"SIGWAIT"}]
              /\ Step("find", S, FALSE)
              /\ UNCHANGED <<pid, created, task_list, pid_status, sem, current, at>>
         ELSE IF "SIGCHILD" \in signals[t]
         THEN /\ IF status[t] = "INTERRUPTIBLE" THEN Wake(t)
                 ELSE UNCHANGED <<lists, taskVars>>
              /\ Step("switch", t, FALSE)
              /\ UNCHANGED <<pid_status, sem, current, at>>
         ELSE /\ Step("switch", t, "SIGRESERVE" \in signals[t])
              /\ signals' = [signals EXCEPT ![t] = @ \ {"SIGRESERVE"}]
              /\ UNCHANGED <<lists, status, pid, created, task_list,
                             pid_status, sem, current, at>>

\* The context switch.  The handler of a SIGRESERVE is called only if the
\* task is not the current one already.
Switch ==
  /\ In("switch")
  /\ current' = intr.it
  /\ Step(IF intr.flag /\ intr.it # current THEN "handler" ELSE "none", S, FALSE)
  /\ UNCHANGED <<lists, taskVars, pid_status, sem, at>>

\* The signal handler runs inside the interrupt and returns.
HandlerReturns ==
  /\ In("handler")
  /\ Step("none", S, FALSE)
  /\ UNCHANGED <<lists, taskVars, pid_status, sem, current, at>>

Call ==
  \E t \in Tasks :
    \/ loadUserProgram(t)
    \/ task_create(t) \/ task_create_mark(t) \/ task_create_link(t)
    \/ task_create_running(t)
    \/ \E u \in Targets, sig \in KillSignals : kill(t, u, sig)
    \/ kill_store(t)
    \/ waitpid(t) \/ waitpid_add(t) \/ waitpid_status(t) \/ waitpid_return(t)
    \/ getSem(t) \/ getSem_find(t) \/ getSem_claim(t) \/ getSem_init(t)
    \/ P(t) \/ Load(t) \/ P_store(t) \/ V(t)

Schedule == clearup \/ Scan \/ Find \/ Switch \/ HandlerReturns

Next == Call \/ Tick \/ TickClearup \/ Schedule

Spec == Init /\ [][Next]_vars

\* The timer keeps ticking, an interrupt handler keeps running, and a task
\* that has the CPU inside a kernel call goes on with it.
CallStep(t) ==
  \/ task_create_mark(t) \/ task_create_link(t) \/ task_create_running(t)
  \/ kill_store(t)
  \/ waitpid_add(t) \/ waitpid_status(t) \/ waitpid_return(t)
  \/ getSem_find(t) \/ getSem_claim(t) \/ getSem_init(t)
  \/ P(t) \/ Load(t) \/ P_store(t) \/ V(t)

FairSpec ==
  /\ Spec
  /\ WF_vars(Tick \/ TickClearup)
  /\ WF_vars(Schedule)
  /\ \A t \in Tasks : WF_vars(CallStep(t))

-----------------------------------------------------------------------------
(* Properties.                                                             *)

\* Where k next pointers lead from a node, stopping at a head.
Follow[k \in 0..MaxTasks] ==
  [m \in Nodes |-> IF m \in {S, W, X} \/ k = 0 THEN m ELSE Follow[k - 1][next[m]]]

\* The list a node is on: the head its next pointers lead to.
HeadOf(n) == Follow[MaxTasks][n]

Live == task_list \cup {S, W, X}

\* Every task that exists is linked into exactly one of the three lists, and
\* no pointer of a list is dangling, however the scheduler's own moves and
\* the calls that the timer interrupts are ordered.
ListsSound ==
  \A n \in Live : /\ next[last[n]] = n /\ last[next[n]] = n
                  /\ next[n] \in Live
                  /\ HeadOf(n) \in {S, W, X}

\* The CPU is never given to a task that waits or was stopped, and the
\* scheduler never takes a list head for a task.
RunsAScheduledTask ==
  /\ intr.pc # "wild"
  /\ intr.pc = "none" => HeadOf(current) = S

\* A waiting task to which SIGCHILD was sent is woken and gets the CPU,
\* whatever other tasks wait before it, whether the signal came before or
\* after waitpid, and wherever the timer interrupted waitpid; unless a task
\* was stopped, and clearup never lets go of the CPU (ClearupEnds).
WakeupDelivered ==
  \A t \in Tasks :
    (status[t] = "INTERRUPTIBLE" /\ "SIGCHILD" \in signals[t])
      ~> ((current = t /\ status[t] = "RUNNING") \/ intr.pc = "clearup")

\* The rotation of the schedule list starves nobody: a task that is RUNNING
\* gets the CPU or is sent a signal first, as long as no task was stopped.
NobodyStarves ==
  \A t \in Tasks :
    (t \in task_list /\ status[t] = "RUNNING")
      ~> (current = t \/ signals[t] # {} \/ intr.pc = "clearup")

\* clearup leaves its loop (its comment: it clears the exit list).
ClearupEnds == (intr.pc = "clearup") ~> (intr.pc # "clearup")

\* No task gets past P before a V: whatever the order in which tasks find,
\* claim and initialise the slot of their key, no slot ever promises a
\* resource that nobody released.
TakenAfterRaised ==
  /\ \A i \in Slots : sem.value[i] <= sem.raised
  /\ \A t \in Tasks : at[t].pc \in {"p_load", "p_store"} => sem.raised > 0

\* What pid_alloc needs of its callers, since it reads the bitmap and marks it
\* with interrupts on: whoever calls task_create is the only one to make tasks.
OneCreator == \A t \in Creators, u \in Creators \cup Loaders : u = t

\* What the lists need of the calls that change them: none of them is made with
\* interrupts on, as task_create and waitpid are.
Uninterrupted == Creators = {} /\ Waiters = {}

\* What the scheduler needs, which has no idle task but the shell: nobody sends
\* the shell a signal.
ShellIsSpared == Idle \notin Targets

\* Two tasks never have the same pid.
PidsDistinct ==
  \A t, u \in task_list : pid[t] = pid[u] => t = u
=============================================================================
