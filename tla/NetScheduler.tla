---------------------------- MODULE NetScheduler ----------------------------
(***************************************************************************)
(* The state of the global scheduler (ghost_agent/net_scheduler.cc) and    *)
(* what its handlers and helpers do to it.  Every operator takes the       *)
(* scheduler s and returns the scheduler after the call.  A CHECK that     *)
(* fails ends the process: it clears s.ok.                                 *)
(*                                                                         *)
(* Run times, time stamps and the statistics counters are left out: no     *)
(* decision modelled here reads them, except the 300us and 2% conditions   *)
(* on memcached threads, which become a free choice.                       *)
(***************************************************************************)
EXTENDS Naturals, Sequences, FiniteSets, FiniteSetsExt, Functions, Folds

CONSTANTS
    Task,               \* the threads that may join the enclave
    NumCpus,            \* the CPUs of the enclave are 0 .. NumCpus - 1
    NoTask,             \* nullptr
    EngineThread,       \* the tasks whose name contains "EngineThread"
    allowed_cpulist,    \* the affinity of each task
    enforce_affinity_mask_,
    siblings,           \* the topology, as a set of CPUs for each CPU
    l3_siblings,
    numa_node           \* the NUMA node of each CPU

CPU == 0 .. NumCpus - 1

(* Cpu::UninitializedType::kUninitialized *)
NoCpu == NumCpus

ASSUME SchedulerAssumption ==
    /\ NumCpus \in Nat \ {0}
    /\ NoTask \notin Task
    /\ EngineThread \subseteq Task
    /\ allowed_cpulist \in [Task -> SUBSET CPU]
    /\ enforce_affinity_mask_ \in BOOLEAN
    /\ siblings \in [CPU -> SUBSET CPU]
    /\ l3_siblings \in [CPU -> SUBSET CPU]
    /\ DOMAIN numa_node = CPU

RunState == {"BLOCKED", "QUEUED", "ON_CPU", "YIELDING", "PENDING"}

(* `alive' is the allocator's view: the tasks that have a NetTask object.  *)
Scheduler ==
    [alive : SUBSET Task,
     run_state : [Task -> RunState],
     cpu : [Task -> CPU \cup {NoCpu}],
     prio_boost : [Task -> BOOLEAN],
     preempted : [Task -> BOOLEAN],
     high_priority : [Task -> BOOLEAN],
     run_queue_ : Seq(Task),
     run_queue_low_priority_ : Seq(Task),
     yielding_tasks_ : Seq(Task),
     current : [CPU -> Task \cup {NoTask}],
     next : [CPU -> Task \cup {NoTask}],
     in_switchto : [CPU -> BOOLEAN],
     ok : BOOLEAN]

InitScheduler ==
    [alive |-> {},
     run_state |-> [t \in Task |-> "BLOCKED"],
     cpu |-> [t \in Task |-> NoCpu],
     prio_boost |-> [t \in Task |-> FALSE],
     preempted |-> [t \in Task |-> FALSE],
     high_priority |-> [t \in Task |-> FALSE],
     run_queue_ |-> << >>,
     run_queue_low_priority_ |-> << >>,
     yielding_tasks_ |-> << >>,
     current |-> [c \in CPU |-> NoTask],
     next |-> [c \in CPU |-> NoTask],
     in_switchto |-> [c \in CPU |-> FALSE],
     ok |-> TRUE]

CHECK(s, p) == [s EXCEPT !.ok = s.ok /\ p]

(***************************************************************************)
(* The run queues.                                                         *)
(***************************************************************************)
Push(s, t, queue) ==
    IF s.prio_boost[t] \/ s.preempted[t] THEN <<t>> \o queue ELSE Append(queue, t)

Enqueue(s, t) ==
    LET r == [s EXCEPT !.run_state[t] = "QUEUED"]
    IN  IF s.high_priority[t]
        THEN [r EXCEPT !.run_queue_ = Push(s, t, @)]
        ELSE [r EXCEPT !.run_queue_low_priority_ = Push(s, t, @)]

QueuesEmpty(s) == s.run_queue_ = << >> /\ s.run_queue_low_priority_ = << >>

(* The task Dequeue returns, and the scheduler without it. *)
Dequeued(s) ==
    Head(IF s.run_queue_ # << >> THEN s.run_queue_ ELSE s.run_queue_low_priority_)

Dequeue(s) ==
    IF s.run_queue_ # << >>
    THEN [s EXCEPT !.run_queue_ = Tail(@)]
    ELSE [s EXCEPT !.run_queue_low_priority_ = Tail(@)]

Yield(s, t) ==
    [CHECK(s, s.run_state[t] \in {"ON_CPU", "QUEUED", "BLOCKED"})
        EXCEPT !.run_state[t] = "YIELDING",
               !.yielding_tasks_ = Append(@, t)]

(* std::find and erase. *)
Erase(queue, t) ==
    LET it == Min({i \in DOMAIN queue : queue[i] = t})
    IN  IF t \in Range(queue) THEN SubSeq(queue, 1, it - 1) \o SubSeq(queue, it + 1, Len(queue))
        ELSE queue

RemoveFromRunqueue(s, t, run_state) ==
    LET r == [CHECK(s, s.run_state[t] = "QUEUED") EXCEPT !.run_state[t] = run_state]
    IN  IF t \in Range(s.run_queue_)
        THEN [r EXCEPT !.run_queue_ = Erase(@, t)]
        ELSE [CHECK(r, t \in Range(s.run_queue_low_priority_))
                EXCEPT !.run_queue_low_priority_ = Erase(@, t)]

(* The loop over yielding_tasks_. *)
UnyieldEach(s) ==
    LET Unyield(t, r) == Enqueue(CHECK(r, r.run_state[t] = "YIELDING"), t)
    IN  MapThenFoldSet(Unyield, s, LAMBDA i : s.yielding_tasks_[i], Max,
                       DOMAIN s.yielding_tasks_)

(* Mutations of UnyieldAll: yielding_tasks_ is not cleared; the tasks are  *)
(* forgotten instead of enqueued.                                          *)
UnyieldAllKeeps(s) == UnyieldEach(s)

UnyieldAllForgets(s) == [s EXCEPT !.yielding_tasks_ = << >>]

(* Yielding tasks go back to the run queues after one round.               *)
UnyieldAll(s) == [UnyieldEach(s) EXCEPT !.yielding_tasks_ = << >>]

(***************************************************************************)
(* The state of a CPU.  txn gives the state of the RunRequest of each CPU. *)
(***************************************************************************)
TxnState == {"open", "submitted", "complete", "unavail", "failed"}

committed(txn, c) == txn[c] \notin {"open", "submitted"}

(* What SyncCpuState returns, and what it does. *)
TxnCompleted(s, txn, c) == s.next[c] = NoTask \/ txn[c] = "complete"

SyncCpuState(s, txn, c) ==
    LET t == s.next[c]
        r == [CHECK(s, s.run_state[t] # "QUEUED" /\ committed(txn, c))
                EXCEPT !.next[c] = NoTask]
    IN  IF t = NoTask THEN s
        ELSE IF txn[c] = "complete"
        THEN [r EXCEPT !.current[c] = t, !.run_state[t] = "ON_CPU",
                       !.prio_boost[t] = FALSE, !.cpu[t] = c]
        ELSE Enqueue([r EXCEPT !.cpu[t] = NoCpu], t)

(* The CHECKs of cpu_state_of: the CPU of t knows of t. *)
cpu_state_of(s, t) ==
    LET c == s.cpu[t]
    IN  c # NoCpu /\ t \in {s.current[c], s.next[c]}

(* The start of the handlers for a task that stops running: it leaves the  *)
(* CPU it was assigned to, whose pending transaction is synced first.      *)
LeaveCpu(s, txn, t) ==
    LET c == s.cpu[t]
        r == CHECK(s, /\ s.next[c] = t
                      /\ s.current[c] = NoTask
                      /\ TxnCompleted(s, txn, c))
    IN  IF ~cpu_state_of(s, t) THEN CHECK(s, FALSE)
        ELSE IF s.run_state[t] = "PENDING"
        THEN [SyncCpuState(r, txn, c) EXCEPT !.current[c] = NoTask]
        ELSE [s EXCEPT !.current[c] = NoTask]

CpuEnteringSwitchto(s, c) == [CHECK(s, ~s.in_switchto[c]) EXCEPT !.in_switchto[c] = TRUE]

CpuLeavingSwitchto(s, c) == [CHECK(s, s.in_switchto[c]) EXCEPT !.in_switchto[c] = FALSE]

(***************************************************************************)
(* The message handlers.  A message has the task, the CPU, from_switchto   *)
(* and, in `flag', runnable for TASK_NEW and deferrable for TASK_WAKEUP.   *)
(***************************************************************************)
Assigned(s, t) == s.run_state[t] \in {"ON_CPU", "PENDING"}

(* The constructor of NetTask leaves high_priority uninitialised:          *)
(* `garbage' is what Enqueue finds there.  `exists' is whether             *)
(* sched_getaffinity still finds the thread.                               *)
TaskNew(s, msg, garbage, exists) ==
    LET t == msg.task
        fresh == [s EXCEPT !.alive = @ \cup {t}, !.high_priority[t] = garbage]
        r == IF msg.flag THEN Enqueue(fresh, t) ELSE fresh
    IN  [CHECK(r, exists /\ allowed_cpulist[t] # {})
            EXCEPT !.high_priority[t] = t \in EngineThread]

TaskRunnable(s, msg) ==
    LET t == msg.task
        r == [CHECK(s, s.run_state[t] = "BLOCKED") EXCEPT !.prio_boost[t] = ~msg.flag]
    IN  Enqueue(r, t)

(* A task without a NetTask object has the fields of a new one. *)
FreeTask(s, t) ==
    [s EXCEPT !.alive = @ \ {t}, !.run_state[t] = "BLOCKED", !.cpu[t] = NoCpu,
              !.prio_boost[t] = FALSE, !.preempted[t] = FALSE,
              !.high_priority[t] = FALSE]

TaskDeparted(s, msg) ==
    FreeTask(IF msg.from_switchto THEN CpuLeavingSwitchto(s, msg.cpu) ELSE s, msg.task)

TaskDead(s, msg) == FreeTask(CHECK(s, s.run_state[msg.task] = "BLOCKED"), msg.task)

(* Mutation of TaskBlocked: a task that the agent preempted just before it *)
(* blocked stays in its run queue.                                         *)
TaskBlockedStaysQueued(s, txn, msg) ==
    LET t == msg.task
        r == [s EXCEPT !.prio_boost[t] = FALSE]
    IN  IF Assigned(r, t) THEN [LeaveCpu(r, txn, t) EXCEPT !.run_state[t] = "BLOCKED"]
        ELSE IF msg.from_switchto
        THEN CpuLeavingSwitchto(CHECK(r, r.run_state[t] = "BLOCKED"), msg.cpu)
        ELSE r

TaskBlocked(s, txn, msg) ==
    LET t == msg.task
        r == [s EXCEPT !.prio_boost[t] = FALSE]
    IN  IF Assigned(r, t) THEN [LeaveCpu(r, txn, t) EXCEPT !.run_state[t] = "BLOCKED"]
        ELSE IF msg.from_switchto
        THEN CpuLeavingSwitchto(CHECK(r, r.run_state[t] = "BLOCKED"), msg.cpu)
        ELSE RemoveFromRunqueue(r, t, "BLOCKED")

TaskPreempted(s, txn, msg) ==
    LET t == msg.task
        r == [s EXCEPT !.preempted[t] = TRUE, !.prio_boost[t] = FALSE]
    IN  IF Assigned(r, t) THEN Enqueue(LeaveCpu(r, txn, t), t)
        ELSE IF msg.from_switchto
        THEN Enqueue(CpuLeavingSwitchto(CHECK(r, r.run_state[t] = "BLOCKED"), msg.cpu), t)
        ELSE CHECK(r, r.run_state[t] = "QUEUED")

TaskYield(s, txn, msg) ==
    LET t == msg.task
        r == [s EXCEPT !.prio_boost[t] = FALSE]
    IN  IF Assigned(r, t) THEN Yield(LeaveCpu(r, txn, t), t)
        ELSE IF msg.from_switchto
        THEN Yield(CpuLeavingSwitchto(CHECK(r, r.run_state[t] = "BLOCKED"), msg.cpu), t)
        ELSE CHECK(r, r.run_state[t] = "QUEUED")

TaskSwitchto(s, txn, msg) ==
    LET t == msg.task
        r == [CpuEnteringSwitchto(s, msg.cpu) EXCEPT !.prio_boost[t] = FALSE]
    IN  IF Assigned(r, t) THEN [LeaveCpu(r, txn, t) EXCEPT !.run_state[t] = "BLOCKED"]
        ELSE RemoveFromRunqueue(r, t, "BLOCKED")

(***************************************************************************)
(* Choosing a CPU and changing who runs there.                             *)
(***************************************************************************)

(* The CPUs to prefer for a task that last ran on CPU p, nearest first.    *)
Nearest(p) ==
    << {p}, siblings[p], l3_siblings[p],
       {c \in CPU : numa_node[c] = numa_node[p]}, CPU >>

(* Mutation of PickNextCpu: the affinity of the task is ignored. *)
PickNextCpuAny(avail_cpus, s, t) ==
    IF avail_cpus = {} THEN NoCpu
    ELSE IF s.cpu[t] \in avail_cpus THEN s.cpu[t] ELSE Min(avail_cpus)

PickNextCpu(avail_cpus, s, t) ==
    LET allowed == IF enforce_affinity_mask_ THEN allowed_cpulist[t] \cap avail_cpus
                                             ELSE avail_cpus
        p == s.cpu[t]
        level == Min({i \in 1 .. 5 : Nearest(p)[i] \cap allowed # {}})
    IN  IF allowed = {} THEN NoCpu
        ELSE IF p = NoCpu THEN Min(allowed)
        ELSE Min(Nearest(p)[level] \cap allowed)

(* Mutation of Assign: preempted is not cleared when it becomes a boost. *)
AssignKeepsPreempted(s, c, t) ==
    [CHECK(s, s.next[c] = NoTask /\ s.current[c] = NoTask)
        EXCEPT !.next[c] = t, !.run_state[t] = "PENDING", !.cpu[t] = c,
               !.prio_boost[t] = @ \/ s.preempted[t]]

(* An idle CPU is assigned in a batched transaction. *)
Assign(s, c, t) ==
    [CHECK(s, s.next[c] = NoTask /\ s.current[c] = NoTask)
        EXCEPT !.next[c] = t, !.run_state[t] = "PENDING", !.cpu[t] = c,
               !.prio_boost[t] = @ \/ s.preempted[t],
               !.preempted[t] = FALSE]

(* PreemptTask; in_sync is what it returns: whether its transaction        *)
(* committed.                                                              *)
PreemptTask(s, prev, next, in_sync) ==
    LET c == s.cpu[prev]
        r == CHECK(s, /\ s.run_state[prev] = "ON_CPU"
                      /\ next \in Task \ {prev} => s.run_state[next] # "ON_CPU")
        t == [r EXCEPT !.current[c] = next]
    IN  IF prev = next \/ ~in_sync THEN r
        ELSE IF next = NoTask THEN t
        ELSE [t EXCEPT !.run_state[next] = "ON_CPU", !.cpu[next] = c]

ReplaceExistingTask(s, c, next, in_sync) ==
    LET prev == s.current[c]
        r == PreemptTask(s, prev, next, in_sync)
        e == Enqueue([r EXCEPT !.preempted[prev] = FALSE, !.prio_boost[prev] = TRUE], prev)
    IN  IF in_sync
        THEN [e EXCEPT !.prio_boost[next] = FALSE, !.preempted[next] = FALSE,
                       !.next[c] = NoTask]
        ELSE Yield([e EXCEPT !.current[c] = NoTask], next)

(* The part of PickNextGlobalCPU that vacates the target CPU. *)
VacateCpu(s, txn, c) ==
    LET r == SyncCpuState(CHECK(s, committed(txn, c)), txn, c)
        prev == r.current[c]
    IN  IF prev = NoTask THEN r
        ELSE [Enqueue([PreemptTask(r, prev, NoTask, TRUE) EXCEPT !.prio_boost[prev] = TRUE], prev)
                EXCEPT !.current[c] = NoTask]

=============================================================================
