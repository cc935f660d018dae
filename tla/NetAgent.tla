------------------------------ MODULE NetAgent ------------------------------
(***************************************************************************)
(* The global agent (NetAgent::AgentThread, GlobalSchedule and             *)
(* PickNextGlobalCPU) together with the kernel it schedules for.           *)
(*                                                                         *)
(* The agent takes one message, scans one CPU, or places one task per      *)
(* step; the kernel, the threads and other scheduling classes act between  *)
(* any two of these steps.  PickNextGlobalCPU is one step.                 *)
(***************************************************************************)
EXTENDS GhostKernel

CONSTANTS
    HomeCpu,        \* global_home_cpu_
    Memcached       \* the tasks whose name contains "memcached"

ASSUME AgentAssumption ==
    /\ HomeCpu \in CPU
    /\ Memcached \subseteq Task

VARIABLES
    sched,          \* the scheduler
    kern,           \* the kernel
    agent           \* where the global agent is

vars == <<sched, kern, agent>>

(* scan is the next CPU of the first loop of GlobalSchedule; the sets are  *)
(* its local CpuLists.                                                     *)
Agent ==
    [pc : {"top", "drain", "scan", "place"},
     global_cpuid_ : CPU,
     scan : CPU,
     avail_cpus : SUBSET CPU,
     avail_cpus_low_priority : SUBSET CPU,
     assigned_cpus : SUBSET CPU]

Init ==
    /\ sched = InitScheduler
    /\ kern = InitKernel
    /\ agent = [pc |-> "top", global_cpuid_ |-> HomeCpu, scan |-> 0, avail_cpus |-> {},
                avail_cpus_low_priority |-> {}, assigned_cpus |-> {}]

(* No step follows a failed CHECK. *)
At(pc) == agent.pc = pc /\ sched.ok

GetTaskName(t) == IF kern.thread[t] = "absent" THEN "" ELSE
                  IF t \in Memcached THEN "memcached" ELSE "other"

(***************************************************************************)
(* The agent.                                                              *)
(***************************************************************************)

(* The CPU PickNextGlobalCPU chooses. *)
GlobalTarget ==
    LET Free(c) == Available(kern, c) /\ committed(kern.txn, c) /\ c # agent.global_cpuid_
        others == {c \in CPU : /\ ~sched.in_switchto[c]
                               /\ numa_node[c] = numa_node[HomeCpu]
                               /\ Free(c)}
    IN  IF Free(HomeCpu) THEN HomeCpu
        ELSE IF others = {} THEN NoCpu ELSE Min(others)

(* The other scheduling class gets the CPU that the agent leaves; Ping     *)
(* wakes the agent of the target CPU, which preempts what runs there.      *)
PickNextGlobalCPU ==
    LET c == GlobalTarget
        synced == SyncCpuState(sched, kern.txn, c)
        k == IF synced.current[c] = NoTask THEN kern
             ELSE [Evict(kern, c) EXCEPT !.txn[c] = "complete"]
    IN  /\ At("top")
        /\ kern.boosted
        /\ c # NoCpu
        /\ sched' = VacateCpu(sched, kern.txn, c)
        /\ kern' = [Preempt(k, c) EXCEPT !.cfs[agent.global_cpuid_] = TRUE,
                                         !.boosted = FALSE]
        /\ agent' = [agent EXCEPT !.global_cpuid_ = c]

StartRound ==
    /\ At("top")
    /\ ~kern.boosted
    /\ agent' = [agent EXCEPT !.pc = "drain"]
    /\ UNCHANGED <<sched, kern>>

Dispatch(m, garbage) ==
    CASE m.type = "NEW"      -> TaskNew(sched, m, garbage, kern.thread[m.task] # "absent")
      [] m.type = "WAKEUP"   -> TaskRunnable(sched, m)
      [] m.type = "BLOCKED"  -> TaskBlocked(sched, kern.txn, m)
      [] m.type = "PREEMPT"  -> TaskPreempted(sched, kern.txn, m)
      [] m.type = "YIELD"    -> TaskYield(sched, kern.txn, m)
      [] m.type = "SWITCHTO" -> TaskSwitchto(sched, kern.txn, m)
      [] m.type = "DEAD"     -> TaskDead(sched, m)
      [] m.type = "DEPARTED" -> TaskDeparted(sched, m)

DispatchMessage ==
    /\ At("drain")
    /\ kern.channel # << >>
    /\ \E garbage \in BOOLEAN : sched' = Dispatch(Head(kern.channel), garbage)
    /\ kern' = [kern EXCEPT !.channel = Tail(@)]
    /\ UNCHANGED agent

Drained ==
    /\ At("drain")
    /\ kern.channel = << >>
    /\ agent' = [agent EXCEPT !.pc = "scan"]
    /\ UNCHANGED <<sched, kern>>

(* Mutation of LastCpu: the scan goes one CPU too far. *)
LastCpuLate(c) == c = NumCpus

LastCpu(c) == c + 1 = NumCpus

(* Mutations of ScanSyncs: the agent's own CPU is not skipped; a CPU taken *)
(* by another scheduling class is skipped together with its transaction.   *)
ScanSyncsOwn(c) ==
    /\ committed(kern.txn, c)
    /\ Available(kern, c) => sched.current[c] = NoTask

ScanSyncsAvailable(c) ==
    /\ committed(kern.txn, c)
    /\ Available(kern, c) /\ c # agent.global_cpuid_ /\ sched.current[c] = NoTask

(* The body of the first loop of GlobalSchedule for a CPU: whether it      *)
(* syncs the CPU, and whether the CPU may then be used.                    *)
ScanSyncs(c) ==
    /\ committed(kern.txn, c)
    /\ Available(kern, c) => c # agent.global_cpuid_ /\ sched.current[c] = NoTask

ScanCpu ==
    LET c == agent.scan
        s == IF ScanSyncs(c) THEN SyncCpuState(sched, kern.txn, c) ELSE sched
        usable == ScanSyncs(c) /\ Available(kern, c)
        idle == s.current[c] = NoTask /\ ~s.in_switchto[c]
        busy == s.current[c] # NoTask
    IN  /\ At("scan")
        /\ sched' = s
        /\ \E lucky \in BOOLEAN :
              LET memcached == busy /\ GetTaskName(s.current[c]) = "memcached"
                  low == busy /\ (memcached => lucky)
              IN  agent' = [agent EXCEPT
                    !.pc = IF LastCpu(c) THEN "place" ELSE "scan",
                    !.scan = IF LastCpu(c) THEN 0 ELSE c + 1,
                    !.avail_cpus = IF usable /\ idle THEN @ \cup {c} ELSE @,
                    !.avail_cpus_low_priority = IF usable /\ low THEN @ \cup {c} ELSE @]
        /\ UNCHANGED kern

(* One iteration of the second loop of GlobalSchedule: the next task is    *)
(* punted, gets an idle CPU, replaces another task, or finds no CPU.       *)
MorePlaces ==
    /\ agent.avail_cpus \cup agent.avail_cpus_low_priority # {}
    /\ ~QueuesEmpty(sched)

(* Mutation of Ineligible: the barrier of the status word is not compared. *)
IneligibleOnCpu(t) == on_cpu(kern, t)

Ineligible(t) == on_cpu(kern, t) \/ Unseen(kern, t)

PlaceTask ==
    LET t == Dequeued(sched)
        s == CHECK(Dequeue(sched), sched.run_state[t] # "PENDING")
        idle == PickNextCpu(agent.avail_cpus, s, t)
        low == PickNextCpu(agent.avail_cpus_low_priority, s, t)
    IN  /\ At("place")
        /\ MorePlaces
        /\ \/ /\ Ineligible(t) \/ (idle = NoCpu /\ low = NoCpu)
              /\ sched' = Yield(s, t)
              /\ UNCHANGED <<kern, agent>>
           \/ /\ ~Ineligible(t)
              /\ idle # NoCpu
              /\ sched' = Assign(s, idle, t)
              /\ kern' = [kern EXCEPT !.txn[idle] = "open", !.target[idle] = t]
              /\ agent' = [agent EXCEPT !.avail_cpus = @ \ {idle},
                                        !.assigned_cpus = @ \cup {idle}]
           \/ /\ ~Ineligible(t)
              /\ idle = NoCpu
              /\ low # NoCpu
              /\ \E in_sync \in BOOLEAN :
                    /\ Transact(kern, low, t, in_sync)
                    /\ kern' = Outcome(kern, low, t, in_sync)
                    /\ sched' = ReplaceExistingTask(s, low, t, in_sync)
              /\ agent' = [agent EXCEPT !.avail_cpus_low_priority = @ \ {low}]

(* SubmitRunRequests, and the end of GlobalSchedule. *)
FinishRound ==
    /\ At("place")
    /\ ~MorePlaces
    /\ kern' = [kern EXCEPT !.txn = [c \in CPU |-> IF c \in agent.assigned_cpus
                                                   THEN "submitted" ELSE @[c]]]
    /\ sched' = UnyieldAll(sched)
    /\ agent' = [agent EXCEPT !.pc = "top", !.avail_cpus = {},
                              !.avail_cpus_low_priority = {}, !.assigned_cpus = {}]

AgentStep == \/ PickNextGlobalCPU \/ StartRound \/ DispatchMessage \/ Drained
             \/ ScanCpu \/ PlaceTask \/ FinishRound

(***************************************************************************)
(* The threads and the kernel (external).  An event that sends a message   *)
(* waits until the channel has room, except the one that takes an arriving *)
(* thread off its CPU.                                                     *)
(***************************************************************************)
May(e) == e \in KernelEvents

Room == Len(kern.channel) < MaxMsgs

KernelDoes(k) == kern' = k /\ UNCHANGED <<sched, agent>>

(* A thread joins the enclave: blocked, runnable or while it runs.  Its    *)
(* gtid is new.                                                            *)
ThreadNew(t, state) ==
    /\ Room
    /\ state = "arriving" => May("arrive")
    /\ kern.thread[t] = "absent" /\ ~Unseen(kern, t) /\ t \notin sched.alive
    /\ KernelDoes(Send([kern EXCEPT !.thread[t] = state],
                       Msg("NEW", t, NoCpu, FALSE, state # "blocked")))

ThreadWakes(t, deferrable) ==
    /\ Room
    /\ ~deferrable => May("wake")
    /\ kern.thread[t] = "blocked"
    /\ KernelDoes(Send([kern EXCEPT !.thread[t] = "runnable"],
                       Msg("WAKEUP", t, NoCpu, FALSE, deferrable)))

(* The thread on CPU c blocks or yields. *)
ThreadStops(c, type, state) ==
    LET t == kern.running[c]
    IN  /\ Room
        /\ t # NoTask
        /\ KernelDoes(Send([kern EXCEPT !.running[c] = NoTask, !.chain[c] = FALSE,
                                        !.thread[t] = state],
                           Msg(type, t, c, kern.chain[c], FALSE)))

ThreadBlocks(c) == ThreadStops(c, "BLOCKED", "blocked")

ThreadYields(c) == May("yield") /\ ThreadStops(c, "YIELD", "runnable")

(* The thread on CPU c hands its CPU to the blocked thread u. *)
ThreadSwitchesTo(c, u) ==
    LET t == kern.running[c]
        k == [kern EXCEPT !.running[c] = u, !.chain[c] = TRUE,
                          !.thread[t] = "blocked", !.thread[u] = "running"]
    IN  /\ May("switchto")
        /\ Room
        /\ t # NoTask
        /\ kern.thread[u] = "blocked"
        /\ KernelDoes(IF kern.chain[c] THEN k
                      ELSE Send(k, Msg("SWITCHTO", t, c, FALSE, FALSE)))

(* A thread the agent has preempted leaves its CPU, or blocks just before. *)
ThreadLeaves(t) ==
    /\ kern.thread[t] = "leaving"
    /\ \/ KernelDoes([kern EXCEPT !.thread[t] = "runnable"])
       \/ /\ Room
          /\ KernelDoes(Send([kern EXCEPT !.thread[t] = "blocked"],
                             Msg("BLOCKED", t, NoCpu, FALSE, FALSE)))

(* A thread that joined while it ran is taken off its CPU, or it blocks or *)
(* exits just before.                                                      *)
ArrivalEnds == {"runnable", "blocked"} \cup IF May("die_early") THEN {"absent"} ELSE {}

ArrivalMsgs(t, state) ==
    [runnable |-> << Msg("PREEMPT", t, NoCpu, FALSE, FALSE) >>,
     blocked  |-> << Msg("BLOCKED", t, NoCpu, FALSE, FALSE) >>,
     absent   |-> << Msg("BLOCKED", t, NoCpu, FALSE, FALSE),
                     Msg("DEAD", t, NoCpu, FALSE, FALSE) >>][state]

ThreadArrives(t) ==
    /\ kern.thread[t] = "arriving"
    /\ \E state \in ArrivalEnds :
          KernelDoes([kern EXCEPT !.thread[t] = state,
                                  !.channel = @ \o ArrivalMsgs(t, state)])

(* A thread exits, after it has blocked for the last time. *)
ThreadDies(t) ==
    /\ Room
    /\ kern.thread[t] = "blocked"
    /\ May("die") /\ t \in sched.alive
    /\ KernelDoes(Send([kern EXCEPT !.thread[t] = "absent"],
                       Msg("DEAD", t, NoCpu, FALSE, FALSE)))

(* A thread is moved to another scheduling class, while it waits or at the *)
(* end of a switchto chain.                                                *)
DepartStates == (IF May("depart") THEN {"blocked"} ELSE {})
                  \cup (IF May("depart_queued") THEN {"runnable"} ELSE {})

ThreadDeparts(t) ==
    /\ Room
    /\ t \in sched.alive
    /\ kern.thread[t] \in DepartStates
    /\ KernelDoes(Send([kern EXCEPT !.thread[t] = "absent"],
                       Msg("DEPARTED", t, NoCpu, FALSE, FALSE)))

ChainDeparts(c) ==
    LET t == kern.running[c]
    IN  /\ May("depart")
        /\ Room
        /\ kern.chain[c]
        /\ t \in sched.alive
        /\ KernelDoes(Send([kern EXCEPT !.running[c] = NoTask, !.chain[c] = FALSE,
                                        !.thread[t] = "absent"],
                           Msg("DEPARTED", t, c, TRUE, FALSE)))

(* Another scheduling class takes CPU c, or asks for the agent's CPU. *)
CfsTakes(c) ==
    /\ May("cfs")
    /\ Room
    /\ IF c = agent.global_cpuid_
       THEN ~kern.boosted /\ KernelDoes([kern EXCEPT !.boosted = TRUE])
       ELSE ~kern.cfs[c] /\ KernelDoes(Preempt([kern EXCEPT !.cfs[c] = TRUE], c))

CfsReleases(c) ==
    IF c = agent.global_cpuid_
    THEN kern.boosted /\ KernelDoes([kern EXCEPT !.boosted = FALSE])
    ELSE kern.cfs[c] /\ KernelDoes([kern EXCEPT !.cfs[c] = FALSE])

(* The kernel executes the transaction of CPU c. *)
Commit(c) ==
    /\ kern.txn[c] = "submitted"
    /\ kern.chain[c] => Room
    /\ \E commits \in BOOLEAN :
          /\ Transact(kern, c, kern.target[c], commits)
          /\ KernelDoes(Outcome(kern, c, kern.target[c], commits))

Next ==
    \/ AgentStep
    \/ \E t \in Task, state \in {"blocked", "runnable", "arriving"} : ThreadNew(t, state)
    \/ \E t \in Task, deferrable \in BOOLEAN : ThreadWakes(t, deferrable)
    \/ \E c \in CPU : ThreadBlocks(c) \/ ThreadYields(c)
    \/ \E c \in CPU, u \in Task : ThreadSwitchesTo(c, u)
    \/ \E t \in Task : ThreadLeaves(t) \/ ThreadArrives(t) \/ ThreadDies(t) \/ ThreadDeparts(t)
    \/ \E c \in CPU : ChainDeparts(c) \/ CfsTakes(c) \/ CfsReleases(c) \/ Commit(c)

Spec == Init /\ [][Next]_vars

(* The agent spins on its CPU; the kernel executes every transaction it is *)
(* given and takes threads off a CPU they have lost.  Nothing is assumed   *)
(* about the threads themselves or about other scheduling classes.         *)
FairSpec ==
    /\ Spec
    /\ WF_vars(AgentStep)
    /\ \A c \in CPU : WF_vars(Commit(c))
    /\ \A t \in Task : WF_vars(ThreadLeaves(t)) /\ WF_vars(ThreadArrives(t))

(***************************************************************************)
(* Properties.                                                             *)
(***************************************************************************)
(* TypeOK: scheduler, kernel and agent keep the types of their fields; the *)
(* scan of GlobalSchedule never leaves the CPUs of the enclave.            *)
TypeOK ==
    /\ sched \in Scheduler
    /\ kern \in Kernel
    /\ agent \in Agent

(* No CHECK of the scheduler ever fails, in whatever order messages,       *)
(* transactions and preemptions interleave.                                *)
NoCheckFails == sched.ok

Occurrences(seq, t) == Cardinality({i \in 1 .. Len(seq) : seq[i] = t})

(* Every task is where its run_state says and nowhere else: QUEUED tasks   *)
(* are once in one run queue, YIELDING ones once among yielding_tasks_,    *)
(* ON_CPU and PENDING ones are current or next of their own cpu, and the   *)
(* others are in no place at all.  A task that is twice in a queue would   *)
(* be dispatched twice, one that is missing would never run again.         *)
PlacedOnce ==
    sched.ok => \A t \in Task :
        LET st == IF t \in sched.alive THEN sched.run_state[t] ELSE "BLOCKED"
            queued == Occurrences(sched.run_queue_ \o sched.run_queue_low_priority_, t)
            current == {c \in CPU : sched.current[c] = t}
            next == {c \in CPU : sched.next[c] = t}
        IN  /\ queued = IF st = "QUEUED" THEN 1 ELSE 0
            /\ Occurrences(sched.yielding_tasks_, t) = IF st = "YIELDING" THEN 1 ELSE 0
            /\ current = IF st = "ON_CPU" THEN {sched.cpu[t]} ELSE {}
            /\ next = IF st = "PENDING" THEN {sched.cpu[t]} ELSE {}

(* The global agent's own CPU is never given to a task, and a CPU never    *)
(* has both a current task and a pending one.                              *)
CpuExclusive ==
    sched.ok => \A c \in CPU :
        /\ sched.current[c] = NoTask \/ sched.next[c] = NoTask
        /\ c = agent.global_cpuid_ => /\ sched.current[c] = NoTask
                                      /\ sched.next[c] = NoTask
                                      /\ kern.running[c] = NoTask

(* The agent never loses a thread: once every message about it has been    *)
(* handled, a thread the kernel could run is queued, yielding or pending,  *)
(* a blocked thread is BLOCKED, and a running one is not BLOCKED unless it *)
(* was reached by switchto.                                                *)
NoThreadLost ==
    sched.ok => \A t \in Task : (~Unseen(kern, t) /\ kern.thread[t] # "absent") =>
        LET st == sched.run_state[t]
            chained == \E c \in CPU : kern.running[c] = t /\ kern.chain[c]
        IN  /\ t \in sched.alive
            /\ kern.thread[t] = "runnable" => st \in {"QUEUED", "YIELDING", "PENDING"}
            /\ kern.thread[t] = "blocked" => st = "BLOCKED"
            /\ kern.thread[t] = "running" => (st = "BLOCKED" <=> chained)

(* ReplaceExistingTask's comment on prio_boost and preempted: "only one of *)
(* them should be true".                                                   *)
BoostOrPreempted ==
    sched.ok => \A t \in sched.alive : ~(sched.prio_boost[t] /\ sched.preempted[t])

(* With enforce_affinity_mask_ a thread only runs on the CPUs of its       *)
(* affinity mask, unless another thread switched to it.                    *)
AffinityHonoured ==
    enforce_affinity_mask_ =>
        \A c \in CPU : LET t == kern.running[c]
                       IN  t # NoTask /\ ~kern.chain[c] => c \in allowed_cpulist[t]

(* A PENDING task does not stay PENDING: SyncCpuState reaps its transaction *)
(* even if another scheduling class has taken the CPU, unless the agent    *)
(* itself is asked to leave its CPU.                                       *)
PendingResolves ==
    \A t \in Task : sched.run_state[t] = "PENDING" ~>
                        (sched.run_state[t] # "PENDING" \/ kern.boosted)

(* With a CPU for every thread, a runnable thread gets to run, however the *)
(* other threads block, yield, wake up and switch to each other meanwhile. *)
RunnableRuns ==
    \A t \in Task : kern.thread[t] = "runnable" ~> kern.thread[t] # "runnable"

(***************************************************************************)
(* What the repository says of the scheduler and the code does not do.     *)
(***************************************************************************)

(* "we forcibly drain threads into CFS" and CHECK_EQ(run_queue_.size(), 0) *)
(* (net_scheduler.cc:142-145): when every thread has departed and all      *)
(* messages are handled, the run queues are empty.                         *)
DrainedQueuesEmpty ==
    (kern.channel = << >> /\ \A t \in Task : kern.thread[t] = "absent") => QueuesEmpty(sched)

=============================================================================
