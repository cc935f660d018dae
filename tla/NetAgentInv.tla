----------------------------- MODULE NetAgentInv ----------------------------
(***************************************************************************)
(* The inductive invariant of NetAgent. Agent and kernel share no state    *)
(* but the messages and the transactions, so what the scheduler believes   *)
(* of a thread may be old. The invariant says how old: the messages under  *)
(* way about a task form a chain, the first of which fits what the         *)
(* scheduler believes, each of the others fits what the one before it      *)
(* leaves, and the last of which tells the state of the thread.            *)
(***************************************************************************)
EXTENDS NetAgent, NetSchedulerInv

(***************************************************************************)
(* The channel, seen from one task or one CPU: the messages of a class K.  *)
(***************************************************************************)
Hits(ch, K) == {i \in 1 .. Len(ch) : ch[i] \in K}

(* No message of the class is under way.                                   *)
Silent(ch, K) == Hits(ch, K) = {}

(* m is the first, or the last, message of the class.                      *)
IsFirst(ch, K, m) == \E i \in Hits(ch, K) : ch[i] = m /\ \A j \in Hits(ch, K) : i <= j

(* m is the last message of the class.                                     *)
IsLast(ch, K, m) == \E i \in Hits(ch, K) : ch[i] = m /\ \A j \in Hits(ch, K) : j <= i

(* y is the next message of the class after x.                             *)
IsStep(ch, K, x, y) ==
    \E i, j \in Hits(ch, K) : /\ i < j /\ ch[i] = x /\ ch[j] = y
                              /\ \A h \in Hits(ch, K) : h <= i \/ j <= h

(***************************************************************************)
(* The inductive invariant: how the scheduler, the messages under way and  *)
(* the threads agree.                                                      *)
(***************************************************************************)
Of(t) == {m \in Message : m.task = t}

(* The messages that change in_switchto of CPU c.                          *)
Sw(c) == {m \in Message : m.cpu = c /\ (m.type = "SWITCHTO" \/ m.from_switchto)}

(* The messages the kernel sends: a switchto has its CPU.                  *)
KernelMsg ==
    {m \in Message :
        /\ m.from_switchto => /\ m.cpu \in CPU
                              /\ m.type \in {"BLOCKED", "PREEMPT", "YIELD", "DEPARTED"}
        /\ m.type = "SWITCHTO" => m.cpu \in CPU}

(* The messages about a task that is BLOCKED for the scheduler, the ones   *)
(* about a task that is not, and the ones that make it BLOCKED.            *)
FromB(m) == m.type \in {"WAKEUP", "DEAD", "DEPARTED"} \/ m.from_switchto

(* The messages about a task that is not BLOCKED.                          *)
FromX(m) == m.type \in {"BLOCKED", "PREEMPT", "YIELD", "SWITCHTO"} /\ ~m.from_switchto

(* The messages that leave a task BLOCKED.                                 *)
ToB(m) == m.type \in {"BLOCKED", "SWITCHTO"} \/ (m.type = "NEW" /\ ~m.flag)

(* The message about a new task that can run at once.                      *)
NewRunnable(m) == m.type = "NEW" /\ m.flag

(* The thread t runs on CPU c in its own right; it runs because another    *)
(* thread switched to it; it is one that the scheduler takes for BLOCKED.  *)
Own(k, c, t) == k.running[c] = t /\ ~k.chain[c]

(* The thread t runs because another thread switched to it.                *)
OnChain(k, t) == \E c \in CPU : k.running[c] = t /\ k.chain[c]

(* The thread t is one that the scheduler takes for BLOCKED.               *)
Waits(k, t) == k.thread[t] = "blocked" \/ OnChain(k, t)

(* The first message about t can be handled.                               *)
Fits(s, k, t, m) ==
    /\ t \notin s.alive => m.type = "NEW" /\ k.thread[t] # "absent"
    /\ t \in s.alive /\ s.run_state[t] = "BLOCKED" => FromB(m)
    /\ t \in s.alive /\ s.run_state[t] # "BLOCKED" =>
          FromX(m) /\ (s.run_state[t] = "PENDING" => k.txn[s.cpu[t]] = "complete")

(* The message y can be handled right after x.                             *)
Follows(x, y) == (ToB(x) /\ FromB(y)) \/ (NewRunnable(x) /\ FromX(y))

(* The last message about t tells the state of the thread.                 *)
Settled(k, t, m) ==
    /\ ToB(m) => Waits(k, t)
    /\ NewRunnable(m) => k.thread[t] \in {"runnable", "arriving"}
    /\ m.type \in {"WAKEUP", "PREEMPT", "YIELD"} => k.thread[t] = "runnable"
    /\ m.type \in {"DEAD", "DEPARTED"} => k.thread[t] = "absent"

(* When no message about t is under way, the scheduler knows its state.    *)
Quiet(s, k, t) ==
    /\ t \notin s.alive => k.thread[t] = "absent"
    /\ t \in s.alive /\ s.run_state[t] = "BLOCKED" => Waits(k, t)
    /\ t \in s.alive /\ s.run_state[t] \in {"QUEUED", "YIELDING"} =>
          \/ k.thread[t] \in {"runnable", "leaving", "arriving"}
          \/ k.thread[t] = "running" /\ ~OnChain(k, t)
    /\ t \in s.alive /\ s.run_state[t] = "ON_CPU" => Own(k, s.cpu[t], t)
    /\ t \in s.alive /\ s.run_state[t] = "PENDING" =>
          IF k.txn[s.cpu[t]] = "complete" THEN Own(k, s.cpu[t], t)
                                          ELSE k.thread[t] = "runnable"

(* The thread t can run and no message about it is under way.              *)
Settling(k, t) == Silent(k.channel, Of(t)) /\ k.thread[t] = "runnable"

(* The messages about t lead from what the scheduler believes of t to the  *)
(* state of its thread.                                                    *)
TaskLink(s, k, t) ==
    /\ \A m \in Message : IsFirst(k.channel, Of(t), m) => Fits(s, k, t, m)
    /\ \A x, y \in Message : IsStep(k.channel, Of(t), x, y) => Follows(x, y)
    /\ \A m \in Message : IsLast(k.channel, Of(t), m) => Settled(k, t, m)
    /\ Silent(k.channel, Of(t)) => Quiet(s, k, t)
    /\ s.preempted[t] => Settling(k, t)

(* SWITCHTO and the messages that end a chain alternate, and in_switchto   *)
(* follows them.                                                           *)
CpuLink(s, k, c) ==
    /\ \A m \in Message : IsFirst(k.channel, Sw(c), m) =>
          (m.type = "SWITCHTO" <=> ~Chained(s, c))
    /\ \A x, y \in Message : IsStep(k.channel, Sw(c), x, y) =>
          (x.type = "SWITCHTO" <=> y.type # "SWITCHTO")
    /\ \A m \in Message : IsLast(k.channel, Sw(c), m) =>
          (m.type = "SWITCHTO" <=> k.chain[c])
    /\ Silent(k.channel, Sw(c)) => (Chained(s, c) <=> k.chain[c])

(* A thread runs on one CPU, and within its affinity.                      *)
KernelInv(k) ==
    /\ k \in Kernel
    /\ k.channel \in Seq(KernelMsg)
    /\ \A c \in CPU : k.running[c] # NoTask => k.thread[k.running[c]] = "running"
    /\ \A c, d \in CPU : k.running[c] = k.running[d] /\ k.running[c] # NoTask => c = d
    /\ \A c \in CPU : k.chain[c] => k.running[c] # NoTask
    /\ enforce_affinity_mask_ =>
          \A c \in CPU : k.running[c] # NoTask /\ ~k.chain[c] =>
                            c \in allowed_cpulist[k.running[c]]

(* The scheduler, the channel and the threads agree, and no CHECK has      *)
(* failed.                                                                 *)
Linked(s, k) ==
    /\ Placed(s) /\ s.ok
    /\ KernelInv(k)
    /\ \A t \in Task : TaskLink(s, k, t)
    /\ \A c \in CPU : CpuLink(s, k, c)

(* Which transactions are under way: those of the tasks that are PENDING,  *)
(* within their affinity.                                                  *)
TxnLink(s, k) ==
    /\ \A c \in CPU : k.txn[c] \in {"open", "submitted"} =>
          s.next[c] # NoTask /\ k.target[c] = s.next[c]
    /\ enforce_affinity_mask_ =>
          \A c \in CPU : s.next[c] # NoTask => c \in allowed_cpulist[s.next[c]]

(* Where the agent is, what it holds, and what it knows there: the CPUs it *)
(* may use are as it found them, no task is YIELDING between two rounds,   *)
(* those that yield while it drains the channel have no message under way, *)
(* and its own CPU is empty.                                               *)
AgentLink(s, k, a) ==
    /\ a \in Agent
    /\ a.assigned_cpus = {c \in CPU : k.txn[c] = "open"}
    /\ a.pc # "place" => a.assigned_cpus = {}
    /\ a.pc \notin {"scan", "place"} => a.avail_cpus = {} /\ a.avail_cpus_low_priority = {}
    /\ \A c \in a.avail_cpus :
          c # a.global_cpuid_ /\ s.current[c] = NoTask /\ s.next[c] = NoTask
    /\ \A c \in a.avail_cpus_low_priority : c # a.global_cpuid_ /\ s.current[c] # NoTask
    /\ a.pc = "top" => Yielding(s) = {}
    /\ a.pc = "drain" => \A t \in Yielding(s) : Settling(k, t)
    /\ s.current[a.global_cpuid_] = NoTask /\ s.next[a.global_cpuid_] = NoTask
    /\ k.running[a.global_cpuid_] = NoTask

(* The inductive invariant.                                                *)
Invariant(s, k, a) == Linked(s, k) /\ TxnLink(s, k) /\ AgentLink(s, k, a)

(* The message m can be handled in the state s of the scheduler.           *)
CanHandle(s, k, m) ==
    /\ Placed(s) /\ s.ok
    /\ m \in KernelMsg /\ m.task \in Task
    /\ Fits(s, k, m.task, m)
    /\ ~s.preempted[m.task] /\ m.task \notin Yielding(s)
    /\ m.type = "SWITCHTO" => ~Chained(s, m.cpu)
    /\ m.from_switchto => Chained(s, m.cpu)

(* What the scheduler knows of the task t when its message m is handled.   *)
After(s, r, t, m) ==
    /\ Placed(r) /\ r.ok /\ Touches(s, r, {t})
    /\ r.preempted[t] => m.type = "PREEMPT"
    /\ t \notin r.alive <=> m.type \in {"DEAD", "DEPARTED"}
    /\ ToB(m) => r.run_state[t] = "BLOCKED"
    /\ NewRunnable(m) => r.run_state[t] = "QUEUED"
    /\ m.type \in {"WAKEUP", "PREEMPT", "YIELD"} => r.run_state[t] \in {"QUEUED", "YIELDING"}
    /\ Yielding(r) \subseteq Yielding(s) \cup {t}
    /\ m.type # "YIELD" => Yielding(r) = Yielding(s)
    /\ m.type = "SWITCHTO" => Enters(s, r, m.cpu)
    /\ m.from_switchto => Leaves(s, r, m.cpu)
    /\ m.type # "SWITCHTO" /\ ~m.from_switchto => r.in_switchto = s.in_switchto

(* The task t is in hand and prev runs on CPU c, which the agent may take. *)
Challenges(d, t, c, prev) ==
    /\ Linked(sched, kern) /\ Placed(sched) /\ sched.ok /\ kern \in Kernel
    /\ InHand(sched, d, t) /\ t \in Task /\ t \in sched.alive
    /\ sched.run_state[t] = "QUEUED"
    /\ c \in CPU /\ prev \in Task /\ sched.current[c] = prev /\ sched.next[c] = NoTask
    /\ sched.run_state[prev] = "ON_CPU" /\ prev \in sched.alive

=============================================================================
