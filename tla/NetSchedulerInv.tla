-------------------------- MODULE NetSchedulerInv ---------------------------
(***************************************************************************)
(* The part of the inductive invariant of NetAgent that is about the       *)
(* scheduler alone: every task is where its run_state says and nowhere     *)
(* else, and the flags prio_boost and preempted fit that place.  With it   *)
(* the vocabulary of the lemmas about the scheduler's operations: what a   *)
(* call may touch, and what the rest of the system sees of a task.         *)
(***************************************************************************)
EXTENDS NetScheduler

(* The tasks in the run queues, and those that yield.                      *)
Queued(s) == Range(s.run_queue_) \cup Range(s.run_queue_low_priority_)
Yielding(s) == Range(s.yielding_tasks_)

(* No task is twice in the run queues or twice among the yielding ones.    *)
QueuesOK(s) ==
    /\ IsInjective(s.run_queue_)
    /\ IsInjective(s.run_queue_low_priority_)
    /\ Range(s.run_queue_) \cap Range(s.run_queue_low_priority_) = {}
    /\ IsInjective(s.yielding_tasks_)

(* No CPU has both a current and a next task.                              *)
Exclusive(s) == \A c \in CPU : s.current[c] = NoTask \/ s.next[c] = NoTask

(* The scheduler is well formed.                                           *)
Sane(s) == s \in Scheduler /\ QueuesOK(s) /\ Exclusive(s)

(* The task t is where its run_state says.                                 *)
Where(s, t) ==
    /\ t \in Queued(s) <=> s.run_state[t] = "QUEUED"
    /\ t \in Yielding(s) <=> s.run_state[t] = "YIELDING"
    /\ \A c \in CPU : s.current[c] = t <=> s.run_state[t] = "ON_CPU" /\ s.cpu[t] = c
    /\ \A c \in CPU : s.next[c] = t <=> s.run_state[t] = "PENDING" /\ s.cpu[t] = c
    /\ s.run_state[t] \in {"ON_CPU", "PENDING"} => s.cpu[t] \in CPU
    /\ t \notin s.alive => s.run_state[t] = "BLOCKED"

(* A preempted task is not boosted, and it is off its CPU.                 *)
Flags(s, t) ==
    s.preempted[t] => ~s.prio_boost[t] /\ s.run_state[t] \in {"QUEUED", "YIELDING"}

(* What holds of the scheduler between two steps of the agent.             *)
Placed(s) == Sane(s) /\ \A t \in Task : Where(s, t) /\ Flags(s, t)

(* The task t, which a handler has in hand, is in no place.                *)
Nowhere(s, t) ==
    /\ t \in s.alive
    /\ t \notin Queued(s)
    /\ t \notin Yielding(s)
    /\ \A c \in CPU : s.current[c] # t /\ s.next[c] # t

(* Nothing that Where says of u has changed from s to r.                   *)
SameWhere(s, r, u) ==
    /\ u \in Queued(r) <=> u \in Queued(s)
    /\ u \in Yielding(r) <=> u \in Yielding(s)
    /\ \A c \in CPU : r.current[c] = u <=> s.current[c] = u
    /\ \A c \in CPU : r.next[c] = u <=> s.next[c] = u
    /\ u \in r.alive <=> u \in s.alive
    /\ r.run_state[u] = s.run_state[u]
    /\ r.cpu[u] = s.cpu[u]

(* Nothing that Flags says of u has changed from s to r.                   *)
SameFlags(s, r, u) ==
    r.prio_boost[u] = s.prio_boost[u] /\ r.preempted[u] = s.preempted[u]

(* No task outside of T has changed from s to r.                           *)
Touches(s, r, T) == \A u \in Task \ T : SameWhere(s, r, u) /\ SameFlags(s, r, u)

(* What the messages and the threads are compared with: t looks the same   *)
(* in s and in r.                                                          *)
SameView(s, r, t) ==
    /\ t \in r.alive <=> t \in s.alive
    /\ r.run_state[t] = s.run_state[t] /\ r.preempted[t] = s.preempted[t]
    /\ s.run_state[t] \in {"ON_CPU", "PENDING"} => r.cpu[t] = s.cpu[t]

(* The values of the flags, and of in_switchto.                            *)
Boost(s, t, b) == s.prio_boost[t] = b
Preempted(s, t, p) == s.preempted[t] = p
Unboosted(s, t) == ~s.prio_boost[t]
Chained(s, c) == s.in_switchto[c]

(* in_switchto of CPU c, and of no other CPU, becomes v.                   *)
Switches(s, r, c, v) ==
    /\ r.in_switchto[c] = v
    /\ \A d \in CPU \ {c} : r.in_switchto[d] = s.in_switchto[d]

(* CPU c enters a switchto chain.                                          *)
Enters(s, r, c) == Switches(s, r, c, TRUE)

(* CPU c leaves its switchto chain.                                        *)
Leaves(s, r, c) == Switches(s, r, c, FALSE)

(* The scheduler d has just taken the task t from a run queue of s.        *)
InHand(s, d, t) ==
    /\ t \in Task /\ s.run_state[t] = "QUEUED" /\ t \in s.alive
    /\ Sane(d) /\ Nowhere(d, t) /\ Touches(s, d, {t})
    /\ d.run_state = s.run_state /\ d.cpu = s.cpu
    /\ d.ok = s.ok /\ d.in_switchto = s.in_switchto
    /\ d.preempted = s.preempted /\ d.prio_boost = s.prio_boost
    /\ d.alive = s.alive /\ d.current = s.current /\ d.next = s.next

(* What both outcomes of ReplaceExistingTask have in common.               *)
Displaced(s, r, c, prev, t) ==
    /\ Placed(r) /\ r.ok = s.ok /\ r.in_switchto = s.in_switchto /\ r.alive = s.alive
    /\ r.next = s.next /\ \A d \in CPU \ {c} : r.current[d] = s.current[d]
    /\ r.run_state[prev] = "QUEUED" /\ ~r.preempted[prev]
    /\ \A u \in Task \ {prev, t} : SameView(s, r, u)

(* The task t takes the place of prev.                                     *)
TakesOver(s, r, c, prev, t) ==
    /\ Displaced(s, r, c, prev, t)
    /\ r.run_state[t] = "ON_CPU" /\ r.cpu[t] = c /\ ~r.preempted[t]
    /\ r.current[c] = t

(* The replacement fails to place t, which yields; prev has lost its CPU.  *)
StaysOff(s, r, c, prev, t) ==
    /\ Displaced(s, r, c, prev, t)
    /\ r.run_state[t] = "YIELDING" /\ r.preempted[t] = s.preempted[t]
    /\ r.current[c] = NoTask

=============================================================================
