---------------------------- MODULE GhostKernel -----------------------------
(***************************************************************************)
(* The ghOSt kernel, as far as the agent can observe it: which threads run *)
(* where, the messages it sends, the transactions it executes and the CPUs *)
(* that other scheduling classes take.  The kernel is not part of the      *)
(* repository; this module states what net_scheduler.cc relies on.         *)
(*                                                                         *)
(*  - Messages about all tasks arrive in order on one channel.             *)
(*  - A transaction for a task commits only if the task is runnable, off   *)
(*    CPU and has no message the agent has not seen (target_barrier), and  *)
(*    only on a CPU that no other scheduling class has taken.              *)
(*  - A task that is preempted by the agent itself causes no message; if   *)
(*    it was reached by switchto, the kernel sends TASK_PREEMPT for it.    *)
(*  - Only the first switchto of a chain sends a message, and the task     *)
(*    that ends the chain reports from_switchto.                           *)
(***************************************************************************)
EXTENDS NetScheduler

CONSTANTS
    MaxMsgs,        \* bound on the messages in the channel
    KernelEvents    \* what may happen to threads, a subset of AllKernelEvents

AllKernelEvents ==
    {"arrive", "wake", "yield", "switchto", "cfs", "refuse", "die", "die_early",
     "depart", "depart_queued"}

ASSUME KernelAssumption ==
    /\ MaxMsgs \in Nat \ {0}
    /\ KernelEvents \subseteq AllKernelEvents

(* A thread is "leaving" when the agent has preempted it and it is still   *)
(* on its CPU, "arriving" when it joins the enclave while it runs.         *)
ThreadState == {"absent", "blocked", "runnable", "running", "leaving", "arriving"}

MsgType == {"NEW", "WAKEUP", "BLOCKED", "PREEMPT", "YIELD", "SWITCHTO", "DEAD",
            "DEPARTED"}

Msg(type, t, c, from_switchto, flag) ==
    [type |-> type, task |-> t, cpu |-> c, from_switchto |-> from_switchto, flag |-> flag]

Message ==
    [type : MsgType, task : Task, cpu : CPU \cup {NoCpu}, from_switchto : BOOLEAN,
     flag : BOOLEAN]

Kernel ==
    [thread : [Task -> ThreadState],
     running : [CPU -> Task \cup {NoTask}],
     chain : [CPU -> BOOLEAN],
     cfs : [CPU -> BOOLEAN],
     boosted : BOOLEAN,
     txn : [CPU -> TxnState],
     target : [CPU -> Task \cup {NoTask}],
     channel : Seq(Message)]

InitKernel ==
    [thread |-> [t \in Task |-> "absent"],
     running |-> [c \in CPU |-> NoTask],
     chain |-> [c \in CPU |-> FALSE],
     cfs |-> [c \in CPU |-> FALSE],
     boosted |-> FALSE,
     txn |-> [c \in CPU |-> "complete"],
     target |-> [c \in CPU |-> NoTask],
     channel |-> << >>]

(***************************************************************************)
(* What the agent observes.                                                *)
(***************************************************************************)
Available(k, c) == ~k.cfs[c]

on_cpu(k, t) == k.thread[t] \in {"running", "leaving", "arriving"}

(* seqnum != status_word.barrier(): the agent has not seen every message.  *)
Unseen(k, t) == \E i \in 1 .. Len(k.channel) : k.channel[i].task = t

(***************************************************************************)
(* What the kernel does to threads.                                        *)
(***************************************************************************)
Send(k, m) == [k EXCEPT !.channel = Append(@, m)]

(* The thread on CPU c, if any, stops running because of the agent.        *)
Evict(k, c) ==
    LET t == k.running[c]
        r == [k EXCEPT !.running[c] = NoTask, !.chain[c] = FALSE]
    IN  IF t = NoTask THEN k
        ELSE IF k.chain[c]
        THEN Send([r EXCEPT !.thread[t] = "runnable"], Msg("PREEMPT", t, c, TRUE, FALSE))
        ELSE [r EXCEPT !.thread[t] = "leaving"]

(* The thread on CPU c, if any, is preempted by another scheduling class.  *)
Preempt(k, c) ==
    LET t == k.running[c]
    IN  IF t = NoTask THEN k
        ELSE Send([k EXCEPT !.running[c] = NoTask, !.chain[c] = FALSE,
                            !.thread[t] = "runnable"],
                  Msg("PREEMPT", t, c, k.chain[c], FALSE))

CanRun(k, c, t) == Available(k, c) /\ k.thread[t] = "runnable" /\ ~Unseen(k, t)

(* A transaction that commits, and one that fails. *)
Run(k, c, t) ==
    [Evict(k, c) EXCEPT !.running[c] = t, !.thread[t] = "running", !.txn[c] = "complete"]

Refuse(k, c) == [k EXCEPT !.txn[c] = IF k.cfs[c] THEN "unavail" ELSE "failed"]

(* The transaction of CPU c for task t, with its outcome `commits'.        *)
Transact(k, c, t, commits) ==
    /\ commits => CanRun(k, c, t)
    /\ ~commits => ~CanRun(k, c, t) \/ "refuse" \in KernelEvents

Outcome(k, c, t, commits) ==
    [(IF commits THEN Run(k, c, t) ELSE Refuse(k, c)) EXCEPT !.target[c] = NoTask]

=============================================================================
