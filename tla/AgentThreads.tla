---------------------------- MODULE AgentThreads ----------------------------
(***************************************************************************)
(* The agent threads, one per CPU (NetAgent::AgentThread in                *)
(* ghost_agent/net_scheduler.cc), the handover of the role of global agent *)
(* between them (PickNextGlobalCPU), and their end in ~FullNetAgent        *)
(* (net_scheduler.h).  What the global agent does with messages and tasks  *)
(* is one step here; it is the subject of NetAgent.                        *)
(*                                                                         *)
(* An agent that is not global sleeps in LocalYield.  The kernel refuses   *)
(* the sleep when the agent was pinged or woken after it read its barrier; *)
(* of the barrier's count only that fact is kept.                          *)
(***************************************************************************)
EXTENDS Integers, FiniteSets, Sequences

CONSTANTS
    CPU,            \* the CPUs of the enclave
    HomeCpu         \* the first global CPU

ASSUME CpuAssumption == HomeCpu \in CPU

VARIABLES
    pc,             \* where each agent thread is
    fresh,          \* agents whose barrier, to be passed to LocalYield, is current
    pings,          \* the CPU the agent is about to ping, or its own
    global_cpuid_,
    cfs,            \* CPUs another scheduling class wants
    finished,       \* agents that have been told to finish
    dtor            \* the thread in ~FullNetAgent

vars == <<pc, fresh, pings, global_cpuid_, cfs, finished, dtor>>

Pc == {"top", "check", "yield", "asleep", "pick", "ping", "schedule", "gone"}

(* dtor.global is GetGlobalCPUId as the destructor read it; left are the   *)
(* agents not yet terminated, next is the one being terminated.            *)
DtorSteps == {"idle", "validate", "order", "begin", "complete", "done"}

Init ==
    /\ pc = [c \in CPU |-> "top"]
    /\ fresh = {}
    /\ pings = [c \in CPU |-> c]
    /\ global_cpuid_ = HomeCpu
    /\ cfs = {}
    /\ finished = {}
    /\ dtor = [step |-> "idle", global |-> HomeCpu, next |-> HomeCpu, left |-> CPU]

Goto(c, step) == pc' = [pc EXCEPT ![c] = step]

(***************************************************************************)
(* AgentThread.                                                            *)
(***************************************************************************)

(* Mutant: the loop does not look whether it is finished.                  *)
ReadBarrierForever(c) ==
    /\ pc[c] = "top"
    /\ Goto(c, "check")
    /\ fresh' = fresh \cup {c}
    /\ UNCHANGED <<pings, global_cpuid_, cfs, finished, dtor>>

(* The head of the loop, and the barrier.                                  *)
ReadBarrier(c) ==
    /\ pc[c] = "top"
    /\ Goto(c, IF c \in finished THEN "gone" ELSE "check")
    /\ fresh' = IF c \in finished THEN fresh ELSE fresh \cup {c}
    /\ UNCHANGED <<pings, global_cpuid_, cfs, finished, dtor>>

(* Mutant: the agent checks its boost before its role.                     *)
NextStepBoost(c) ==
    IF c \in cfs THEN "pick"
    ELSE IF c # global_cpuid_ THEN "yield" ELSE "schedule"

(* boosted_priority: another class wants the CPU of the agent.             *)
NextStep(c) ==
    IF c # global_cpuid_ THEN "yield"
    ELSE IF c \in cfs THEN "pick" ELSE "schedule"

CheckRole(c) ==
    /\ pc[c] = "check"
    /\ Goto(c, NextStep(c))
    /\ fresh' = IF NextStep(c) = "yield" THEN fresh ELSE fresh \ {c}
    /\ UNCHANGED <<pings, global_cpuid_, cfs, finished, dtor>>

(* Mutant: the barrier is read when the agent goes to sleep.               *)
LocalYieldRereads(c) ==
    /\ pc[c] = "yield"
    /\ Goto(c, "asleep")
    /\ fresh' = fresh \ {c}
    /\ UNCHANGED <<pings, global_cpuid_, cfs, finished, dtor>>

LocalYield(c) ==
    /\ pc[c] = "yield"
    /\ Goto(c, IF c \in fresh THEN "asleep" ELSE "top")
    /\ fresh' = fresh \ {c}
    /\ UNCHANGED <<pings, global_cpuid_, cfs, finished, dtor>>

(* The CPUs the search for a new global CPU may end at.                    *)
Targets(c) == CPU \ (cfs \cup {c})

(* PickNextGlobalCPU, up to SetGlobalCPU.  Whether an available CPU also   *)
(* has its transaction reaped, is not in a switchto and is on the right    *)
(* NUMA node is left open: the search may find none.                       *)
PickNextGlobalCPU(c) ==
    /\ pc[c] = "pick"
    /\ \/ /\ Goto(c, "top")
          /\ UNCHANGED <<pings, global_cpuid_>>
       \/ \E target \in Targets(c) :
              /\ global_cpuid_' = target
              /\ pings' = [pings EXCEPT ![c] = target]
              /\ Goto(c, "ping")
    /\ UNCHANGED <<fresh, cfs, finished, dtor>>

(* Agent d is woken, or will not fall asleep.                              *)
Woken(p, d) == IF p[d] = "asleep" THEN [p EXCEPT ![d] = "top"] ELSE p

Ping(c) ==
    /\ pc[c] = "ping"
    /\ pc' = Woken([pc EXCEPT ![c] = "top"], pings[c])
    /\ fresh' = fresh \ {pings[c]}
    /\ pings' = [pings EXCEPT ![c] = c]
    /\ UNCHANGED <<global_cpuid_, cfs, finished, dtor>>

(* Messages are dispatched and GlobalSchedule runs.                        *)
Schedule(c) ==
    /\ pc[c] = "schedule"
    /\ Goto(c, "top")
    /\ UNCHANGED <<fresh, pings, global_cpuid_, cfs, finished, dtor>>

AgentStep(c) ==
    \/ ReadBarrier(c) \/ CheckRole(c) \/ LocalYield(c)
    \/ PickNextGlobalCPU(c) \/ Ping(c) \/ Schedule(c)

(***************************************************************************)
(* The kernel (external): another class takes or leaves a CPU; an agent is *)
(* woken for a reason of its own.                                          *)
(***************************************************************************)
CfsWants(c) ==
    /\ cfs' = IF c \in cfs THEN cfs \ {c} ELSE cfs \cup {c}
    /\ UNCHANGED <<pc, fresh, pings, global_cpuid_, finished, dtor>>

KernelWakes(c) ==
    /\ pc[c] = "asleep"
    /\ Goto(c, "top")
    /\ UNCHANGED <<fresh, pings, global_cpuid_, cfs, finished, dtor>>

(***************************************************************************)
(* ~FullNetAgent, on a thread of its own.  TerminateAgentTasks (external)  *)
(* tells the agents to finish, wakes them and joins them, one by one.      *)
(***************************************************************************)
DtorStep(step) == dtor' = [dtor EXCEPT !.step = step]

BeginExit ==
    /\ dtor.step = "idle"
    /\ DtorStep("validate")
    /\ UNCHANGED <<pc, fresh, pings, global_cpuid_, cfs, finished>>

(* ValidatePreExitState, then GetGlobalCPUId.                              *)
ReadGlobal ==
    /\ dtor.step = "validate"
    /\ dtor' = [dtor EXCEPT !.step = "order", !.global = global_cpuid_]
    /\ UNCHANGED <<pc, fresh, pings, global_cpuid_, cfs, finished>>

(* Mutant: the agents are terminated in the order they were created in.    *)
FrontHome == HomeCpu

(* The agent brought to the front of agents_.                              *)
Front == dtor.global

OrderAgents ==
    /\ dtor.step = "order"
    /\ dtor' = [dtor EXCEPT !.step = "begin", !.next = Front]
    /\ UNCHANGED <<pc, fresh, pings, global_cpuid_, cfs, finished>>

TerminateBegin ==
    /\ dtor.step = "begin"
    /\ finished' = finished \cup {dtor.next}
    /\ pc' = Woken(pc, dtor.next)
    /\ fresh' = fresh \ {dtor.next}
    /\ DtorStep("complete")
    /\ UNCHANGED <<pings, global_cpuid_, cfs>>

TerminateComplete ==
    LET rest == dtor.left \ {dtor.next} IN
    /\ dtor.step = "complete"
    /\ pc[dtor.next] = "gone"
    /\ IF rest = {} THEN dtor' = [dtor EXCEPT !.step = "done", !.left = rest]
       ELSE \E c \in rest :
                dtor' = [dtor EXCEPT !.step = "begin", !.left = rest, !.next = c]
    /\ UNCHANGED <<pc, fresh, pings, global_cpuid_, cfs, finished>>

Teardown == ReadGlobal \/ OrderAgents \/ TerminateBegin \/ TerminateComplete

Next ==
    \/ \E c \in CPU : AgentStep(c) \/ CfsWants(c) \/ KernelWakes(c)
    \/ BeginExit
    \/ Teardown

Spec == Init /\ [][Next]_vars

(* Agent threads that are awake run (the kernel boosts an agent whose CPU  *)
(* another class wants until it has handed over), and so does the thread   *)
(* in the destructor.  Nothing is assumed about other classes, about       *)
(* spurious wake-ups, or about the end of the process.                     *)
FairSpec ==
    /\ Spec
    /\ \A c \in CPU : WF_vars(AgentStep(c))
    /\ WF_vars(Teardown)

-----------------------------------------------------------------------------

(* TypeOK: every variable keeps its type; the role of global agent and the *)
(* ping that follows it only ever go to CPUs of the enclave.               *)
TypeOK ==
    /\ pc \in [CPU -> Pc]
    /\ fresh \subseteq CPU
    /\ pings \in [CPU -> CPU]
    /\ global_cpuid_ \in CPU
    /\ cfs \subseteq CPU
    /\ finished \subseteq CPU
    /\ dtor \in [step : DtorSteps, global : CPU, next : CPU, left : SUBSET CPU]

(* The agent may be reading or writing the state of the scheduler.         *)
InScheduler(c) == pc[c] \in {"pick", "schedule"}

(* OneScheduler: at most one agent thread is inside DispatchMessage,       *)
(* GlobalSchedule or PickNextGlobalCPU, whose data no lock protects, while *)
(* the role of global agent moves between CPUs: an agent enters them only  *)
(* while global_cpuid_ is its CPU, and only the agent inside changes it.   *)
OneScheduler ==
    \A c, d \in CPU : InScheduler(c) /\ InScheduler(d) => c = d

(* GlobalFirst: "Terminate global agent before satellites"                 *)
(* (net_scheduler.h): once an agent is gone, the agent that was global     *)
(* when the destructor looked is not in the scheduler any more, although   *)
(* it kept running and may have handed over its role in the meantime.      *)
GlobalFirst ==
    (\E d \in CPU : pc[d] = "gone") => ~InScheduler(dtor.global)

(* GlobalSchedules: the agent of the global CPU never sleeps for ever: it  *)
(* schedules, or hands over its role, or is told to finish.  A ping that   *)
(* comes between its check of global_cpuid_ and its LocalYield makes the   *)
(* barrier stale, so the agent looks again.                                *)
GlobalSchedules ==
    \A c \in CPU : global_cpuid_ = c ~> (InScheduler(c) \/ global_cpuid_ # c \/ pc[c] = "gone")

(* ExitCompletes: ~FullNetAgent returns: every agent, asleep, spinning or  *)
(* in the middle of a handover, notices that it is finished.               *)
ExitCompletes == dtor.step = "validate" ~> dtor.step = "done"

=============================================================================
