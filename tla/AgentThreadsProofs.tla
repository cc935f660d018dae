------------------------- MODULE AgentThreadsProofs -------------------------
(* Proofs about AgentThreads, for every set of CPUs.                       *)
EXTENDS AgentThreads, TLAPS

(* An agent is in the scheduler only while global_cpuid_ is its CPU.       *)
RoleInv == \A c \in CPU : InScheduler(c) => global_cpuid_ = c

(* The agent that was global when the destructor looked is the only one    *)
(* told to finish until it is gone.                                        *)
GlobalGone == pc[dtor.global] = "gone"

OrderInv ==
    /\ \A c \in CPU : pc[c] = "gone" => c \in finished
    /\ dtor.step \in {"idle", "validate", "order"} => finished = {}
    /\ dtor.step = "begin" => GlobalGone \/ (finished = {} /\ dtor.next = dtor.global)
    /\ dtor.step = "complete" =>
           GlobalGone \/ (finished = {dtor.global} /\ dtor.next = dtor.global)
    /\ dtor.step = "done" => GlobalGone

IInv == TypeOK /\ RoleInv /\ OrderInv

(* The initial state satisfies the inductive invariant.                    *)
LEMMA InitInv == Init => IInv
  BY CpuAssumption DEF Init, IInv, TypeOK, RoleInv, OrderInv, InScheduler, Pc, DtorSteps

(* Every step of an agent thread keeps it: PickNextGlobalCPU, the only one *)
(* that changes global_cpuid_, also leaves the scheduler.                  *)
LEMMA AgentStepInv ==
  ASSUME IInv, NEW c \in CPU, AgentStep(c)
  PROVE  IInv'
  <1> USE DEF IInv, TypeOK, RoleInv, OrderInv, GlobalGone, InScheduler, Pc, DtorSteps, Goto
  <1>1. CASE ReadBarrier(c)  BY <1>1 DEF ReadBarrier
  <1>2. CASE CheckRole(c)
    <2>1. NextStep(c) \in {"yield", "pick", "schedule"}  BY DEF NextStep
    <2>2. NextStep(c) \in {"pick", "schedule"} => global_cpuid_ = c  BY DEF NextStep
    <2> QED  BY <1>2, <2>1, <2>2 DEF CheckRole
  <1>3. CASE LocalYield(c)  BY <1>3 DEF LocalYield
  <1>4. CASE PickNextGlobalCPU(c)
    <2>1. TypeOK'  BY <1>4 DEF PickNextGlobalCPU, Targets
    <2>2. RoleInv'  BY <1>4 DEF PickNextGlobalCPU, Targets
    <2>3. OrderInv'  BY <1>4 DEF PickNextGlobalCPU, Targets
    <2> QED  BY <2>1, <2>2, <2>3
  <1>5. CASE Ping(c)  BY <1>5 DEF Ping, Woken
  <1>6. CASE Schedule(c)  BY <1>6 DEF Schedule
  <1> QED  BY <1>1, <1>2, <1>3, <1>4, <1>5, <1>6 DEF AgentStep

(* So does every step of the destructor, which wakes agents but never      *)
(* moves one into the scheduler.                                           *)
LEMMA TeardownInv ==
  ASSUME IInv, BeginExit \/ Teardown
  PROVE  IInv'
  <1> USE DEF IInv, TypeOK, RoleInv, OrderInv, GlobalGone, InScheduler, Pc, DtorSteps, DtorStep
  <1>1. CASE BeginExit  BY <1>1 DEF BeginExit
  <1>2. CASE ReadGlobal  BY <1>2, Zenon DEF ReadGlobal
  <1>3. CASE OrderAgents  BY <1>3, Zenon DEF OrderAgents, Front
  <1>4. CASE TerminateBegin
    <2>1. TypeOK'  BY <1>4 DEF TerminateBegin, Woken
    <2>2. RoleInv'  BY <1>4 DEF TerminateBegin, Woken
    <2>3. \A c \in CPU : pc'[c] = "gone" <=> pc[c] = "gone"
      BY <1>4 DEF TerminateBegin, Woken
    <2>4. finished' = finished \cup {dtor.next} /\ dtor' = [dtor EXCEPT !.step = "complete"]
      BY <1>4 DEF TerminateBegin
    <2>5. OrderInv'
      <3>1. CASE GlobalGone  BY <2>3, <2>4, <3>1
      <3>2. CASE finished = {} /\ dtor.next = dtor.global  BY <2>3, <2>4, <3>2
      <3> QED  BY <1>4, <3>1, <3>2 DEF TerminateBegin
    <2> QED  BY <2>1, <2>2, <2>5
  <1>5. CASE TerminateComplete
    <2> DEFINE rest == dtor.left \ {dtor.next}
    <2>1. rest \subseteq CPU /\ UNCHANGED <<pc, fresh, pings, global_cpuid_, cfs, finished>>
      BY <1>5, Zenon DEF TerminateComplete
    <2>2. GlobalGone  BY <1>5, Zenon DEF TerminateComplete
    <2>3. CASE dtor' = [dtor EXCEPT !.step = "done", !.left = rest]
      <3> HIDE DEF rest
      <3> QED  BY <2>1, <2>2, <2>3, Zenon
    <2>4. ASSUME NEW c \in rest,
                 dtor' = [dtor EXCEPT !.step = "begin", !.left = rest, !.next = c]
          PROVE  IInv'
      <3> HIDE DEF rest
      <3> QED  BY <2>1, <2>2, <2>4, Zenon
    <2> QED  BY <1>5, <2>3, <2>4, Zenon DEF TerminateComplete
  <1> QED  BY <1>1, <1>2, <1>3, <1>4, <1>5 DEF Teardown

(* The kernel changes neither the role nor the order.                      *)
LEMMA KernelInv ==
  ASSUME IInv, NEW c \in CPU, CfsWants(c) \/ KernelWakes(c)
  PROVE  IInv'
  BY DEF IInv, TypeOK, RoleInv, OrderInv, GlobalGone, InScheduler, Pc, DtorSteps,
         CfsWants, KernelWakes, Goto

(* The invariant is inductive.                                             *)
LEMMA NextInv == IInv /\ [Next]_vars => IInv'
  <1> SUFFICES ASSUME IInv, [Next]_vars PROVE IInv'  OBVIOUS
  <1>1. CASE UNCHANGED vars
    BY <1>1 DEF vars, IInv, TypeOK, RoleInv, OrderInv, GlobalGone, InScheduler
  <1>2. CASE Next  BY <1>2, AgentStepInv, KernelInv, TeardownInv DEF Next
  <1> QED  BY <1>1, <1>2

(* The inductive invariant holds in every reachable state.                 *)
LEMMA Invariance == Spec => []IInv
  BY InitInv, NextInv, PTL DEF Spec

(* Whatever the number of CPUs, at most one agent thread is inside the     *)
(* scheduler (NetAgent::AgentThread).                                      *)
THEOREM SchedulerExclusion == Spec => [](TypeOK /\ OneScheduler)
  <1>1. IInv => TypeOK /\ OneScheduler
    BY DEF IInv, RoleInv, OneScheduler
  <1> QED  BY Invariance, <1>1, PTL

(* The agent that ~FullNetAgent found global leaves the scheduler before   *)
(* any agent is gone, although it may hand over its role meanwhile.        *)
THEOREM GlobalLeavesFirst == Spec => []GlobalFirst
  <1>1. IInv => GlobalFirst
    BY DEF IInv, TypeOK, OrderInv, GlobalGone, InScheduler, GlobalFirst, Pc, DtorSteps
  <1> QED  BY Invariance, <1>1, PTL

=============================================================================
