--------------------------- MODULE NetAgentProofs ---------------------------
(***************************************************************************)
(* The theorems about NetAgent: under the hypothesis Tame its invariants   *)
(* hold for any set of tasks, any number of CPUs, any bound on the channel *)
(* and any affinity that is not empty.  One lemma for each step of the     *)
(* agent, then the messages DispatchMessage handles, and last the          *)
(* induction.                                                              *)
(***************************************************************************)
EXTENDS GhostKernelProofs, NetSchedulerProofs, FiniteSetTheorems

(* SubmitRunRequests and UnyieldAll.                                       *)
LEMMA FinishRoundKeeps ==
    ASSUME Invariant(sched, kern, agent), FinishRound
    PROVE  Invariant(sched', kern', agent')
  <1>0. /\ Linked(sched, kern) /\ Placed(sched) /\ kern \in Kernel /\ agent \in Agent
        /\ sched.ok /\ \A u \in Task : Where(sched, u)
        /\ AgentLink(sched, kern, agent) /\ TxnLink(sched, kern)
    BY DEF Invariant, AgentLink, Linked, Placed, KernelInv
  <1> DEFINE x == [c \in CPU |-> IF c \in agent.assigned_cpus THEN "submitted" ELSE kern.txn[c]]
  <1>1. /\ kern' = [kern EXCEPT !.txn = x] /\ sched' = UnyieldAll(sched)
        /\ agent' = [agent EXCEPT !.pc = "top", !.avail_cpus = {},
                              !.avail_cpus_low_priority = {}, !.assigned_cpus = {}]
    BY DEF FinishRound
  <1>2. \A c \in CPU : /\ x[c] \in TxnState
                       /\ kern.txn[c] = "open" => x[c] = "submitted"
                       /\ kern.txn[c] # "open" => x[c] = kern.txn[c]
    BY <1>0 DEF AgentLink, Kernel, TxnState
  <1>3. x \in [CPU -> TxnState]
    BY <1>2
  <1> HIDE DEF x
  <1>4. Idle(kern, kern') /\ kern'.txn = x /\ kern'.target = kern.target
    BY <1>0, <1>1, <1>3 DEF Kernel, Idle
  <1>5. \A t \in Task : SameTxn(sched, kern, kern', t)
    BY <1>0, <1>2, <1>4 DEF SameTxn, Where
  <1>6. Linked(sched, kern')
    BY <1>0, <1>4, <1>5, IdleKeeps
  <1>7. Unyielded(sched, sched')
    BY <1>0, <1>1, UnyieldAllPlaces
  <1>8. /\ Placed(sched') /\ sched'.yielding_tasks_ = << >>
        /\ \A u \in Task : sched'.run_state[u] =
              IF u \in Yielding(sched) THEN "QUEUED" ELSE sched.run_state[u]
        /\ sched'.alive = sched.alive /\ sched'.cpu = sched.cpu
        /\ sched'.preempted = sched.preempted
        /\ sched'.current = sched.current /\ sched'.next = sched.next
        /\ sched'.in_switchto = sched.in_switchto /\ sched'.ok = sched.ok
    BY <1>7 DEF Unyielded
  <1>9. ASSUME NEW u \in Task PROVE Moves(sched, sched', kern', u)
    <2>1. CASE u \in Yielding(sched)
      <3>1. sched.run_state[u] = "YIELDING" /\ u \in sched.alive
        BY <1>0, <2>1 DEF Where
      <3>2. Requeues(sched, sched', u)
        BY <1>8, <2>1, <3>1 DEF Requeues
      <3> QED BY <1>8, <3>1, <3>2 DEF Moves
    <2>2. CASE u \notin Yielding(sched)
      BY <1>8, <2>2 DEF Moves, SameView
    <2> QED BY <2>1, <2>2
  <1>10. Linked(sched', kern')
    BY <1>0, <1>6, <1>8, <1>9, MovesKeep, Zenon
  <1>11. TxnLink(sched', kern')
    BY <1>0, <1>2, <1>4, <1>8 DEF TxnLink
  <1>12. /\ agent' \in Agent /\ agent'.pc = "top"
         /\ agent'.global_cpuid_ = agent.global_cpuid_
         /\ agent'.avail_cpus = {} /\ agent'.avail_cpus_low_priority = {}
         /\ agent'.assigned_cpus = {}
    BY <1>0, <1>1, Zenon DEF Agent
  <1>13. Yielding(sched') = {}
    BY <1>8 DEF Yielding, Range
  <1>14. {c \in CPU : kern'.txn[c] = "open"} = {}
    BY <1>2, <1>4
  <1>15. AgentLink(sched', kern', agent')
    BY <1>0, <1>4, <1>8, <1>12, <1>13, <1>14 DEF AgentLink, Idle
  <1> QED BY <1>10, <1>11, <1>15 DEF Invariant

(* The loop over the CPUs of GlobalSchedule scans one of them.             *)
LEMMA ScanCpuKeeps ==
    ASSUME Invariant(sched, kern, agent), ScanCpu
    PROVE  Invariant(sched', kern', agent')
  <1> DEFINE c == agent.scan
             t == sched.next[c]
  <1>0. /\ Linked(sched, kern) /\ Placed(sched) /\ kern \in Kernel /\ agent \in Agent
        /\ sched.ok /\ \A u \in Task : Where(sched, u) /\ Flags(sched, u)
        /\ AgentLink(sched, kern, agent) /\ TxnLink(sched, kern)
        /\ c \in CPU /\ Exclusive(sched) /\ agent.pc = "scan" /\ kern' = kern
    BY DEF Invariant, AgentLink, Linked, Placed, KernelInv, Sane, Agent, ScanCpu, At
  <1>1. Scanned(sched', agent, agent', c)
    BY <1>0, ScannedIs
  <1>2. CASE ~ScanSyncs(c)
    <2>1. sched' = sched
      BY <1>2 DEF ScanCpu
    <2> HIDE DEF c
    <2>2. AgentLink(sched, kern, agent')
      BY <1>0, <1>1, <1>2 DEF AgentLink, Scanned
    <2> QED BY <1>0, <2>1, <2>2 DEF Invariant
  <1>3. CASE ScanSyncs(c)
    <2>1. sched' = SyncCpuState(sched, kern.txn, c) /\ committed(kern.txn, c)
      BY <1>3 DEF ScanCpu, ScanSyncs
    <2> HIDE DEF c
    <2>2. Synced(sched, sched', kern.txn, c)
      BY <1>0, <2>1, SyncPlaces
    <2>3. /\ Placed(sched') /\ Touches(sched, sched', {t})
          /\ Yielding(sched') = Yielding(sched) /\ sched'.preempted = sched.preempted
          /\ sched'.ok = sched.ok /\ sched'.in_switchto = sched.in_switchto
          /\ sched'.alive = sched.alive
          /\ sched'.next[c] = NoTask /\ \A d \in CPU \ {c} : sched'.next[d] = sched.next[d]
          /\ \A d \in CPU \ {c} : sched'.current[d] = sched.current[d]
          /\ t = NoTask => sched'.current[c] = sched.current[c]
      BY <2>2 DEF Synced
    <2>4. /\ t # NoTask /\ kern.txn[c] = "complete" =>
                sched'.run_state[t] = "ON_CPU" /\ sched'.cpu[t] = c
          /\ t # NoTask /\ kern.txn[c] # "complete" => sched'.run_state[t] = "QUEUED"
      BY <2>2 DEF Synced
    <2>5. ASSUME NEW u \in Task PROVE Moves(sched, sched', kern, u)
      <3>1. CASE u # t
        BY <2>3, <3>1, TouchesView DEF Moves
      <3>2. CASE u = t
        <4>1. /\ sched.run_state[u] = "PENDING" /\ sched.cpu[u] = c /\ u \in sched.alive
              /\ ~sched.preempted[u] /\ u # NoTask
          BY <1>0, <3>2, SchedulerAssumption DEF Where, Flags
        <4>2. CASE kern.txn[c] = "complete"
          <5>1. Lands(sched, sched', kern, u)
            BY <2>3, <2>4, <3>2, <4>1, <4>2 DEF Lands
          <5> QED BY <2>3, <4>1, <5>1 DEF Moves
        <4>3. CASE kern.txn[c] # "complete"
          <5>1. Requeues(sched, sched', u)
            BY <2>3, <2>4, <3>2, <4>1, <4>3 DEF Requeues
          <5> QED BY <2>3, <4>1, <5>1 DEF Moves
        <4> QED BY <4>2, <4>3
      <3> QED BY <3>1, <3>2
    <2>6. Linked(sched', kern)
      BY <1>0, <2>3, <2>5, MovesKeep, Zenon
    <2>7. TxnLink(sched', kern)
      BY <1>0, <2>1, <2>3 DEF TxnLink, committed
    <2>8. /\ \A d \in CPU : sched.next[d] = NoTask => sched'.next[d] = NoTask
          /\ \A d \in CPU : sched.next[d] = NoTask => sched'.current[d] = sched.current[d]
      BY <2>3 DEF t
    <2>9. \A d \in CPU : sched.current[d] # NoTask => sched.next[d] = NoTask
      BY <1>0 DEF Exclusive
    <2>10. AgentLink(sched', kern, agent')
      <3>1. /\ agent' \in Agent /\ agent'.pc \in {"scan", "place"}
            /\ agent'.global_cpuid_ = agent.global_cpuid_
            /\ agent'.assigned_cpus = agent.assigned_cpus
            /\ agent.assigned_cpus = {} /\ agent.global_cpuid_ \in CPU
            /\ agent.avail_cpus \subseteq CPU /\ agent.avail_cpus_low_priority \subseteq CPU
        BY <1>0, <1>1 DEF Scanned, AgentLink, Agent
      <3>2. ASSUME NEW d \in agent'.avail_cpus
            PROVE  /\ d # agent.global_cpuid_ /\ sched'.current[d] = NoTask
                   /\ sched'.next[d] = NoTask
        BY <1>0, <1>1, <2>3, <2>8, <3>1 DEF Scanned, AgentLink
      <3>3. ASSUME NEW d \in agent'.avail_cpus_low_priority
            PROVE  d # agent.global_cpuid_ /\ sched'.current[d] # NoTask
        BY <1>0, <1>1, <2>8, <2>9, <3>1 DEF Scanned, AgentLink
      <3>4. /\ sched'.current[agent.global_cpuid_] = NoTask
            /\ sched'.next[agent.global_cpuid_] = NoTask
        BY <1>0, <2>8, <3>1 DEF AgentLink
      <3> QED BY <1>0, <3>1, <3>2, <3>3, <3>4 DEF AgentLink
    <2> QED BY <1>0, <2>6, <2>7, <2>10 DEF Invariant
  <1> QED BY <1>2, <1>3

(* The task is punted to the next round.                                   *)
LEMMA PuntKeeps ==
    ASSUME Invariant(sched, kern, agent), agent.pc = "place", NEW d, NEW t,
           InHand(sched, d, t), sched' = Yield(d, t), kern' = kern, agent' = agent
    PROVE  Invariant(sched', kern', agent')
  <1>0. /\ Linked(sched, kern) /\ Placed(sched) /\ sched.ok
        /\ AgentLink(sched, kern, agent) /\ TxnLink(sched, kern)
        /\ t \in Task /\ t \in sched.alive /\ sched.run_state[t] = "QUEUED"
    BY DEF Invariant, Linked, InHand
  <1>1. Punted(sched, sched', t)
    BY <1>0, PuntPlaces
  <1>2. /\ Placed(sched') /\ sched'.ok /\ sched'.in_switchto = sched.in_switchto
        /\ sched'.alive = sched.alive
        /\ sched'.current = sched.current /\ sched'.next = sched.next
        /\ sched'.run_state[t] = "YIELDING" /\ sched'.preempted[t] = sched.preempted[t]
        /\ \A u \in Task \ {t} : SameView(sched, sched', u)
    BY <1>0, <1>1 DEF Punted
  <1>3. ASSUME NEW u \in Task PROVE Moves(sched, sched', kern, u)
    <2>1. Requeues(sched, sched', t)
      BY <1>0, <1>2 DEF Requeues
    <2> QED BY <1>0, <1>2, <2>1 DEF Moves
  <1>4. Linked(sched', kern)
    BY <1>0, <1>2, <1>3, MovesKeep
  <1>5. TxnLink(sched', kern)
    BY <1>0, <1>2 DEF TxnLink
  <1>6. AgentLink(sched', kern, agent)
    BY <1>0, <1>2 DEF AgentLink
  <1> QED BY <1>4, <1>5, <1>6 DEF Invariant

(* What an iteration does with the task t in hand: CPU c, which is idle,   *)
(* is assigned to it; it replaces the task that runs there; or it cannot.  *)
AssignStep(d, t, c) ==
    /\ sched' = Assign(d, c, t)
    /\ kern' = [kern EXCEPT !.txn[c] = "open", !.target[c] = t]
    /\ agent' = [agent EXCEPT !.avail_cpus = @ \ {c}, !.assigned_cpus = @ \cup {c}]

ReplaceStep(d, t, c) ==
    /\ sched' = ReplaceDone(d, c, t)
    /\ kern' = Succeeds(kern, c, t)
    /\ agent' = [agent EXCEPT !.avail_cpus_low_priority = @ \ {c}]

FailStep(d, t, c) ==
    /\ sched' = ReplaceUndone(d, c, t)
    /\ kern' = Fails(kern, c, t)
    /\ agent' = [agent EXCEPT !.avail_cpus_low_priority = @ \ {c}]

(* The task gets an idle CPU in a batched transaction.                     *)
LEMMA AssignKeeps ==
    ASSUME Invariant(sched, kern, agent), agent.pc = "place", NEW d, NEW t, NEW c,
           InHand(sched, d, t), c \in agent.avail_cpus,
           enforce_affinity_mask_ => c \in allowed_cpulist[t],
           kern.thread[t] = "runnable", Silent(kern.channel, Of(t)),
           AssignStep(d, t, c)
    PROVE  Invariant(sched', kern', agent')
  <1>0. /\ Linked(sched, kern) /\ Placed(sched) /\ sched.ok /\ kern \in Kernel
        /\ AgentLink(sched, kern, agent) /\ TxnLink(sched, kern) /\ agent \in Agent
        /\ t \in Task /\ t \in sched.alive /\ sched.run_state[t] = "QUEUED"
        /\ \A u \in Task : Where(sched, u)
    BY DEF Invariant, Linked, InHand, KernelInv, AgentLink, Placed
  <1>1. /\ c \in CPU /\ c # agent.global_cpuid_
        /\ sched.current[c] = NoTask /\ sched.next[c] = NoTask
    BY <1>0 DEF AgentLink, Agent
  <1>2. Booked(sched, sched', c, t)
    <2>1. sched' = Assign(d, c, t)
      BY DEF AssignStep
    <2>2. Booked(sched, Assign(d, c, t), c, t)
      BY <1>0, <1>1, BookPlaces
    <2> QED BY <2>1, <2>2
  <1>3. /\ Placed(sched') /\ sched'.ok /\ sched'.in_switchto = sched.in_switchto
        /\ sched'.alive = sched.alive /\ sched'.current = sched.current
        /\ sched'.next[c] = t /\ \A e \in CPU \ {c} : sched'.next[e] = sched.next[e]
        /\ sched'.run_state[t] = "PENDING" /\ sched'.cpu[t] = c /\ ~sched'.preempted[t]
        /\ \A u \in Task \ {t} : SameView(sched, sched', u)
    BY <1>0, <1>2 DEF Booked
  <1> DEFINE x == [kern.txn EXCEPT ![c] = "open"]
             y == [kern.target EXCEPT ![c] = t]
  <1>4. /\ x \in [CPU -> TxnState] /\ x[c] = "open"
        /\ \A e \in CPU \ {c} : x[e] = kern.txn[e]
    BY <1>0, <1>1 DEF Kernel, TxnState
  <1>5. /\ y \in [CPU -> Task \cup {NoTask}] /\ y[c] = t
        /\ \A e \in CPU \ {c} : y[e] = kern.target[e]
    BY <1>0, <1>1 DEF Kernel
  <1>6. kern' = [kern EXCEPT !.txn = x, !.target = y]
    BY <1>0, <1>1 DEF AssignStep, Kernel
  <1> HIDE DEF x, y
  <1>7. Idle(kern, kern') /\ kern'.txn = x /\ kern'.target = y
    BY <1>0, <1>4, <1>5, <1>6, Zenon DEF Kernel, Idle
  <1>8. ASSUME NEW u \in Task PROVE SameTxn(sched, kern, kern', u)
    <2>1. Where(sched, u) /\ sched.next[c] # u
      BY <1>0, <1>1, SchedulerAssumption
    <2>2. sched.run_state[u] = "PENDING" => sched.cpu[u] \in CPU \ {c}
      BY <2>1 DEF Where
    <2> QED BY <1>4, <1>7, <2>2 DEF SameTxn
  <1>9. Linked(sched, kern')
    BY <1>0, <1>7, <1>8, IdleKeeps
  <1>10. ASSUME NEW u \in Task PROVE Moves(sched, sched', kern', u)
    <2>1. Books(sched, sched', kern', t)
      BY <1>3, <1>4, <1>7 DEF Books, Idle
    <2> QED BY <1>0, <1>3, <2>1 DEF Moves
  <1>11. Linked(sched', kern')
    BY <1>3, <1>9, <1>10, MovesKeep
  <1>12. TxnLink(sched', kern')
    <2>1. \A e \in CPU : kern'.txn[e] \in {"open", "submitted"} =>
             sched'.next[e] # NoTask /\ kern'.target[e] = sched'.next[e]
      BY <1>0, <1>3, <1>4, <1>5, <1>7, SchedulerAssumption DEF TxnLink
    <2>2. enforce_affinity_mask_ =>
             \A e \in CPU : sched'.next[e] # NoTask => e \in allowed_cpulist[sched'.next[e]]
      BY <1>0, <1>3 DEF TxnLink
    <2> QED BY <2>1, <2>2 DEF TxnLink
  <1>13. /\ agent' \in Agent /\ agent'.pc = "place"
         /\ agent'.global_cpuid_ = agent.global_cpuid_
         /\ agent'.avail_cpus = agent.avail_cpus \ {c}
         /\ agent'.avail_cpus_low_priority = agent.avail_cpus_low_priority
         /\ agent'.assigned_cpus = agent.assigned_cpus \cup {c}
    BY <1>0, <1>1, Zenon DEF AssignStep, Agent
  <1>14. agent'.assigned_cpus = {e \in CPU : kern'.txn[e] = "open"}
    BY <1>0, <1>1, <1>4, <1>7, <1>13, Zenon DEF AgentLink
  <1>15. agent.global_cpuid_ \in CPU /\ agent.avail_cpus \subseteq CPU
    BY <1>0 DEF Agent
  <1>16. AgentLink(sched', kern', agent')
    BY <1>0, <1>1, <1>3, <1>7, <1>13, <1>14, <1>15 DEF AgentLink, Idle
  <1> QED BY <1>11, <1>12, <1>16, Zenon DEF Invariant

(* The task that runs on CPU c has not been replaced.                      *)
LEMMA FailLinked ==
    ASSUME NEW d, NEW t, NEW c, NEW prev, Challenges(d, t, c, prev), FailStep(d, t, c)
    PROVE  /\ Linked(sched', kern') /\ OnlyCpu(sched, sched', kern, kern', c)
           /\ TurnedTo(agent, agent', c)
  <1>1. /\ Linked(sched, kern) /\ Placed(sched) /\ kern \in Kernel /\ InHand(sched, d, t)
        /\ t \in Task /\ c \in CPU /\ sched.current[c] = prev /\ sched.next[c] = NoTask
        /\ prev \in Task
    BY DEF Challenges
  <1>2. StaysOff(sched, sched', c, prev, t)
    <2>1. StaysOff(sched, ReplaceUndone(d, c, t), c, prev, t)
      BY <1>1, PutAsidePlaces
    <2> QED BY <2>1 DEF FailStep
  <1>3. Refused(kern, kern', c)
    <2>1. Refused(kern, Fails(kern, c, t), c)
      BY <1>1, RefusedIs
    <2> QED BY <2>1 DEF FailStep
  <1>4. /\ Idle(kern, kern') /\ kern'.txn[c] \notin {"open", "submitted"}
        /\ kern'.running = kern.running
        /\ \A e \in CPU \ {c} : kern'.txn[e] = kern.txn[e] /\ kern'.target[e] = kern.target[e]
    BY <1>3 DEF Refused, Idle
  <1>5. ASSUME NEW u \in Task PROVE SameTxn(sched, kern, kern', u)
    <2>1. Where(sched, u) /\ sched.next[c] # u
      BY <1>1, SchedulerAssumption DEF Placed
    <2>2. sched.run_state[u] = "PENDING" => sched.cpu[u] \in CPU \ {c}
      BY <1>1, <2>1 DEF Where
    <2> QED BY <1>4, <2>2 DEF SameTxn
  <1>6. Linked(sched, kern')
    BY <1>1, <1>4, <1>5, IdleKeeps
  <1>7. Linked(sched', kern')
    BY <1>2, <1>6, AsideLinked
  <1>8. OnlyCpu(sched, sched', kern, kern', c)
    BY <1>2, <1>4 DEF OnlyCpu, StaysOff, Displaced
  <1>9. TurnedTo(agent, agent', c)
    BY Zenon DEF FailStep, TurnedTo
  <1> QED BY <1>7, <1>8, <1>9

(* The task that runs on CPU c has been replaced.  In the middle stands    *)
(* the scheduler s in which c is vacated and t put aside.                  *)
LEMMA ReplaceLinked ==
    ASSUME NEW d, NEW t, NEW c, NEW prev, Challenges(d, t, c, prev),
           enforce_affinity_mask_ => c \in allowed_cpulist[t],
           kern.thread[t] = "runnable", Silent(kern.channel, Of(t)),
           ReplaceStep(d, t, c)
    PROVE  /\ Linked(sched', kern') /\ OnlyCpu(sched, sched', kern, kern', c)
           /\ TurnedTo(agent, agent', c)
  <1> DEFINE s == ReplaceUndone(d, c, t)
             e == Evict(kern, c)
  <1>1. /\ Linked(sched, kern) /\ Placed(sched) /\ kern \in Kernel /\ InHand(sched, d, t)
        /\ t \in Task /\ t \in sched.alive /\ prev \in Task
        /\ c \in CPU /\ sched.current[c] = prev /\ sched.next[c] = NoTask
    BY DEF Challenges
  <1>2. StaysOff(sched, s, c, prev, t)
    BY <1>1, PutAsidePlaces
  <1>3. TakesOver(sched, sched', c, prev, t)
    <2>1. TakesOver(sched, ReplaceDone(d, c, t), c, prev, t)
      BY <1>1, ReplacePlaces, Zenon
    <2> QED BY <2>1, Zenon DEF ReplaceStep
  <1> HIDE DEF s
  <1>4. Linked(s, kern)
    BY <1>1, <1>2, AsideLinked, Zenon
  <1>5. Empties(s, kern, e, c)
    <2>1. s.current[c] = NoTask /\ s.next[c] = NoTask
      BY <1>1, <1>2 DEF StaysOff, Displaced
    <2> QED BY <1>1, <1>4, <2>1, EvictKeeps
  <1>6. Starts(e, kern', c, t)
    <2>1. e \in Kernel /\ e.thread[t] = "runnable" /\ Silent(e.channel, Of(t))
      <3>1. kern.running[c] # t
        BY <1>1, SchedulerAssumption, Zenon DEF Linked, KernelInv
      <3> QED BY <1>1, <1>5, <3>1, Zenon DEF Empties, Linked, KernelInv
    <2>2. Starts(e, Succeeds(kern, c, t), c, t)
      BY <1>1, <2>1, StartsIs, Zenon
    <2> QED BY <2>2, Zenon DEF ReplaceStep
  <1> HIDE DEF e
  <1>7. /\ Linked(s, e) /\ e \in Kernel /\ e.running[c] = NoTask /\ ~e.chain[c]
        /\ e.thread[t] = "runnable" /\ Silent(e.channel, Of(t))
        /\ e.txn = kern.txn /\ e.target = kern.target
        /\ \A f \in CPU \ {c} : e.running[f] = kern.running[f]
    <2>1. kern.running[c] # t
      BY <1>1, SchedulerAssumption DEF Linked, KernelInv
    <2> QED BY <1>1, <1>5, <2>1, Zenon DEF Empties, Linked, KernelInv
  <1>8. Linked(sched', kern')
    <2>1. /\ Placed(sched') /\ sched'.ok /\ sched'.in_switchto = s.in_switchto
          /\ t \in sched'.alive
          /\ sched'.run_state[t] = "ON_CPU" /\ sched'.cpu[t] = c /\ ~sched'.preempted[t]
      BY <1>2, <1>3, Zenon DEF StaysOff, TakesOver, Displaced, Challenges
    <2>2. \A u \in Task \ {t} :
             SameView(s, sched', u) /\ (s.run_state[u] = "PENDING" => s.cpu[u] # c)
      BY <1>2, <1>3, ReplacedViews, Zenon
    <2>3. Hosts(s, sched', c, t) /\ Vacant(e, c, t)
      BY <1>7, <2>1, <2>2, Zenon DEF Hosts, Vacant
    <2> QED BY <1>1, <1>6, <1>7, <2>3, StartsKeeps
  <1>9. OnlyCpu(sched, sched', kern, kern', c)
    BY <1>3, <1>6, <1>7 DEF OnlyCpu, TakesOver, Displaced, Starts
  <1>10. TurnedTo(agent, agent', c)
    BY Zenon DEF ReplaceStep, TurnedTo
  <1> QED BY <1>8, <1>9, <1>10, Zenon

(* Replacing the task of a CPU keeps the invariant, whether the            *)
(* transaction succeeds or fails.                                          *)
LEMMA ReplaceKeeps ==
    ASSUME Invariant(sched, kern, agent), agent.pc = "place", NEW d, NEW t, NEW c,
           InHand(sched, d, t), c \in agent.avail_cpus_low_priority,
           enforce_affinity_mask_ => c \in allowed_cpulist[t],
           kern.thread[t] = "runnable", Silent(kern.channel, Of(t)),
           ReplaceStep(d, t, c) \/ FailStep(d, t, c)
    PROVE  Invariant(sched', kern', agent')
  <1>1. /\ c \in CPU /\ c # agent.global_cpuid_ /\ sched.current[c] # NoTask
        /\ kern.txn[c] # "open"
    BY ChallengeIs
  <1>2. PICK prev \in Task : Challenges(d, t, c, prev)
    BY ChallengeIs, Zenon
  <1>3. /\ Linked(sched', kern') /\ OnlyCpu(sched, sched', kern, kern', c)
        /\ TurnedTo(agent, agent', c)
    BY <1>2, FailLinked, ReplaceLinked, Zenon
  <1>4. TxnLink(sched', kern')
    BY <1>1, <1>3, OnlyCpuTxn, Zenon DEF Invariant
  <1>5. AgentLink(sched', kern', agent')
    BY <1>1, <1>3, OnlyCpuAgent DEF Invariant
  <1> QED BY <1>3, <1>4, <1>5, Zenon DEF Invariant

(* An iteration of the second loop of GlobalSchedule.                      *)
LEMMA PlaceTaskKeeps ==
    ASSUME Invariant(sched, kern, agent), PlaceTask
    PROVE  Invariant(sched', kern', agent')
  <1> DEFINE t == Dequeued(sched)
             d == CHECK(Dequeue(sched), sched.run_state[t] # "PENDING")
             idle == PickNextCpu(agent.avail_cpus, d, t)
             low == PickNextCpu(agent.avail_cpus_low_priority, d, t)
  <1>0. /\ Linked(sched, kern) /\ Placed(sched) /\ agent \in Agent
    BY DEF Invariant, Linked, AgentLink
  <1>1. InHand(sched, d, t) /\ agent.pc = "place"
    <2>1. ~QueuesEmpty(sched) /\ agent.pc = "place"
      BY DEF PlaceTask, MorePlaces, At
    <2> QED BY <1>0, <2>1, PlaceStart
  <1>2. /\ t \in Task /\ t \in sched.alive /\ sched.run_state[t] = "QUEUED"
        /\ d \in Scheduler
    <2>1. InHand(sched, d, t)
      BY <1>1
    <2> HIDE DEF d, t
    <2> QED BY <2>1 DEF InHand, Sane
  <1>3. agent.avail_cpus \subseteq CPU /\ agent.avail_cpus_low_priority \subseteq CPU
    BY <1>0 DEF Agent
  <1>4. /\ idle # NoCpu => /\ idle \in agent.avail_cpus
                           /\ enforce_affinity_mask_ => idle \in allowed_cpulist[t]
        /\ low # NoCpu => /\ low \in agent.avail_cpus_low_priority
                          /\ enforce_affinity_mask_ => low \in allowed_cpulist[t]
    <2> HIDE DEF d, t
    <2> QED BY <1>2, <1>3, PickNextCpuFacts, Zenon
  <1>5. ~Ineligible(t) => kern.thread[t] = "runnable" /\ Silent(kern.channel, Of(t))
    <2> HIDE DEF t
    <2> QED BY <1>0, <1>2, EligibleIs
  <1>6. \/ sched' = Yield(d, t) /\ kern' = kern /\ agent' = agent
        \/ ~Ineligible(t) /\ idle # NoCpu /\ AssignStep(d, t, idle)
        \/ /\ ~Ineligible(t)
           /\ low # NoCpu
           /\ \E in_sync \in BOOLEAN :
                 /\ kern' = Outcome(kern, low, t, in_sync)
                 /\ sched' = ReplaceExistingTask(d, low, t, in_sync)
           /\ agent' = [agent EXCEPT !.avail_cpus_low_priority = @ \ {low}]
    BY Zenon DEF PlaceTask, AssignStep
  <1> HIDE DEF t, d, idle, low
  <1>7. CASE sched' = Yield(d, t) /\ kern' = kern /\ agent' = agent
    BY <1>1, <1>7, PuntKeeps, Zenon
  <1>8. CASE ~Ineligible(t) /\ idle # NoCpu /\ AssignStep(d, t, idle)
    BY <1>1, <1>4, <1>5, <1>8, AssignKeeps
  <1>9. CASE /\ ~Ineligible(t)
             /\ low # NoCpu
             /\ \E in_sync \in BOOLEAN :
                   /\ kern' = Outcome(kern, low, t, in_sync)
                   /\ sched' = ReplaceExistingTask(d, low, t, in_sync)
             /\ agent' = [agent EXCEPT !.avail_cpus_low_priority = @ \ {low}]
    <2>1. ReplaceStep(d, t, low) \/ FailStep(d, t, low)
      <3>1. PICK in_sync \in BOOLEAN : /\ kern' = Outcome(kern, low, t, in_sync)
                                       /\ sched' = ReplaceExistingTask(d, low, t, in_sync)
        BY <1>9
      <3>2. in_sync = TRUE \/ in_sync = FALSE
        OBVIOUS
      <3> QED BY <1>9, <3>1, <3>2, Zenon
              DEF ReplaceStep, FailStep, ReplaceDone, ReplaceUndone, Succeeds, Fails
    <2>2. /\ kern.thread[t] = "runnable" /\ Silent(kern.channel, Of(t))
          /\ low \in agent.avail_cpus_low_priority
          /\ enforce_affinity_mask_ => low \in allowed_cpulist[t]
      BY <1>4, <1>5, <1>9, Zenon
    <2> QED BY <1>1, <2>1, <2>2, ReplaceKeeps
  <1> QED BY <1>6, <1>7, <1>8, <1>9, Zenon

(* The scheduler after CPU c is vacated.                                   *)
LEMMA VacateKeeps ==
    ASSUME NEW s, NEW q, NEW k, NEW c \in CPU, Linked(s, k), Vacated(s, q, c)
    PROVE  Linked(q, k)
  <1>0. Placed(s) /\ s.ok /\ s \in Scheduler /\ \A u \in Task : Where(s, u)
    BY DEF Linked, Placed, Sane
  <1>1. /\ Placed(q) /\ q.ok = s.ok /\ q.in_switchto = s.in_switchto /\ q.alive = s.alive
        /\ \A t \in Task : t \in {s.current[c], s.next[c]} =>
              q.run_state[t] = "QUEUED" /\ ~q.preempted[t]
        /\ Touches(s, q, {s.current[c], s.next[c]})
    BY DEF Vacated
  <1>2. ASSUME NEW u \in Task PROVE Moves(s, q, k, u)
    <2>1. CASE u \in {s.current[c], s.next[c]}
      <3>1. u \in s.alive /\ s.run_state[u] \in {"ON_CPU", "PENDING"}
        BY <1>0, <2>1, Zenon DEF Where
      <3>2. Requeues(s, q, u)
        BY <1>1, <2>1, <3>1, Zenon DEF Requeues
      <3> QED BY <1>1, <3>1, <3>2, Zenon DEF Moves
    <2>2. CASE u \notin {s.current[c], s.next[c]}
      <3>1. SameView(s, q, u)
        BY <1>1, <2>2, TouchesView
      <3> QED BY <3>1 DEF Moves
    <2> QED BY <2>1, <2>2, Zenon
  <1> QED BY <1>0, <1>1, <1>2, MovesKeep, Zenon

(* The global agent moves to another CPU.                                  *)
LEMMA PickNextGlobalCPUKeeps ==
    ASSUME Invariant(sched, kern, agent), PickNextGlobalCPU
    PROVE  Invariant(sched', kern', agent')
  <1> DEFINE c == GlobalTarget
             synced == SyncCpuState(sched, kern.txn, c)
             k == IF synced.current[c] = NoTask THEN kern
                  ELSE [Evict(kern, c) EXCEPT !.txn[c] = "complete"]
             p == Preempt(k, c)
  <1>0. /\ Linked(sched, kern) /\ Placed(sched) /\ sched.ok /\ kern \in Kernel
        /\ AgentLink(sched, kern, agent) /\ TxnLink(sched, kern) /\ agent \in Agent
    BY DEF Invariant, Linked, KernelInv, AgentLink
  <1>1. /\ agent.pc = "top"
        /\ c # NoCpu
        /\ sched' = VacateCpu(sched, kern.txn, c)
        /\ kern' = [p EXCEPT !.cfs[agent.global_cpuid_] = TRUE, !.boosted = FALSE]
        /\ agent' = [agent EXCEPT !.global_cpuid_ = c]
    BY DEF PickNextGlobalCPU, At
  <1>2. c \in CPU /\ c # agent.global_cpuid_ /\ committed(kern.txn, c)
    BY <1>1, TargetFacts
  <1>3. k = kern \/ k = [Evict(kern, c) EXCEPT !.txn[c] = "complete"]
    OBVIOUS
  <1> HIDE DEF c, k
  <1>4. Vacated(sched, sched', c)
    BY <1>0, <1>1, <1>2, VacatePlaces, Zenon
  <1>5. /\ Yielding(sched') = Yielding(sched)
        /\ sched'.current[c] = NoTask /\ \A d \in CPU \ {c} : sched'.current[d] = sched.current[d]
        /\ sched'.next[c] = NoTask /\ \A d \in CPU \ {c} : sched'.next[d] = sched.next[d]
    BY <1>4 DEF Vacated
  <1>6. Linked(sched', kern)
    BY <1>0, <1>2, <1>4, VacateKeeps
  <1>7. /\ Linked(sched', k)
        /\ k.txn[c] \notin {"open", "submitted"}
        /\ \A d \in CPU \ {c} : k.txn[d] = kern.txn[d]
        /\ k.target = kern.target
    <2>1. CASE k = kern
      BY <1>2, <1>6, <2>1 DEF committed
    <2>2. CASE k = [Evict(kern, c) EXCEPT !.txn[c] = "complete"]
      <3>1. c \in CPU /\ sched'.current[c] = NoTask /\ sched'.next[c] = NoTask
        BY <1>2, <1>5
      <3>2. Emptied(sched', kern, k, c)
        BY <1>6, <2>2, <3>1, EmptyKeeps
      <3> QED BY <3>2 DEF Emptied
    <2> QED BY <1>3, <2>1, <2>2, Zenon
  <1>8. Cleared(sched', k, p, c)
    BY <1>2, <1>7, PreemptKeeps, Zenon
  <1> HIDE DEF p
  <1>9. /\ Linked(sched', p) /\ p.running[c] = NoTask /\ p.txn = k.txn
        /\ p.target = k.target /\ p \in Kernel
    BY <1>8 DEF Cleared, Linked, KernelInv
  <1>10. Idle(p, kern') /\ kern'.txn = k.txn /\ kern'.target = kern.target
    <2> DEFINE f == [p.cfs EXCEPT ![agent.global_cpuid_] = TRUE]
    <2>1. f \in [CPU -> BOOLEAN]
      BY <1>9, Zenon DEF Kernel
    <2>2. kern' = [p EXCEPT !.cfs = f, !.boosted = FALSE]
      BY <1>1, <1>9 DEF Kernel
    <2> HIDE DEF f
    <2> QED BY <1>7, <1>9, <2>1, <2>2, Zenon DEF Kernel, Idle
  <1>11. Linked(sched', kern')
    <2>1. \A u \in Task : SameTxn(sched', p, kern', u)
      BY <1>9, <1>10 DEF SameTxn
    <2> QED BY <1>9, <1>10, <2>1, IdleKeeps
  <1>12. TxnLink(sched', kern')
    <2>1. ASSUME NEW e \in CPU, kern'.txn[e] \in {"open", "submitted"}
          PROVE  sched'.next[e] # NoTask /\ kern'.target[e] = sched'.next[e]
      <3>1. e # c
        BY <1>7, <1>10, <2>1, Zenon
      <3>2. kern.txn[e] \in {"open", "submitted"} /\ kern'.target[e] = kern.target[e]
        BY <1>7, <1>10, <2>1, <3>1
      <3> QED BY <1>0, <1>5, <3>1, <3>2 DEF TxnLink
    <2>2. enforce_affinity_mask_ =>
             \A e \in CPU : sched'.next[e] # NoTask => e \in allowed_cpulist[sched'.next[e]]
      BY <1>0, <1>5 DEF TxnLink
    <2> QED BY <2>1, <2>2, Zenon DEF TxnLink
  <1>13. /\ agent' \in Agent /\ agent'.pc = "top" /\ agent'.global_cpuid_ = c
         /\ agent'.avail_cpus = agent.avail_cpus
         /\ agent'.avail_cpus_low_priority = agent.avail_cpus_low_priority
         /\ agent'.assigned_cpus = agent.assigned_cpus
    BY <1>0, <1>1, <1>2 DEF Agent
  <1>14. agent'.assigned_cpus = {e \in CPU : kern'.txn[e] = "open"}
    <2>1. \A e \in CPU : kern'.txn[e] = "open" <=> kern.txn[e] = "open"
      BY <1>2, <1>7, <1>10 DEF committed
    <2>2. agent.assigned_cpus = {e \in CPU : kern.txn[e] = "open"}
      BY <1>0 DEF AgentLink
    <2> QED BY <1>13, <2>1, <2>2
  <1>15. /\ agent.assigned_cpus = {} /\ agent.avail_cpus = {}
         /\ agent.avail_cpus_low_priority = {} /\ Yielding(sched) = {}
    BY <1>0, <1>1 DEF AgentLink
  <1>16. kern'.running[c] = NoTask
    BY <1>9, <1>10, Zenon DEF Idle
  <1>17. AgentLink(sched', kern', agent')
    BY <1>5, <1>13, <1>14, <1>15, <1>16, Zenon DEF AgentLink
  <1> QED BY <1>11, <1>12, <1>17 DEF Invariant

(* The agent handles the first message of the channel.                     *)
LEMMA DispatchMessageKeeps ==
    ASSUME Invariant(sched, kern, agent), DispatchMessage,
           \A t \in Task : allowed_cpulist[t] # {}
    PROVE  Invariant(sched', kern', agent')
  <1> DEFINE ch == kern.channel
             m == Head(ch)
             t == m.task
  <1>0. /\ Linked(sched, kern) /\ TxnLink(sched, kern) /\ AgentLink(sched, kern, agent)
        /\ Placed(sched) /\ KernelInv(kern) /\ kern \in Kernel /\ sched \in Scheduler
        /\ \A u \in Task : Where(sched, u) /\ TaskLink(sched, kern, u)
        /\ \A c \in CPU : CpuLink(sched, kern, c)
        /\ agent' = agent /\ agent.pc = "drain" /\ agent \in Agent /\ ch # << >>
    BY Zenon DEF Invariant, Linked, KernelInv, Placed, Sane, DispatchMessage, At, AgentLink
  <1>1. /\ CanHandle(sched, kern, m)
        /\ Taken(ch, Tail(ch), Of(t), m)
    BY <1>0, HeadCanBeHandled
  <1>2. /\ kern' \in Kernel /\ kern'.channel = Tail(ch)
        /\ kern'.thread = kern.thread /\ kern'.running = kern.running
        /\ kern'.chain = kern.chain /\ kern'.txn = kern.txn /\ kern'.target = kern.target
        /\ ch \in Seq(Message)
    <2>1. ch \in Seq(Message) /\ Tail(ch) \in Seq(Message)
      BY <1>0 DEF Kernel
    <2>2. PICK q \in Seq(Message) : q = Tail(ch)
      BY <2>1, Zenon
    <2>3. kern' = [kern EXCEPT !.channel = q]
      BY <2>2 DEF DispatchMessage
    <2> QED BY <1>0, <2>1, <2>2, <2>3, Zenon DEF Kernel
  <1>3. PICK garbage \in BOOLEAN : sched' = Dispatch(m, garbage)
    BY DEF DispatchMessage
  <1>4. m \in KernelMsg /\ m \in Message /\ t \in Task /\ Fits(sched, kern, t, m)
    BY <1>1, Zenon DEF CanHandle, KernelMsg
  <1>5. After(sched, sched', t, m)
    BY <1>1, <1>3, <1>4, DispatchHandles
  <1>6. Placed(sched') /\ sched'.ok /\ Touches(sched, sched', {t})
    BY <1>5, Zenon DEF After
  <1>7. /\ TaskLink(sched', kern', t)
        /\ m.type \in {"PREEMPT", "YIELD"} => Settling(kern', t)
    <2>1. Taken(kern.channel, kern'.channel, Of(t), m) /\ TaskLink(sched, kern, t)
      BY <1>0, <1>1, <1>2, <1>4, Zenon
    <2> HIDE DEF m, t, ch
    <2> QED BY <1>2, <1>4, <1>5, <2>1, AfterLink, Zenon
  <1>8. ASSUME NEW u \in Task \ {t} PROVE SameMail(ch, kern'.channel, Of(u))
    <2>1. m \notin Of(u)
      BY Zenon DEF Of
    <2> QED BY <1>0, <1>2, <2>1, TakeOther
  <1>9. ASSUME NEW c \in CPU PROVE CpuLink(sched', kern', c)
    BY <1>0, <1>2, <1>4, <1>5, AfterCpuLink, Zenon
  <1>10. /\ \A c \in CPU : sched'.next[c] # NoTask => sched'.next[c] = sched.next[c]
         /\ \A c \in CPU : sched'.current[c] # NoTask => sched'.current[c] = sched.current[c]
         /\ \A c \in CPU : sched.next[c] \in Task \ {t} => sched'.next[c] = sched.next[c]
    BY <1>4, <1>5, AfterHolds
  <1>11. kern'.channel \in Seq(KernelMsg)
    BY <1>0, <1>2 DEF KernelInv
  <1> HIDE DEF ch, m, t
  <1>12. ASSUME NEW u \in Task PROVE TaskLink(sched', kern', u)
    <2>1. CASE u = t
      BY <1>7, <2>1, Zenon
    <2>2. CASE u # t
      <3>1. SameView(sched, sched', u)
        BY <1>6, <2>2, TouchesView, Zenon
      <3>2. SameThread(kern, kern', u)
        BY <1>2, <1>8, <2>2, Zenon DEF SameThread, ch
      <3>3. SameTxn(sched, kern, kern', u)
        BY <1>2, Zenon DEF SameTxn
      <3> QED BY <1>0, <3>1, <3>2, <3>3, LinkKept, Zenon
    <2> QED BY <2>1, <2>2, Zenon
  <1>13. KernelInv(kern')
    BY <1>0, <1>2, <1>11, KernelInvKept, Zenon
  <1>14. Linked(sched', kern')
    BY <1>6, <1>9, <1>12, <1>13 DEF Linked
  <1>15. TxnLink(sched', kern')
    <2>1. ASSUME NEW c \in CPU, kern.txn[c] \in {"open", "submitted"}
          PROVE  sched'.next[c] = sched.next[c] /\ sched.next[c] # NoTask
      <3>1. sched.next[c] \in Task /\ sched.next[c] # NoTask
        BY <1>0, <2>1, Zenon DEF TxnLink, Scheduler
      <3>2. sched.next[c] # t
        <4> SUFFICES ASSUME sched.next[c] = t PROVE FALSE
          BY Zenon
        <4>0. Where(sched, t)
          BY <1>0, <1>4, Zenon
        <4>1. sched.run_state[t] = "PENDING" /\ sched.cpu[t] = c /\ t \in sched.alive
          BY <4>0 DEF Where
        <4> QED BY <1>4, <2>1, <4>1, Zenon DEF Fits
      <3> QED BY <1>10, <3>1, <3>2, Zenon
    <2>2. \A c \in CPU : kern'.txn[c] \in {"open", "submitted"} =>
             sched'.next[c] # NoTask /\ kern'.target[c] = sched'.next[c]
      BY <1>0, <1>2, <2>1, Zenon DEF TxnLink
    <2>3. enforce_affinity_mask_ =>
             \A c \in CPU : sched'.next[c] # NoTask => c \in allowed_cpulist[sched'.next[c]]
      BY <1>0, <1>10 DEF TxnLink
    <2> QED BY <2>2, <2>3, Zenon DEF TxnLink
  <1>16. ASSUME NEW u \in Yielding(sched') PROVE Settling(kern', u)
    <2>1. u \in Task
      <3>1. sched'.yielding_tasks_ \in Seq(Task)
        BY <1>6 DEF Placed, Sane, Scheduler
      <3> QED BY <3>1 DEF Yielding, Range
    <2>2. CASE u = t
      <3>1. m.type = "YIELD"
        BY <1>1, <1>5, <1>16, <2>2, Zenon DEF CanHandle, After, t
      <3> QED BY <1>7, <2>2, <3>1
    <2>3. CASE u # t
      <3>1. u \in Yielding(sched)
        BY <1>5, <1>16, <2>3, Zenon DEF After
      <3>2. Settling(kern, u)
        BY <1>0, <3>1, Zenon DEF AgentLink
      <3> QED BY <1>2, <1>8, <2>1, <2>3, <3>2, Zenon DEF Settling, SameMail, ch
    <2> QED BY <2>2, <2>3, Zenon
  <1>17. AgentLink(sched', kern', agent')
    <2>1. agent.global_cpuid_ \in CPU
      BY <1>0, Zenon DEF Agent
    <2>2. /\ sched'.current[agent.global_cpuid_] = NoTask
          /\ sched'.next[agent.global_cpuid_] = NoTask
      BY <1>0, <1>10, <2>1, Zenon DEF AgentLink
    <2>3. agent.avail_cpus = {} /\ agent.avail_cpus_low_priority = {}
      BY <1>0, Zenon DEF AgentLink
    <2>4. agent.assigned_cpus = {c \in CPU : kern'.txn[c] = "open"} /\ agent.assigned_cpus = {}
      BY <1>0, <1>2, Zenon DEF AgentLink
    <2>5. kern'.running[agent.global_cpuid_] = NoTask
      BY <1>0, <1>2, Zenon DEF AgentLink
    <2> QED BY <1>0, <1>16, <2>2, <2>3, <2>4, <2>5, Zenon DEF AgentLink
  <1> QED BY <1>14, <1>15, <1>17 DEF Invariant

(* What the proofs assume of the system: a thread does not exit before it  *)
(* has left the CPU on which it joined, no thread departs while it is      *)
(* queued, and every thread may run somewhere.                             *)
Tame ==
    /\ "die_early" \notin KernelEvents
    /\ "depart_queued" \notin KernelEvents
    /\ \A t \in Task : allowed_cpulist[t] # {}

(* Every step keeps the invariant.                                         *)
LEMMA NextKeeps ==
    ASSUME Invariant(sched, kern, agent), [Next]_vars, Tame
    PROVE  Invariant(sched', kern', agent')
  <1>0. Linked(sched, kern) /\ TxnLink(sched, kern)
    BY DEF Invariant
  <1>1. CASE PickNextGlobalCPU
    BY <1>1, PickNextGlobalCPUKeeps
  <1>2. CASE StartRound
    BY <1>2, StartRoundKeeps, Zenon
  <1>3. CASE DispatchMessage
    BY <1>3, DispatchMessageKeeps DEF Tame
  <1>4. CASE Drained
    BY <1>4, DrainedKeeps
  <1>5. CASE ScanCpu
    BY <1>5, ScanCpuKeeps
  <1>6. CASE PlaceTask
    BY <1>6, PlaceTaskKeeps
  <1>7. CASE FinishRound
    BY <1>7, FinishRoundKeeps
  <1>8. ASSUME NEW t \in Task, NEW state \in {"blocked", "runnable", "arriving"},
               ThreadNew(t, state)
        PROVE  Invariant(sched', kern', agent')
    <2>1. Linked(sched, kern') /\ Steady(sched, kern, kern')
      BY <1>0, <1>8, ThreadNewKeeps
    <2> QED BY <1>8, <2>1, KernelStepKeeps, Zenon DEF ThreadNew, KernelDoes
  <1>9. ASSUME NEW t \in Task, NEW deferrable \in BOOLEAN, ThreadWakes(t, deferrable)
        PROVE  Invariant(sched', kern', agent')
    <2>1. Linked(sched, kern') /\ Steady(sched, kern, kern')
      BY <1>0, <1>9, ThreadWakesKeeps
    <2> QED BY <1>9, <2>1, KernelStepKeeps, Zenon DEF ThreadWakes, KernelDoes
  <1>10. ASSUME NEW c \in CPU, ThreadBlocks(c) PROVE Invariant(sched', kern', agent')
    <2>1. Linked(sched, kern') /\ Steady(sched, kern, kern')
      BY <1>0, <1>10, ThreadBlocksKeeps
    <2> QED BY <1>10, <2>1, KernelStepKeeps, Zenon DEF ThreadBlocks, ThreadStops, KernelDoes
  <1>11. ASSUME NEW c \in CPU, ThreadYields(c) PROVE Invariant(sched', kern', agent')
    <2>1. Linked(sched, kern') /\ Steady(sched, kern, kern')
      BY <1>0, <1>11, ThreadYieldsKeeps
    <2> QED BY <1>11, <2>1, KernelStepKeeps, Zenon DEF ThreadYields, ThreadStops, KernelDoes
  <1>12. ASSUME NEW c \in CPU, NEW u \in Task, ThreadSwitchesTo(c, u)
         PROVE  Invariant(sched', kern', agent')
    <2>1. Linked(sched, kern') /\ Steady(sched, kern, kern')
      BY <1>0, <1>12, ThreadSwitchesToKeeps
    <2> QED BY <1>12, <2>1, KernelStepKeeps, Zenon DEF ThreadSwitchesTo, KernelDoes
  <1>13. ASSUME NEW t \in Task, ThreadLeaves(t) PROVE Invariant(sched', kern', agent')
    <2>1. Linked(sched, kern') /\ Steady(sched, kern, kern')
      BY <1>0, <1>13, ThreadLeavesKeeps
    <2> QED BY <1>13, <2>1, KernelStepKeeps, Zenon DEF ThreadLeaves, KernelDoes
  <1>14. ASSUME NEW t \in Task, ThreadArrives(t) PROVE Invariant(sched', kern', agent')
    <2>1. Linked(sched, kern') /\ Steady(sched, kern, kern')
      BY <1>0, <1>14, ThreadArrivesKeeps DEF Tame
    <2> QED BY <1>14, <2>1, KernelStepKeeps DEF ThreadArrives, KernelDoes
  <1>15. ASSUME NEW t \in Task, ThreadDies(t) PROVE Invariant(sched', kern', agent')
    <2>1. Linked(sched, kern') /\ Steady(sched, kern, kern')
      BY <1>0, <1>15, ThreadDiesKeeps
    <2> QED BY <1>15, <2>1, KernelStepKeeps, Zenon DEF ThreadDies, KernelDoes
  <1>16. ASSUME NEW t \in Task, ThreadDeparts(t) PROVE Invariant(sched', kern', agent')
    <2>1. Linked(sched, kern') /\ Steady(sched, kern, kern')
      BY <1>0, <1>16, ThreadDepartsKeeps DEF Tame
    <2> QED BY <1>16, <2>1, KernelStepKeeps, Zenon DEF ThreadDeparts, KernelDoes
  <1>17. ASSUME NEW c \in CPU, ChainDeparts(c) PROVE Invariant(sched', kern', agent')
    <2>1. Linked(sched, kern') /\ Steady(sched, kern, kern')
      BY <1>0, <1>17, ChainDepartsKeeps
    <2> QED BY <1>17, <2>1, KernelStepKeeps, Zenon DEF ChainDeparts, KernelDoes
  <1>18. ASSUME NEW c \in CPU, CfsTakes(c) PROVE Invariant(sched', kern', agent')
    <2>1. Linked(sched, kern') /\ Steady(sched, kern, kern')
      BY <1>0, <1>18, CfsTakesKeeps
    <2> QED BY <1>18, <2>1, KernelStepKeeps DEF CfsTakes, KernelDoes
  <1>19. ASSUME NEW c \in CPU, CfsReleases(c) PROVE Invariant(sched', kern', agent')
    <2>1. Linked(sched, kern') /\ Steady(sched, kern, kern')
      BY <1>0, <1>19, CfsReleasesKeeps
    <2> QED BY <1>19, <2>1, KernelStepKeeps DEF CfsReleases, KernelDoes
  <1>20. ASSUME NEW c \in CPU, Commit(c) PROVE Invariant(sched', kern', agent')
    <2>1. Linked(sched, kern') /\ Steady(sched, kern, kern')
      BY <1>0, <1>20, CommitKeeps
    <2> QED BY <1>20, <2>1, KernelStepKeeps DEF Commit, KernelDoes
  <1>21. CASE UNCHANGED vars
    BY <1>21 DEF vars
  <1> QED BY <1>1, <1>2, <1>3, <1>4, <1>5, <1>6, <1>7, <1>8, <1>9, <1>10, <1>11, <1>12,
             <1>13, <1>14, <1>15, <1>16, <1>17, <1>18, <1>19, <1>20, <1>21
          DEF Next, AgentStep

(* The invariant holds throughout.                                         *)
THEOREM InvariantHolds == ASSUME Tame PROVE Spec => []Invariant(sched, kern, agent)
  <1>1. Init => Invariant(sched, kern, agent)
    BY InitKeeps
  <1>2. Invariant(sched, kern, agent) /\ [Next]_vars => Invariant(sched, kern, agent)'
    BY NextKeeps
  <1> QED BY <1>1, <1>2, PTL DEF Spec

(* A sequence that repeats nothing has an element once or not at all.      *)
LEMMA OccursOnce ==
    ASSUME NEW q \in Seq(Task), IsInjective(q), NEW t
    PROVE  Occurrences(q, t) = IF t \in Range(q) THEN 1 ELSE 0
  <1> DEFINE P == {i \in 1 .. Len(q) : q[i] = t}
  <1>1. CASE t \in Range(q)
    <2>1. PICK n \in 1 .. Len(q) : q[n] = t
      BY <1>1 DEF Range
    <2>2. P = {n}
      BY <2>1 DEF IsInjective
    <2> HIDE DEF P
    <2>3. Cardinality(P) = 1
      BY <2>2, FS_Singleton, Zenon
    <2> QED BY <1>1, <2>3 DEF Occurrences, P
  <1>2. CASE t \notin Range(q)
    <2>1. P = {}
      BY <1>2 DEF Range
    <2> HIDE DEF P
    <2>2. Cardinality(P) = 0
      BY <2>1, FS_EmptySet
    <2> QED BY <1>2, <2>2 DEF Occurrences, P
  <1> QED BY <1>1, <1>2

(* What the invariant says of the places of the tasks.                     *)
LEMMA InvariantPlaces ==
    ASSUME Invariant(sched, kern, agent)
    PROVE  PlacedOnce
  <1>1. Placed(sched) /\ Sane(sched) /\ sched \in Scheduler /\ QueuesOK(sched)
    BY DEF Invariant, Linked, Placed, Sane
  <1> DEFINE q == sched.run_queue_
             p == sched.run_queue_low_priority_
             y == sched.yielding_tasks_
  <1>2. /\ q \in Seq(Task) /\ p \in Seq(Task) /\ y \in Seq(Task)
        /\ IsInjective(q) /\ IsInjective(p) /\ IsInjective(y) /\ Range(q) \cap Range(p) = {}
    BY <1>1 DEF Scheduler, QueuesOK
  <1> SUFFICES ASSUME NEW t \in Task
               PROVE  LET st == IF t \in sched.alive THEN sched.run_state[t] ELSE "BLOCKED"
                          queued == Occurrences(q \o p, t)
                          current == {c \in CPU : sched.current[c] = t}
                          next == {c \in CPU : sched.next[c] = t}
                      IN  /\ queued = IF st = "QUEUED" THEN 1 ELSE 0
                          /\ Occurrences(y, t) = IF st = "YIELDING" THEN 1 ELSE 0
                          /\ current = IF st = "ON_CPU" THEN {sched.cpu[t]} ELSE {}
                          /\ next = IF st = "PENDING" THEN {sched.cpu[t]} ELSE {}
    BY DEF PlacedOnce
  <1> DEFINE st == IF t \in sched.alive THEN sched.run_state[t] ELSE "BLOCKED"
  <1>3. Where(sched, t)
    BY <1>1 DEF Placed
  <1>4. st = sched.run_state[t]
    BY <1>3 DEF Where
  <1> HIDE DEF st
  <1>5. Occurrences(q \o p, t) = IF st = "QUEUED" THEN 1 ELSE 0
    <2>1. t \in Range(q) \cup Range(p) <=> st = "QUEUED"
      BY <1>3, <1>4 DEF Where, Queued
    <2> HIDE DEF q, p
    <2>2. PICK r \in Seq(Task) : r = q \o p /\ IsInjective(r) /\ Range(r) = Range(q) \cup Range(p)
      BY <1>2, BothQueues, Zenon
    <2>3. Occurrences(r, t) = IF t \in Range(r) THEN 1 ELSE 0
      BY <2>2, OccursOnce, Zenon
    <2> QED BY <2>1, <2>2, <2>3, Zenon
  <1>6. Occurrences(y, t) = IF st = "YIELDING" THEN 1 ELSE 0
    <2>1. t \in Range(y) <=> st = "YIELDING"
      BY <1>3, <1>4 DEF Where, Yielding
    <2> HIDE DEF y
    <2>2. Occurrences(y, t) = IF t \in Range(y) THEN 1 ELSE 0
      BY <1>2, OccursOnce
    <2> QED BY <2>1, <2>2
  <1>7. {c \in CPU : sched.current[c] = t} = IF st = "ON_CPU" THEN {sched.cpu[t]} ELSE {}
    BY <1>3, <1>4 DEF Where
  <1>8. {c \in CPU : sched.next[c] = t} = IF st = "PENDING" THEN {sched.cpu[t]} ELSE {}
    BY <1>3, <1>4 DEF Where
  <1> QED BY <1>5, <1>6, <1>7, <1>8 DEF st

(* The fields of scheduler, kernel and agent keep their types.             *)
THEOREM TypesThroughout == ASSUME Tame PROVE Spec => []TypeOK
  <1>1. Invariant(sched, kern, agent) => TypeOK
    BY InvariantImplies
  <1> QED BY <1>1, InvariantHolds, PTL

(* No CHECK of the scheduler fails, in whatever order messages,            *)
(* transactions and preemptions come.                                      *)
THEOREM ChecksHold == ASSUME Tame PROVE Spec => []NoCheckFails
  <1>1. Invariant(sched, kern, agent) => NoCheckFails
    BY InvariantImplies
  <1> QED BY <1>1, InvariantHolds, PTL

(* Every task is once where its run_state says and nowhere else.           *)
THEOREM PlacesThroughout == ASSUME Tame PROVE Spec => []PlacedOnce
  <1>1. Invariant(sched, kern, agent) => PlacedOnce
    BY InvariantPlaces
  <1> QED BY <1>1, InvariantHolds, PTL

(* The agent's CPU is given to no task, and no CPU has a current task and  *)
(* a pending one.                                                          *)
THEOREM CpusExclusive == ASSUME Tame PROVE Spec => []CpuExclusive
  <1>1. Invariant(sched, kern, agent) => CpuExclusive
    BY InvariantImplies
  <1> QED BY <1>1, InvariantHolds, PTL

(* The agent loses no thread.                                              *)
THEOREM ThreadsKept == ASSUME Tame PROVE Spec => []NoThreadLost
  <1>1. Invariant(sched, kern, agent) => NoThreadLost
    BY InvariantImplies
  <1> QED BY <1>1, InvariantHolds, PTL

(* prio_boost and preempted are never both true.                           *)
THEOREM FlagsExclude == ASSUME Tame PROVE Spec => []BoostOrPreempted
  <1>1. Invariant(sched, kern, agent) => BoostOrPreempted
    BY InvariantImplies
  <1> QED BY <1>1, InvariantHolds, PTL

(* Threads run within their affinity, whatever the agent believes.         *)
THEOREM AffinityThroughout == ASSUME Tame PROVE Spec => []AffinityHonoured
  <1>1. Invariant(sched, kern, agent) => AffinityHonoured
    BY InvariantImplies
  <1> QED BY <1>1, InvariantHolds, PTL

=============================================================================
