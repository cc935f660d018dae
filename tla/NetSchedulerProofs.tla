------------------------- MODULE NetSchedulerProofs -------------------------
(***************************************************************************)
(* The operations of the scheduler keep every task in one place. First     *)
(* facts about the queues (insert, push, erase, pop), then one lemma for   *)
(* each operation and each message handler: its CHECKs hold, it leaves the *)
(* scheduler Placed, and it touches no task but the ones it is about. Last *)
(* what a message that can be handled leaves, in the terms of NetAgentInv. *)
(***************************************************************************)
EXTENDS NetAgentInv, WellFoundedInduction, TLAPS

(* Min picks the least of the numbers in a set.                            *)
LEMMA MinFacts ==
    ASSUME NEW T, T \subseteq Nat, T # {}
    PROVE  Min(T) \in T /\ \A y \in T : Min(T) <= y
  <1> DEFINE R == OpToRel(<, Nat)
  <1>1. \A x, y \in Nat : y < x => <<y, x>> \in R
    BY DEF OpToRel
  <1>2. IsWellFoundedOn(R, Nat)
    BY NatLessThanWellFounded, Zenon
  <1> HIDE DEF R
  <1>3. PICK x \in T : \A y \in T : ~(<<y, x>> \in R)
    BY <1>2, WFMin, Zenon
  <1>4. \A y \in T : ~(y < x)
    BY <1>1, <1>3, Zenon
  <1>5. \A y \in T : x <= y
    BY <1>4
  <1> QED BY <1>5, Zenon DEF Min

(* r is the queue q with e put in as its element number k.                 *)
Inserted(q, r, e, k) ==
    /\ Len(r) = Len(q) + 1 /\ k \in 1 .. Len(r) /\ r[k] = e
    /\ \A i \in 1 .. Len(q) : r[IF i < k THEN i ELSE i + 1] = q[i]

(* Putting an element in adds it to the queue's elements, and repeats      *)
(* nothing just when nothing was repeated and the element was not there.   *)
LEMMA InsertFacts ==
    ASSUME NEW S, NEW q \in Seq(S), NEW r \in Seq(S), NEW e, NEW k, Inserted(q, r, e, k)
    PROVE  /\ Range(r) = Range(q) \cup {e}
           /\ IsInjective(r) <=> IsInjective(q) /\ e \notin Range(q)
  <1> DEFINE m == Len(q)
             up(i) == IF i < k THEN i ELSE i + 1
  <1>1. /\ m \in Nat /\ DOMAIN q = 1 .. m /\ DOMAIN r = 1 .. m + 1
        /\ k \in 1 .. m + 1 /\ r[k] = e
        /\ \A i \in 1 .. m : r[up(i)] = q[i]
    BY DEF Inserted
  <1> HIDE DEF m
  <1>2. \A i \in 1 .. m : up(i) \in 1 .. m + 1 /\ up(i) # k
    BY <1>1
  <1>3. \A i, j \in 1 .. m : up(i) = up(j) => i = j
    BY <1>1
  <1>4. ASSUME NEW j \in 1 .. m + 1, j # k PROVE \E i \in 1 .. m : j = up(i)
    <2>1. CASE j < k
      BY <1>1, <2>1
    <2>2. CASE j > k
      <3>1. j - 1 \in 1 .. m /\ up(j - 1) = j
        BY <1>1, <2>2
      <3> QED BY <3>1
    <2> QED BY <1>1, <1>4, <2>1, <2>2
  <1> HIDE DEF up
  <1>5. Range(r) = Range(q) \cup {e}
    <2>1. \A j \in 1 .. m + 1 : r[j] = e \/ \E i \in 1 .. m : r[j] = q[i]
      BY <1>1, <1>4, Zenon
    <2>2. \A i \in 1 .. m : \E j \in 1 .. m + 1 : r[j] = q[i]
      BY <1>1, <1>2
    <2>3. /\ Range(r) = {r[j] : j \in 1 .. m + 1}
          /\ Range(q) = {q[i] : i \in 1 .. m}
      BY <1>1 DEF Range
    <2> QED BY <1>1, <2>1, <2>2, <2>3
  <1>6. ASSUME IsInjective(r) PROVE IsInjective(q) /\ e \notin Range(q)
    <2>1. \A i, j \in 1 .. m + 1 : r[i] = r[j] => i = j
      BY <1>1, <1>6 DEF IsInjective
    <2>2. \A i, j \in 1 .. m : q[i] = q[j] => i = j
      BY <1>1, <1>2, <1>3, <2>1
    <2>3. \A i \in 1 .. m : q[i] # e
      BY <1>1, <1>2, <2>1
    <2> QED BY <1>1, <2>2, <2>3 DEF IsInjective, Range
  <1>7. ASSUME IsInjective(q), e \notin Range(q) PROVE IsInjective(r)
    <2>1. \A i, j \in 1 .. m : q[i] = q[j] => i = j
      BY <1>1, <1>7 DEF IsInjective
    <2>2. \A i \in 1 .. m : q[i] # e
      BY <1>1, <1>7 DEF Range
    <2>3. ASSUME NEW i \in 1 .. m + 1, NEW j \in 1 .. m + 1, r[i] = r[j] PROVE i = j
      <3>1. CASE i = k \/ j = k
        BY <1>1, <1>4, <2>2, <2>3, <3>1, Zenon
      <3>2. CASE i # k /\ j # k
        <4>1. PICK a \in 1 .. m : i = up(a)
          BY <1>4, <3>2
        <4>2. PICK b \in 1 .. m : j = up(b)
          BY <1>4, <3>2
        <4> QED BY <1>1, <2>1, <2>3, <4>1, <4>2
      <3> QED BY <3>1, <3>2
    <2> QED BY <1>1, <2>3 DEF IsInjective
  <1> QED BY <1>5, <1>6, <1>7

(* Push puts the task in at the front or at the end of a queue.            *)
LEMMA PushFacts ==
    ASSUME NEW s, NEW t \in Task, NEW q \in Seq(Task)
    PROVE  /\ Push(s, t, q) \in Seq(Task)
           /\ Range(Push(s, t, q)) = Range(q) \cup {t}
           /\ t \notin Range(q) /\ IsInjective(q) => IsInjective(Push(s, t, q))
  <1> DEFINE r == Push(s, t, q)
  <1>1. r = <<t>> \o q \/ r = Append(q, t)
    BY DEF Push
  <1> HIDE DEF r
  <1>2. r \in Seq(Task) /\ \E k : Inserted(q, r, t, k)
    <2>1. CASE r = <<t>> \o q
      BY <2>1 DEF Inserted
    <2>2. CASE r = Append(q, t)
      BY <2>2 DEF Inserted
    <2> QED BY <1>1, <2>1, <2>2
  <1>3. Range(r) = Range(q) \cup {t} /\ (t \notin Range(q) /\ IsInjective(q) => IsInjective(r))
    BY <1>2, InsertFacts
  <1> QED BY <1>2, <1>3 DEF r

(* Yield puts the task in at the end of yielding_tasks_.                   *)
LEMMA AppendFacts ==
    ASSUME NEW t \in Task, NEW q \in Seq(Task), t \notin Range(q), IsInjective(q)
    PROVE  /\ Append(q, t) \in Seq(Task)
           /\ Range(Append(q, t)) = Range(q) \cup {t}
           /\ IsInjective(Append(q, t))
  <1>1. Inserted(q, Append(q, t), t, Len(q) + 1) /\ Append(q, t) \in Seq(Task)
    BY DEF Inserted
  <1> QED BY <1>1, InsertFacts, Zenon

(* Erasing a task that is in a queue once.                                 *)
LEMMA EraseFacts ==
    ASSUME NEW q \in Seq(Task), NEW t \in Range(q), IsInjective(q)
    PROVE  /\ Erase(q, t) \in Seq(Task) /\ IsInjective(Erase(q, t))
           /\ Range(Erase(q, t)) = Range(q) \ {t}
  <1> DEFINE r == Erase(q, t)
             P == {i \in DOMAIN q : q[i] = t}
  <1>1. PICK n \in 1 .. Len(q) : q[n] = t
    BY DEF Range
  <1>2. Min(P) = n
    <2>1. P = {n}
      BY <1>1 DEF IsInjective
    <2> HIDE DEF P
    <2> QED BY <2>1 DEF Min
  <1>3. r = SubSeq(q, 1, n - 1) \o SubSeq(q, n + 1, Len(q))
    BY <1>2, Zenon DEF Erase
  <1> HIDE DEF r
  <1>4. r \in Seq(Task) /\ Inserted(r, q, t, n)
    <2> DEFINE a == SubSeq(q, 1, n - 1)
               b == SubSeq(q, n + 1, Len(q))
    <2>1. a \in Seq(Task) /\ Len(a) = n - 1 /\ \A i \in 1 .. n - 1 : a[i] = q[i]
      BY <1>1
    <2>2. b \in Seq(Task) /\ Len(b) = Len(q) - n /\ \A i \in 1 .. Len(q) - n : b[i] = q[n + i]
      BY <1>1
    <2>0. r = a \o b
      BY <1>3
    <2> HIDE DEF a, b
    <2>3. r \in Seq(Task) /\ Len(r) = Len(q) - 1
      BY <1>1, <2>0, <2>1, <2>2
    <2>4. \A i \in 1 .. n - 1 : r[i] = q[i]
      BY <1>1, <2>0, <2>1, <2>2
    <2>5. ASSUME NEW i \in n .. Len(q) - 1 PROVE r[i] = q[i + 1]
      <3> DEFINE j == i - (n - 1)
      <3>1. j \in 1 .. Len(q) - n /\ n + j = i + 1
        BY <1>1
      <3>2. r[i] = b[j]
        BY <1>1, <2>0, <2>1, <2>2
      <3>3. b[j] = q[n + j]
        BY <2>2, <3>1
      <3> QED BY <3>1, <3>2, <3>3
    <2> QED BY <1>1, <2>3, <2>4, <2>5 DEF Inserted
  <1>5. Range(q) = Range(r) \cup {t} /\ IsInjective(r) /\ t \notin Range(r)
    BY <1>4, InsertFacts
  <1> QED BY <1>4, <1>5 DEF r

(* Taking the head off a queue that has it once.                           *)
LEMMA TailFacts ==
    ASSUME NEW S, NEW q \in Seq(S), q # << >>, IsInjective(q)
    PROVE  /\ Head(q) \in Range(q) /\ Head(q) \in S
           /\ Tail(q) \in Seq(S) /\ IsInjective(Tail(q))
           /\ Range(Tail(q)) = Range(q) \ {Head(q)}
  <1>1. /\ Head(q) \in S /\ Tail(q) \in Seq(S)
        /\ Inserted(Tail(q), q, Head(q), 1)
    BY DEF Inserted
  <1>2. /\ Range(q) = Range(Tail(q)) \cup {Head(q)}
        /\ IsInjective(Tail(q)) /\ Head(q) \notin Range(Tail(q))
    BY <1>1, InsertFacts, Zenon
  <1> QED BY <1>1, <1>2

(* A task nothing of which changed stays where it was.                     *)
LEMMA SameStays ==
    ASSUME NEW s, NEW r, NEW u, SameWhere(s, r, u)
    PROVE  /\ Where(s, u) => Where(r, u)
           /\ Nowhere(s, u) => Nowhere(r, u)
           /\ SameFlags(s, r, u) /\ Flags(s, u) => Flags(r, u)
  BY DEF SameWhere, SameFlags, Where, Nowhere, Flags

(* Two steps that touch only T touch only T together.                      *)
LEMMA TouchesChain ==
    ASSUME NEW s, NEW r, NEW q, NEW T, Touches(s, r, T), Touches(r, q, T)
    PROVE  Touches(s, q, T)
  <1> SUFFICES ASSUME NEW u \in Task \ T
               PROVE  SameWhere(s, q, u) /\ SameFlags(s, q, u)
    BY DEF Touches
  <1>1. /\ SameWhere(s, r, u) /\ SameFlags(s, r, u)
        /\ SameWhere(r, q, u) /\ SameFlags(r, q, u)
    BY DEF Touches
  <1> QED BY <1>1 DEF SameWhere, SameFlags

(* The invariant needs to be shown of the touched tasks only.              *)
LEMMA TouchedPlaced ==
    ASSUME NEW s, NEW r, NEW T, Placed(s), Sane(r), Touches(s, r, T),
           \A t \in T : Where(r, t) /\ Flags(r, t)
    PROVE  Placed(r)
  <1>1. ASSUME NEW u \in Task \ T PROVE Where(r, u) /\ Flags(r, u)
    BY SameStays DEF Touches, Placed
  <1> QED BY <1>1 DEF Placed

(* CHECK changes ok alone, and nothing when it succeeds.                   *)
LEMMA CheckFields ==
    ASSUME NEW s \in Scheduler, NEW p \in BOOLEAN
    PROVE  /\ CHECK(s, p) \in Scheduler
           /\ CHECK(s, p).ok = (s.ok /\ p)
           /\ p => CHECK(s, p) = s
  BY Zenon DEF CHECK, Scheduler

(* Enqueue changes the run queues and the run_state of the task.           *)
LEMMA EnqueueFields ==
    ASSUME NEW s \in Scheduler, NEW t \in Task
    PROVE  LET r == Enqueue(s, t)
           IN  /\ r \in Scheduler
               /\ r.alive = s.alive
               /\ r.run_state = [s.run_state EXCEPT ![t] = "QUEUED"]
               /\ r.cpu = s.cpu
               /\ r.prio_boost = s.prio_boost
               /\ r.preempted = s.preempted
               /\ r.high_priority = s.high_priority
               /\ r.yielding_tasks_ = s.yielding_tasks_
               /\ r.current = s.current
               /\ r.next = s.next
               /\ r.in_switchto = s.in_switchto
               /\ r.ok = s.ok
               /\ Queued(r) = Queued(s) \cup {t}
               /\ QueuesOK(s) /\ t \notin Queued(s) => QueuesOK(r)
  <1> DEFINE a == Push(s, t, s.run_queue_)
             b == Push(s, t, s.run_queue_low_priority_)
             f == [s.run_state EXCEPT ![t] = "QUEUED"]
             hi == [s EXCEPT !.run_state = f, !.run_queue_ = a]
             lo == [s EXCEPT !.run_state = f, !.run_queue_low_priority_ = b]
  <1>1. /\ s.run_queue_ \in Seq(Task) /\ s.run_queue_low_priority_ \in Seq(Task)
        /\ f \in [Task -> RunState]
    BY DEF Scheduler, RunState
  <1>2. /\ a \in Seq(Task) /\ Range(a) = Range(s.run_queue_) \cup {t}
        /\ t \notin Range(s.run_queue_) /\ IsInjective(s.run_queue_) => IsInjective(a)
    BY <1>1, PushFacts, Zenon
  <1>3. /\ b \in Seq(Task) /\ Range(b) = Range(s.run_queue_low_priority_) \cup {t}
        /\ t \notin Range(s.run_queue_low_priority_) /\ IsInjective(s.run_queue_low_priority_) => IsInjective(b)
    BY <1>1, PushFacts
  <1>4. Enqueue(s, t) = IF s.high_priority[t] THEN hi ELSE lo
    BY DEF Enqueue, Scheduler
  <1> HIDE DEF a, b, f
  <1>5. CASE s.high_priority[t]
    <2>1. Enqueue(s, t) = hi
      BY <1>4, <1>5
    <2>2. hi \in Scheduler
      BY <1>1, <1>2, Zenon DEF Scheduler
    <2> QED BY <1>1, <1>2, <2>1, <2>2 DEF Queued, QueuesOK, f, Scheduler
  <1>6. CASE ~s.high_priority[t]
    <2>1. Enqueue(s, t) = lo
      BY <1>4, <1>6
    <2>2. lo \in Scheduler
      BY <1>1, <1>3, Zenon DEF Scheduler
    <2> QED BY <1>1, <1>3, <2>1, <2>2 DEF Queued, QueuesOK, f, Scheduler
  <1> QED BY <1>5, <1>6

(* Enqueue puts a task in hand into a run queue.                           *)
LEMMA EnqueuePlaces ==
    ASSUME NEW s, NEW t \in Task, Sane(s), Nowhere(s, t)
    PROVE  LET r == Enqueue(s, t)
           IN  /\ Sane(r) /\ Where(r, t) /\ Touches(s, r, {t})
               /\ r.run_state[t] = "QUEUED"
  <1> DEFINE r == Enqueue(s, t)
  <1>1. s \in Scheduler
    BY DEF Sane
  <1>2. /\ r \in Scheduler
        /\ r.alive = s.alive
        /\ r.run_state = [s.run_state EXCEPT ![t] = "QUEUED"]
        /\ r.cpu = s.cpu
        /\ r.prio_boost = s.prio_boost
        /\ r.preempted = s.preempted
        /\ r.yielding_tasks_ = s.yielding_tasks_
        /\ r.current = s.current
        /\ r.next = s.next
        /\ Queued(r) = Queued(s) \cup {t}
        /\ QueuesOK(s) /\ t \notin Queued(s) => QueuesOK(r)
    BY <1>1, EnqueueFields
  <1> HIDE DEF r
  <1>3. Sane(r)
    BY <1>2 DEF Sane, Exclusive, Nowhere
  <1>4. /\ r.run_state[t] = "QUEUED"
        /\ \A u \in Task \ {t} : r.run_state[u] = s.run_state[u]
    BY <1>1, <1>2 DEF Scheduler
  <1>5. Where(r, t)
    BY <1>2, <1>4 DEF Where, Nowhere, Yielding
  <1>6. Touches(s, r, {t})
    BY <1>2, <1>4 DEF Touches, SameWhere, SameFlags, Yielding
  <1> QED BY <1>3, <1>4, <1>5, <1>6 DEF r

(* Setting run_state to BLOCKED leaves a task in hand in no place.         *)
LEMMA BlockPlaces ==
    ASSUME NEW s, NEW t \in Task, Sane(s), Nowhere(s, t)
    PROVE  LET r == [s EXCEPT !.run_state[t] = "BLOCKED"]
           IN  /\ Sane(r) /\ Where(r, t) /\ Touches(s, r, {t})
               /\ r.run_state[t] = "BLOCKED"
               /\ Yielding(r) = Yielding(s)
               /\ r.ok = s.ok /\ r.in_switchto = s.in_switchto
               /\ r.preempted = s.preempted /\ r.prio_boost = s.prio_boost
               /\ r.alive = s.alive
  <1> DEFINE f == [s.run_state EXCEPT ![t] = "BLOCKED"]
             r == [s EXCEPT !.run_state = f]
  <1>1. s \in Scheduler
    BY DEF Sane
  <1>2. /\ f \in [Task -> RunState] /\ f[t] = "BLOCKED"
        /\ \A u \in Task \ {t} : f[u] = s.run_state[u]
    BY <1>1 DEF Scheduler, RunState
  <1> HIDE DEF f
  <1>3. r \in Scheduler
    BY <1>1, <1>2, Zenon DEF Scheduler
  <1>4. /\ r.alive = s.alive /\ r.run_state = f /\ r.cpu = s.cpu
        /\ r.prio_boost = s.prio_boost /\ r.preempted = s.preempted
        /\ r.run_queue_ = s.run_queue_
        /\ r.run_queue_low_priority_ = s.run_queue_low_priority_
        /\ r.yielding_tasks_ = s.yielding_tasks_
        /\ r.current = s.current /\ r.next = s.next
        /\ r.ok = s.ok /\ r.in_switchto = s.in_switchto
    BY <1>1 DEF Scheduler
  <1> HIDE DEF r
  <1>5. Sane(r)
    BY <1>3, <1>4 DEF Sane, QueuesOK, Exclusive
  <1>6. Where(r, t)
    BY <1>2, <1>4 DEF Where, Nowhere, Queued, Yielding
  <1>7. Touches(s, r, {t})
    BY <1>2, <1>4 DEF Touches, SameWhere, SameFlags, Queued, Yielding
  <1> QED BY <1>2, <1>4, <1>5, <1>6, <1>7 DEF r, f, Yielding

(* Yield puts a task in hand among the yielding ones.                      *)
LEMMA YieldPlaces ==
    ASSUME NEW s, NEW t \in Task, Sane(s), Nowhere(s, t),
           s.run_state[t] \in {"ON_CPU", "QUEUED", "BLOCKED"}
    PROVE  LET r == Yield(s, t)
           IN  /\ Sane(r) /\ Where(r, t) /\ Touches(s, r, {t})
               /\ r.run_state[t] = "YIELDING"
               /\ Yielding(r) = Yielding(s) \cup {t}
               /\ r.ok = s.ok /\ r.in_switchto = s.in_switchto
               /\ r.preempted = s.preempted /\ r.prio_boost = s.prio_boost
               /\ r.alive = s.alive /\ r.current = s.current /\ r.next = s.next
  <1> DEFINE f == [s.run_state EXCEPT ![t] = "YIELDING"]
             y == Append(s.yielding_tasks_, t)
             r == [s EXCEPT !.run_state = f, !.yielding_tasks_ = y]
  <1>1. s \in Scheduler
    BY DEF Sane
  <1>2. /\ f \in [Task -> RunState] /\ f[t] = "YIELDING"
        /\ \A u \in Task \ {t} : f[u] = s.run_state[u]
    BY <1>1 DEF Scheduler, RunState
  <1>3. /\ y \in Seq(Task) /\ Range(y) = Yielding(s) \cup {t} /\ IsInjective(y)
    <2>1. /\ s.yielding_tasks_ \in Seq(Task) /\ IsInjective(s.yielding_tasks_)
          /\ t \notin Range(s.yielding_tasks_)
      BY <1>1 DEF Scheduler, Sane, QueuesOK, Nowhere, Yielding
    <2> QED BY <2>1, AppendFacts DEF Yielding
  <1>4. Yield(s, t) = r
    <2>1. CHECK(s, s.run_state[t] \in {"ON_CPU", "QUEUED", "BLOCKED"}) = s
      BY <1>1, CheckFields, Zenon
    <2> QED BY <2>1, Zenon DEF Yield
  <1> HIDE DEF f, y
  <1>5. r \in Scheduler
    BY <1>1, <1>2, <1>3, Zenon DEF Scheduler
  <1>6. /\ r.alive = s.alive /\ r.run_state = f /\ r.cpu = s.cpu
        /\ r.prio_boost = s.prio_boost /\ r.preempted = s.preempted
        /\ r.run_queue_ = s.run_queue_
        /\ r.run_queue_low_priority_ = s.run_queue_low_priority_
        /\ r.yielding_tasks_ = y
        /\ r.current = s.current /\ r.next = s.next
        /\ r.ok = s.ok /\ r.in_switchto = s.in_switchto
    BY <1>1 DEF Scheduler
  <1> HIDE DEF r
  <1>7. Sane(r)
    BY <1>3, <1>5, <1>6 DEF Sane, QueuesOK, Exclusive
  <1>8. Where(r, t)
    BY <1>2, <1>3, <1>6 DEF Where, Nowhere, Queued, Yielding
  <1>9. Touches(s, r, {t})
    BY <1>2, <1>3, <1>6 DEF Touches, SameWhere, SameFlags, Queued, Yielding
  <1> QED BY <1>2, <1>3, <1>4, <1>6, <1>7, <1>8, <1>9 DEF Yielding

(* The task t is now the next of the idle CPU c.                           *)
Promised(s, r, c, t) ==
    /\ Sane(r) /\ Where(r, t) /\ Flags(r, t) /\ Touches(s, r, {t})
    /\ r.run_state[t] = "PENDING" /\ r.cpu[t] = c
    /\ ~r.preempted[t]
    /\ r.ok = s.ok /\ r.in_switchto = s.in_switchto
    /\ r.alive = s.alive /\ r.current = s.current
    /\ r.next[c] = t /\ \A d \in CPU \ {c} : r.next[d] = s.next[d]
    /\ Yielding(r) = Yielding(s)

(* Assign makes a task in hand the next of an idle CPU; a preempted task   *)
(* becomes a boosted one.                                                  *)
LEMMA AssignPlaces ==
    ASSUME NEW s, NEW t \in Task, NEW c \in CPU, Sane(s), Nowhere(s, t),
           s.current[c] = NoTask, s.next[c] = NoTask
    PROVE  Promised(s, Assign(s, c, t), c, t)
  <1> DEFINE f == [s.run_state EXCEPT ![t] = "PENDING"]
             g == [s.cpu EXCEPT ![t] = c]
             b == [s.prio_boost EXCEPT ![t] = s.prio_boost[t] \/ s.preempted[t]]
             p == [s.preempted EXCEPT ![t] = FALSE]
             n == [s.next EXCEPT ![c] = t]
             r == [s EXCEPT !.next = n, !.run_state = f, !.cpu = g,
                            !.prio_boost = b, !.preempted = p]
  <1>1. s \in Scheduler
    BY DEF Sane
  <1>2. /\ f \in [Task -> RunState] /\ f[t] = "PENDING"
        /\ \A u \in Task \ {t} : f[u] = s.run_state[u]
    BY <1>1 DEF Scheduler, RunState
  <1>3. /\ g \in [Task -> CPU \cup {NoCpu}] /\ g[t] = c
        /\ \A u \in Task \ {t} : g[u] = s.cpu[u]
    BY <1>1 DEF Scheduler
  <1>4. /\ b \in [Task -> BOOLEAN]
        /\ \A u \in Task \ {t} : b[u] = s.prio_boost[u]
    BY <1>1 DEF Scheduler
  <1>5. /\ p \in [Task -> BOOLEAN] /\ ~p[t]
        /\ \A u \in Task \ {t} : p[u] = s.preempted[u]
    BY <1>1 DEF Scheduler
  <1>6. /\ n \in [CPU -> Task \cup {NoTask}] /\ n[c] = t
        /\ \A d \in CPU \ {c} : n[d] = s.next[d]
    BY <1>1 DEF Scheduler
  <1>7. Assign(s, c, t) = r
    <2>1. CHECK(s, s.next[c] = NoTask /\ s.current[c] = NoTask) = s
      BY <1>1, CheckFields, Zenon
    <2> QED BY <2>1, Zenon DEF Assign
  <1> HIDE DEF f, g, b, p, n
  <1>8. r \in Scheduler
    BY <1>1, <1>2, <1>3, <1>4, <1>5, <1>6, Zenon DEF Scheduler
  <1>9. /\ r.alive = s.alive /\ r.run_state = f /\ r.cpu = g
        /\ r.prio_boost = b /\ r.preempted = p
        /\ r.run_queue_ = s.run_queue_
        /\ r.run_queue_low_priority_ = s.run_queue_low_priority_
        /\ r.yielding_tasks_ = s.yielding_tasks_
        /\ r.current = s.current /\ r.next = n
        /\ r.ok = s.ok /\ r.in_switchto = s.in_switchto
    BY <1>1 DEF Scheduler
  <1> HIDE DEF r
  <1>10. Sane(r)
    BY <1>6, <1>8, <1>9 DEF Sane, QueuesOK, Exclusive
  <1>11. Where(r, t) /\ Flags(r, t)
    BY <1>2, <1>3, <1>5, <1>6, <1>9 DEF Where, Nowhere, Queued, Yielding, Flags
  <1>12. Touches(s, r, {t})
    <2> SUFFICES ASSUME NEW u \in Task \ {t}
                 PROVE  SameWhere(s, r, u) /\ SameFlags(s, r, u)
      BY DEF Touches
    <2>1. \A d \in CPU : n[d] = u <=> s.next[d] = u
      BY <1>6, SchedulerAssumption
    <2> QED BY <1>2, <1>3, <1>4, <1>5, <1>9, <2>1 DEF SameWhere, SameFlags, Queued, Yielding
  <1>13. Promised(s, r, c, t)
    BY <1>2, <1>3, <1>5, <1>6, <1>9, <1>10, <1>11, <1>12 DEF Promised, Yielding
  <1> QED BY <1>7, <1>13

(* A task taken off its CPU is in hand.                                    *)
LEMMA TakeOffPlaces ==
    ASSUME NEW s, NEW t \in Task, NEW c \in CPU, Sane(s), Where(s, t),
           s.run_state[t] = "ON_CPU", s.cpu[t] = c
    PROVE  LET r == [s EXCEPT !.current[c] = NoTask]
           IN  /\ Sane(r) /\ Nowhere(r, t) /\ Touches(s, r, {t})
               /\ r.run_state = s.run_state
               /\ Yielding(r) = Yielding(s)
               /\ r.ok = s.ok /\ r.in_switchto = s.in_switchto
               /\ r.preempted = s.preempted /\ r.prio_boost = s.prio_boost
               /\ r.alive = s.alive /\ r.next = s.next /\ r.cpu = s.cpu
               /\ r.current[c] = NoTask /\ \A d \in CPU \ {c} : r.current[d] = s.current[d]
  <1> DEFINE n == [s.current EXCEPT ![c] = NoTask]
             r == [s EXCEPT !.current = n]
  <1>1. s \in Scheduler
    BY DEF Sane
  <1>2. /\ n \in [CPU -> Task \cup {NoTask}] /\ n[c] = NoTask
        /\ \A d \in CPU \ {c} : n[d] = s.current[d]
    BY <1>1 DEF Scheduler
  <1> HIDE DEF n
  <1>3. r \in Scheduler
    BY <1>1, <1>2, Zenon DEF Scheduler
  <1>4. /\ r.alive = s.alive /\ r.run_state = s.run_state /\ r.cpu = s.cpu
        /\ r.prio_boost = s.prio_boost /\ r.preempted = s.preempted
        /\ r.run_queue_ = s.run_queue_
        /\ r.run_queue_low_priority_ = s.run_queue_low_priority_
        /\ r.yielding_tasks_ = s.yielding_tasks_
        /\ r.current = n /\ r.next = s.next
        /\ r.ok = s.ok /\ r.in_switchto = s.in_switchto
    BY <1>1 DEF Scheduler
  <1> HIDE DEF r
  <1>5. Sane(r)
    BY <1>2, <1>3, <1>4 DEF Sane, QueuesOK, Exclusive
  <1>6. Nowhere(r, t)
    BY <1>2, <1>4, SchedulerAssumption DEF Where, Nowhere, Queued, Yielding
  <1>7. Touches(s, r, {t})
    <2> SUFFICES ASSUME NEW u \in Task \ {t}
                 PROVE  SameWhere(s, r, u) /\ SameFlags(s, r, u)
      BY DEF Touches
    <2>1. \A d \in CPU : n[d] = u <=> s.current[d] = u
      BY <1>2, SchedulerAssumption DEF Where
    <2> QED BY <1>4, <2>1 DEF SameWhere, SameFlags, Queued, Yielding
  <1> QED BY <1>2, <1>4, <1>5, <1>6, <1>7 DEF r, n, Yielding

(* The pending task t of CPU c becomes its current task.                   *)
Landed(s, r, c, t) ==
    /\ Sane(r) /\ Where(r, t) /\ Touches(s, r, {t})
    /\ r.run_state[t] = "ON_CPU" /\ r.cpu[t] = c
    /\ Unboosted(r, t)
    /\ r.preempted = s.preempted
    /\ Yielding(r) = Yielding(s)
    /\ r.ok = s.ok /\ r.in_switchto = s.in_switchto
    /\ r.alive = s.alive
    /\ r.current[c] = t /\ \A d \in CPU \ {c} : r.current[d] = s.current[d]
    /\ r.next[c] = NoTask /\ \A d \in CPU \ {c} : r.next[d] = s.next[d]

(* SyncCpuState when the transaction of the pending task has completed.    *)
LEMMA SyncCompletes ==
    ASSUME NEW s, NEW txn, NEW c \in CPU, NEW t \in Task, Sane(s),
           s.next[c] = t, Where(s, t), txn[c] = "complete"
    PROVE  Landed(s, SyncCpuState(s, txn, c), c, t)
  <1> DEFINE f == [s.run_state EXCEPT ![t] = "ON_CPU"]
             g == [s.cpu EXCEPT ![t] = c]
             b == [s.prio_boost EXCEPT ![t] = FALSE]
             m == [s.current EXCEPT ![c] = t]
             n == [s.next EXCEPT ![c] = NoTask]
             r == [s EXCEPT !.next = n, !.current = m, !.run_state = f,
                            !.prio_boost = b, !.cpu = g]
  <1>1. s \in Scheduler /\ t \in Task
    BY DEF Sane, Scheduler
  <1>0. s.run_state[t] = "PENDING" /\ s.cpu[t] = c
    BY DEF Where
  <1>2. /\ f \in [Task -> RunState] /\ f[t] = "ON_CPU"
        /\ \A u \in Task \ {t} : f[u] = s.run_state[u]
    BY <1>1 DEF Scheduler, RunState
  <1>3. /\ g \in [Task -> CPU \cup {NoCpu}] /\ g[t] = c
        /\ \A u \in Task \ {t} : g[u] = s.cpu[u]
    BY <1>1 DEF Scheduler
  <1>4. /\ b \in [Task -> BOOLEAN] /\ ~b[t]
        /\ \A u \in Task \ {t} : b[u] = s.prio_boost[u]
    BY <1>1 DEF Scheduler
  <1>5. /\ m \in [CPU -> Task \cup {NoTask}] /\ m[c] = t
        /\ \A d \in CPU \ {c} : m[d] = s.current[d]
    BY <1>1 DEF Scheduler
  <1>6. /\ n \in [CPU -> Task \cup {NoTask}] /\ n[c] = NoTask
        /\ \A d \in CPU \ {c} : n[d] = s.next[d]
    BY <1>1 DEF Scheduler
  <1>7. SyncCpuState(s, txn, c) = r
    <2>1. CHECK(s, s.run_state[t] # "QUEUED" /\ committed(txn, c)) = s
      BY <1>0, <1>1, CheckFields, Zenon DEF committed
    <2> QED BY <1>1, <2>1, SchedulerAssumption, Zenon DEF SyncCpuState, Scheduler
  <1> HIDE DEF f, g, b, m, n
  <1>8. r \in Scheduler
    BY <1>1, <1>2, <1>3, <1>4, <1>5, <1>6, Zenon DEF Scheduler
  <1>9. /\ r.alive = s.alive /\ r.run_state = f /\ r.cpu = g
        /\ r.prio_boost = b /\ r.preempted = s.preempted
        /\ r.run_queue_ = s.run_queue_
        /\ r.run_queue_low_priority_ = s.run_queue_low_priority_
        /\ r.yielding_tasks_ = s.yielding_tasks_
        /\ r.current = m /\ r.next = n
        /\ r.ok = s.ok /\ r.in_switchto = s.in_switchto
    BY <1>1 DEF Scheduler
  <1>10. /\ t \notin Queued(s) /\ t \notin Yielding(s) /\ t \in s.alive
         /\ \A d \in CPU : s.current[d] # t
         /\ \A d \in CPU \ {c} : s.next[d] # t
    BY <1>0 DEF Where
  <1>11. s.next[c] = t /\ s.current[c] = NoTask /\ t # NoTask
    BY <1>1, SchedulerAssumption DEF Sane, Exclusive
  <1> HIDE DEF r
  <1>12. Sane(r)
    BY <1>5, <1>6, <1>8, <1>9 DEF Sane, QueuesOK, Exclusive
  <1>13. Where(r, t)
    BY <1>2, <1>3, <1>5, <1>6, <1>9, <1>10, <1>11 DEF Where, Queued, Yielding
  <1>14. Touches(s, r, {t})
    <2> SUFFICES ASSUME NEW u \in Task \ {t}
                 PROVE  SameWhere(s, r, u) /\ SameFlags(s, r, u)
      BY DEF Touches
    <2>1. \A d \in CPU : n[d] = u <=> s.next[d] = u
      BY <1>6, <1>11, SchedulerAssumption
    <2>2. \A d \in CPU : m[d] = u <=> s.current[d] = u
      BY <1>5, <1>11, SchedulerAssumption
    <2> QED BY <1>2, <1>3, <1>4, <1>9, <2>1, <2>2 DEF SameWhere, SameFlags, Queued, Yielding
  <1>15. Landed(s, r, c, t)
    BY <1>2, <1>3, <1>4, <1>5, <1>6, <1>9, <1>12, <1>13, <1>14 DEF Landed, Yielding, Unboosted
  <1> QED BY <1>7, <1>15

(* The pending task t of CPU c goes back to its run queue.                 *)
Bounced(s, r, c, t) ==
    /\ Sane(r) /\ Where(r, t) /\ Touches(s, r, {t})
    /\ r.run_state[t] = "QUEUED"
    /\ r.prio_boost = s.prio_boost /\ r.preempted = s.preempted
    /\ Yielding(r) = Yielding(s)
    /\ r.ok = s.ok /\ r.in_switchto = s.in_switchto
    /\ r.alive = s.alive
    /\ r.current = s.current
    /\ r.next[c] = NoTask /\ \A d \in CPU \ {c} : r.next[d] = s.next[d]

(* SyncCpuState when the transaction of the pending task has failed.       *)
LEMMA SyncFails ==
    ASSUME NEW s, NEW txn, NEW c \in CPU, NEW t \in Task, Sane(s),
           s.next[c] = t, Where(s, t), committed(txn, c), txn[c] # "complete"
    PROVE  Bounced(s, SyncCpuState(s, txn, c), c, t)
  <1> DEFINE g == [s.cpu EXCEPT ![t] = NoCpu]
             n == [s.next EXCEPT ![c] = NoTask]
             q == [s EXCEPT !.next = n, !.cpu = g]
             r == Enqueue(q, t)
  <1>1. s \in Scheduler /\ t \in Task
    BY DEF Sane, Scheduler
  <1>0. s.run_state[t] = "PENDING" /\ s.cpu[t] = c
    BY DEF Where
  <1>3. /\ g \in [Task -> CPU \cup {NoCpu}]
        /\ \A u \in Task \ {t} : g[u] = s.cpu[u]
    BY <1>1 DEF Scheduler
  <1>6. /\ n \in [CPU -> Task \cup {NoTask}] /\ n[c] = NoTask
        /\ \A d \in CPU \ {c} : n[d] = s.next[d]
    BY <1>1 DEF Scheduler
  <1>7. SyncCpuState(s, txn, c) = r
    <2>1. CHECK(s, s.run_state[t] # "QUEUED" /\ committed(txn, c)) = s
      <3>1. (s.run_state[t] # "QUEUED" /\ committed(txn, c)) = TRUE
        BY <1>0
      <3> QED BY <1>1, <3>1, CheckFields, Zenon
    <2> QED BY <1>1, <2>1, SchedulerAssumption, Zenon DEF SyncCpuState, Scheduler
  <1> HIDE DEF g, n
  <1>8. q \in Scheduler
    BY <1>1, <1>3, <1>6, Zenon DEF Scheduler
  <1>9. /\ q.alive = s.alive /\ q.run_state = s.run_state /\ q.cpu = g
        /\ q.prio_boost = s.prio_boost /\ q.preempted = s.preempted
        /\ q.run_queue_ = s.run_queue_
        /\ q.run_queue_low_priority_ = s.run_queue_low_priority_
        /\ q.yielding_tasks_ = s.yielding_tasks_
        /\ q.current = s.current /\ q.next = n
        /\ q.ok = s.ok /\ q.in_switchto = s.in_switchto
    BY <1>1 DEF Scheduler
  <1>10. /\ t \notin Queued(s) /\ t \notin Yielding(s) /\ t \in s.alive
         /\ \A d \in CPU : s.current[d] # t
         /\ \A d \in CPU \ {c} : s.next[d] # t
    BY <1>0 DEF Where
  <1>11. s.next[c] = t /\ t # NoTask
    BY <1>1, SchedulerAssumption
  <1> HIDE DEF q
  <1>12. Sane(q)
    BY <1>6, <1>8, <1>9 DEF Sane, QueuesOK, Exclusive
  <1>13. Nowhere(q, t)
    BY <1>6, <1>9, <1>10, <1>11 DEF Nowhere, Queued, Yielding
  <1>14. Touches(s, q, {t})
    <2> SUFFICES ASSUME NEW u \in Task \ {t}
                 PROVE  SameWhere(s, q, u) /\ SameFlags(s, q, u)
      BY DEF Touches
    <2>1. \A d \in CPU : n[d] = u <=> s.next[d] = u
      BY <1>6, <1>11, SchedulerAssumption
    <2> QED BY <1>3, <1>9, <2>1 DEF SameWhere, SameFlags, Queued, Yielding
  <1>15. /\ Sane(r) /\ Where(r, t) /\ Touches(q, r, {t}) /\ r.run_state[t] = "QUEUED"
    BY <1>1, <1>12, <1>13, EnqueuePlaces
  <1>16. /\ r.prio_boost = q.prio_boost /\ r.preempted = q.preempted
         /\ r.yielding_tasks_ = q.yielding_tasks_ /\ r.ok = q.ok
         /\ r.in_switchto = q.in_switchto /\ r.alive = q.alive
         /\ r.current = q.current /\ r.next = q.next
    BY <1>1, <1>8, EnqueueFields, Zenon
  <1>17. Touches(s, r, {t})
    BY <1>14, <1>15, TouchesChain
  <1>18. Bounced(s, r, c, t)
    <2> HIDE DEF r
    <2> QED BY <1>6, <1>9, <1>15, <1>16, <1>17 DEF Bounced, Yielding
  <1> QED BY <1>7, <1>18

(* LeaveCpu takes a task that is on a CPU, or that is about to be and      *)
(* whose transaction has completed, off that CPU.                          *)
LEMMA LeaveCpuPlaces ==
    ASSUME NEW s, NEW txn, NEW t \in Task, Sane(s), Where(s, t), Assigned(s, t),
           s.run_state[t] = "PENDING" => txn[s.cpu[t]] = "complete"
    PROVE  LET r == LeaveCpu(s, txn, t)
           IN  /\ Sane(r) /\ Nowhere(r, t) /\ Touches(s, r, {t})
               /\ r.run_state[t] = "ON_CPU"
               /\ Yielding(r) = Yielding(s)
               /\ r.ok = s.ok /\ r.in_switchto = s.in_switchto
               /\ r.preempted = s.preempted
               /\ Unboosted(s, t) => Unboosted(r, t)
               /\ r.alive = s.alive
  <1>0. PICK c \in CPU : s.cpu[t] = c
    BY DEF Where, Assigned
  <1>1. s \in Scheduler /\ s.cpu[t] = c /\ c # NoCpu /\ t # NoTask
    BY <1>0, SchedulerAssumption DEF Sane, Where, Assigned, CPU, NoCpu
  <1>2. CASE s.run_state[t] = "ON_CPU"
    <2>1. s.current[c] = t
      BY <1>1, <1>2 DEF Where
    <2>2. LeaveCpu(s, txn, t) = [s EXCEPT !.current[c] = NoTask]
      BY <1>1, <1>2, <2>1 DEF LeaveCpu, cpu_state_of
    <2> QED BY <1>1, <1>2, <2>2, TakeOffPlaces DEF Unboosted
  <1>3. CASE s.run_state[t] = "PENDING"
    <2> DEFINE q == SyncCpuState(s, txn, c)
               p == s.next[c] = t /\ s.current[c] = NoTask /\ TxnCompleted(s, txn, c)
    <2>1. s.next[c] = t /\ s.current[c] = NoTask /\ txn[c] = "complete"
      BY <1>1, <1>3 DEF Where, Sane, Exclusive
    <2>2. p = TRUE
      BY <2>1 DEF TxnCompleted
    <2>3. CHECK(s, p) = s
      BY <1>1, <2>2, CheckFields, Zenon
    <2>4. LeaveCpu(s, txn, t) = [q EXCEPT !.current[c] = NoTask]
      BY <1>1, <1>3, <2>1, <2>3, Zenon DEF LeaveCpu, cpu_state_of
    <2>5. /\ Sane(q) /\ Where(q, t) /\ Touches(s, q, {t})
          /\ q.run_state[t] = "ON_CPU" /\ q.cpu[t] = c
          /\ Unboosted(q, t)
          /\ q.preempted = s.preempted
          /\ Yielding(q) = Yielding(s)
          /\ q.ok = s.ok /\ q.in_switchto = s.in_switchto
          /\ q.alive = s.alive
      BY <1>1, <2>1, SyncCompletes DEF Landed
    <2> HIDE DEF q
    <2> DEFINE r == [q EXCEPT !.current[c] = NoTask]
    <2>7. /\ Sane(r) /\ Nowhere(r, t) /\ Touches(q, r, {t})
          /\ r.run_state = q.run_state
          /\ Yielding(r) = Yielding(q)
          /\ r.ok = q.ok /\ r.in_switchto = q.in_switchto
          /\ r.preempted = q.preempted /\ r.prio_boost = q.prio_boost
          /\ r.alive = q.alive
      BY <1>1, <2>5, TakeOffPlaces
    <2> HIDE DEF r
    <2>8. Touches(s, r, {t})
      BY <2>5, <2>7, TouchesChain
    <2> QED BY <2>4, <2>5, <2>7, <2>8 DEF q, r, Unboosted
  <1> QED BY <1>2, <1>3 DEF Assigned

(* RemoveFromRunqueue takes a QUEUED task out of its run queue.            *)
LEMMA RemovePlaces ==
    ASSUME NEW s, NEW t \in Task, Sane(s), Where(s, t), s.run_state[t] = "QUEUED"
    PROVE  LET r == RemoveFromRunqueue(s, t, "BLOCKED")
           IN  /\ Sane(r) /\ Where(r, t) /\ Touches(s, r, {t})
               /\ r.run_state[t] = "BLOCKED"
               /\ Yielding(r) = Yielding(s)
               /\ r.ok = s.ok /\ r.in_switchto = s.in_switchto
               /\ r.preempted = s.preempted /\ r.prio_boost = s.prio_boost
               /\ r.alive = s.alive
  <1> DEFINE f == [s.run_state EXCEPT ![t] = "BLOCKED"]
             a == Erase(s.run_queue_, t)
             b == Erase(s.run_queue_low_priority_, t)
             hi == [s EXCEPT !.run_state = f, !.run_queue_ = a]
             lo == [s EXCEPT !.run_state = f, !.run_queue_low_priority_ = b]
             r == RemoveFromRunqueue(s, t, "BLOCKED")
  <1>1. /\ s \in Scheduler
        /\ s.run_queue_ \in Seq(Task) /\ IsInjective(s.run_queue_)
        /\ s.run_queue_low_priority_ \in Seq(Task) /\ IsInjective(s.run_queue_low_priority_)
        /\ Range(s.run_queue_) \cap Range(s.run_queue_low_priority_) = {}
    BY DEF Sane, QueuesOK, Scheduler
  <1>2. /\ f \in [Task -> RunState] /\ f[t] = "BLOCKED"
        /\ \A u \in Task \ {t} : f[u] = s.run_state[u]
    BY <1>1 DEF Scheduler, RunState
  <1>4. CHECK(s, s.run_state[t] = "QUEUED") = s
    BY <1>1, CheckFields, Zenon
  <1>5. CASE t \in Range(s.run_queue_)
    <2>1. r = hi
      BY <1>4, <1>5, Zenon DEF RemoveFromRunqueue
    <2>2. a \in Seq(Task) /\ IsInjective(a) /\ Range(a) = Range(s.run_queue_) \ {t}
      BY <1>1, <1>5, EraseFacts
    <2> HIDE DEF a, b, f
    <2>3. hi \in Scheduler
      BY <1>1, <1>2, <2>2, Zenon DEF Scheduler
    <2>4. /\ hi.alive = s.alive /\ hi.run_state = f /\ hi.cpu = s.cpu
          /\ hi.prio_boost = s.prio_boost /\ hi.preempted = s.preempted
          /\ hi.run_queue_ = a
          /\ hi.run_queue_low_priority_ = s.run_queue_low_priority_
          /\ hi.yielding_tasks_ = s.yielding_tasks_
          /\ hi.current = s.current /\ hi.next = s.next
          /\ hi.ok = s.ok /\ hi.in_switchto = s.in_switchto
      BY <1>1 DEF Scheduler
    <2> HIDE DEF hi
    <2>5. Sane(hi)
      BY <1>1, <2>2, <2>3, <2>4 DEF Sane, QueuesOK, Exclusive
    <2>6. Where(hi, t)
      BY <1>1, <1>2, <1>5, <2>2, <2>4 DEF Where, Queued, Yielding
    <2>7. Touches(s, hi, {t})
      BY <1>2, <2>2, <2>4 DEF Touches, SameWhere, SameFlags, Queued, Yielding
    <2> HIDE DEF r
    <2>8. /\ Sane(r) /\ Where(r, t) /\ Touches(s, r, {t})
          /\ r.run_state[t] = "BLOCKED"
          /\ Yielding(r) = Yielding(s)
          /\ r.ok = s.ok /\ r.in_switchto = s.in_switchto
          /\ r.preempted = s.preempted /\ r.prio_boost = s.prio_boost
          /\ r.alive = s.alive
      BY <1>2, <2>1, <2>4, <2>5, <2>6, <2>7 DEF Yielding
    <2> QED BY <2>8 DEF r
  <1>6. CASE t \notin Range(s.run_queue_)
    <2>0. t \in Range(s.run_queue_low_priority_)
      BY <1>6 DEF Where, Queued
    <2>1. r = lo
      <3> DEFINE q == [s EXCEPT !.run_state = f]
      <3>1. q \in Scheduler
        BY <1>1, <1>2, Zenon DEF Scheduler
      <3>2. CHECK(q, t \in Range(s.run_queue_low_priority_)) = q
        BY <2>0, <3>1, CheckFields, Zenon
      <3> QED BY <1>4, <1>6, <3>2, Zenon DEF RemoveFromRunqueue
    <2>2. b \in Seq(Task) /\ IsInjective(b) /\ Range(b) = Range(s.run_queue_low_priority_) \ {t}
      BY <1>1, <2>0, EraseFacts
    <2> HIDE DEF a, b, f
    <2>3. lo \in Scheduler
      BY <1>1, <1>2, <2>2, Zenon DEF Scheduler
    <2>4. /\ lo.alive = s.alive /\ lo.run_state = f /\ lo.cpu = s.cpu
          /\ lo.prio_boost = s.prio_boost /\ lo.preempted = s.preempted
          /\ lo.run_queue_ = s.run_queue_
          /\ lo.run_queue_low_priority_ = b
          /\ lo.yielding_tasks_ = s.yielding_tasks_
          /\ lo.current = s.current /\ lo.next = s.next
          /\ lo.ok = s.ok /\ lo.in_switchto = s.in_switchto
      BY <1>1 DEF Scheduler
    <2> HIDE DEF lo
    <2>5. Sane(lo)
      BY <1>1, <2>2, <2>3, <2>4 DEF Sane, QueuesOK, Exclusive
    <2>6. Where(lo, t)
      BY <1>1, <1>2, <1>6, <2>2, <2>4 DEF Where, Queued, Yielding
    <2>7. Touches(s, lo, {t})
      BY <1>2, <2>2, <2>4 DEF Touches, SameWhere, SameFlags, Queued, Yielding
    <2> HIDE DEF r
    <2>8. /\ Sane(r) /\ Where(r, t) /\ Touches(s, r, {t})
          /\ r.run_state[t] = "BLOCKED"
          /\ Yielding(r) = Yielding(s)
          /\ r.ok = s.ok /\ r.in_switchto = s.in_switchto
          /\ r.preempted = s.preempted /\ r.prio_boost = s.prio_boost
          /\ r.alive = s.alive
      BY <1>2, <2>1, <2>4, <2>5, <2>6, <2>7 DEF Yielding
    <2> QED BY <2>8 DEF r
  <1> QED BY <1>5, <1>6

(* Dequeue takes a QUEUED task out of its run queue.                       *)
LEMMA DequeuePlaces ==
    ASSUME NEW s, Placed(s), ~QueuesEmpty(s)
    PROVE  LET t == Dequeued(s)
               r == Dequeue(s)
           IN  /\ t \in Task /\ s.run_state[t] = "QUEUED" /\ t \in s.alive
               /\ Sane(r) /\ Nowhere(r, t) /\ Touches(s, r, {t})
               /\ r.run_state = s.run_state /\ r.cpu = s.cpu
               /\ Yielding(r) = Yielding(s)
               /\ r.ok = s.ok /\ r.in_switchto = s.in_switchto
               /\ r.preempted = s.preempted /\ r.prio_boost = s.prio_boost
               /\ r.alive = s.alive /\ r.current = s.current /\ r.next = s.next
  <1> DEFINE hi == s.run_queue_
             lo == s.run_queue_low_priority_
             t == Dequeued(s)
             r == Dequeue(s)
  <1>1. /\ s \in Scheduler
        /\ hi \in Seq(Task) /\ IsInjective(hi)
        /\ lo \in Seq(Task) /\ IsInjective(lo)
        /\ Range(hi) \cap Range(lo) = {}
    BY DEF Placed, Sane, QueuesOK, Scheduler
  <1>2. /\ t \in Queued(s) /\ t \in Task
        /\ r \in Scheduler
        /\ r.run_queue_ \in Seq(Task) /\ r.run_queue_low_priority_ \in Seq(Task)
        /\ IsInjective(r.run_queue_) /\ IsInjective(r.run_queue_low_priority_)
        /\ Range(r.run_queue_) \cap Range(r.run_queue_low_priority_) = {}
        /\ Queued(r) = Queued(s) \ {t}
        /\ r.alive = s.alive /\ r.run_state = s.run_state /\ r.cpu = s.cpu
        /\ r.prio_boost = s.prio_boost /\ r.preempted = s.preempted
        /\ r.yielding_tasks_ = s.yielding_tasks_
        /\ r.current = s.current /\ r.next = s.next
        /\ r.ok = s.ok /\ r.in_switchto = s.in_switchto
    <2>1. CASE hi # << >>
      <3> DEFINE q == Tail(hi)
      <3>1. t = Head(hi) /\ r = [s EXCEPT !.run_queue_ = q]
        BY <2>1 DEF Dequeued, Dequeue
      <3>2. /\ Head(hi) \in Range(hi) /\ Head(hi) \in Task
            /\ q \in Seq(Task) /\ IsInjective(q) /\ Range(q) = Range(hi) \ {Head(hi)}
        BY <1>1, <2>1, TailFacts
      <3> HIDE DEF q, t, r
      <3>3. r \in Scheduler
        BY <1>1, <3>1, <3>2, Zenon DEF Scheduler
      <3>4. /\ r.alive = s.alive /\ r.run_state = s.run_state /\ r.cpu = s.cpu
            /\ r.prio_boost = s.prio_boost /\ r.preempted = s.preempted
            /\ r.run_queue_ = q /\ r.run_queue_low_priority_ = lo
            /\ r.yielding_tasks_ = s.yielding_tasks_
            /\ r.current = s.current /\ r.next = s.next
            /\ r.ok = s.ok /\ r.in_switchto = s.in_switchto
        BY <1>1, <3>1 DEF Scheduler
      <3> QED BY <1>1, <3>1, <3>2, <3>3, <3>4 DEF Queued
    <2>2. CASE hi = << >>
      <3> DEFINE q == Tail(lo)
      <3>0. lo # << >>
        BY <2>2 DEF QueuesEmpty
      <3>1. t = Head(lo) /\ r = [s EXCEPT !.run_queue_low_priority_ = q]
        BY <2>2 DEF Dequeued, Dequeue
      <3>2. /\ Head(lo) \in Range(lo) /\ Head(lo) \in Task
            /\ q \in Seq(Task) /\ IsInjective(q) /\ Range(q) = Range(lo) \ {Head(lo)}
        BY <1>1, <3>0, TailFacts
      <3> HIDE DEF q, t, r
      <3>3. r \in Scheduler
        BY <1>1, <3>1, <3>2, Zenon DEF Scheduler
      <3>4. /\ r.alive = s.alive /\ r.run_state = s.run_state /\ r.cpu = s.cpu
            /\ r.prio_boost = s.prio_boost /\ r.preempted = s.preempted
            /\ r.run_queue_ = hi /\ r.run_queue_low_priority_ = q
            /\ r.yielding_tasks_ = s.yielding_tasks_
            /\ r.current = s.current /\ r.next = s.next
            /\ r.ok = s.ok /\ r.in_switchto = s.in_switchto
        BY <1>1, <3>1 DEF Scheduler
      <3> QED BY <1>1, <3>1, <3>2, <3>3, <3>4 DEF Queued
    <2> QED BY <2>1, <2>2
  <1> HIDE DEF t, r
  <1>3. Where(s, t) /\ s.run_state[t] = "QUEUED" /\ t \in s.alive
    BY <1>2 DEF Placed, Where
  <1>4. Sane(r)
    BY <1>2 DEF Placed, Sane, QueuesOK, Exclusive
  <1>5. Nowhere(r, t)
    BY <1>2, <1>3 DEF Where, Nowhere, Yielding
  <1>6. Touches(s, r, {t})
    BY <1>2 DEF Touches, SameWhere, SameFlags, Yielding
  <1> QED BY <1>2, <1>3, <1>4, <1>5, <1>6 DEF t, r, Yielding

(* Changing prio_boost and preempted of a task leaves it where it is.      *)
LEMMA FlagPlaces ==
    ASSUME NEW s, NEW t \in Task, NEW p \in BOOLEAN, NEW b \in BOOLEAN, Sane(s)
    PROVE  LET r == [s EXCEPT !.preempted[t] = p, !.prio_boost[t] = b]
           IN  /\ Sane(r) /\ SameWhere(s, r, t) /\ Touches(s, r, {t})
               /\ r.run_state = s.run_state /\ r.cpu = s.cpu
               /\ Yielding(r) = Yielding(s)
               /\ r.ok = s.ok /\ r.in_switchto = s.in_switchto
               /\ Preempted(r, t, p) /\ Boost(r, t, b)
               /\ r.alive = s.alive /\ r.current = s.current /\ r.next = s.next
  <1> DEFINE f == [s.preempted EXCEPT ![t] = p]
             g == [s.prio_boost EXCEPT ![t] = b]
             r == [s EXCEPT !.preempted = f, !.prio_boost = g]
  <1>1. s \in Scheduler
    BY DEF Sane
  <1>2. /\ f \in [Task -> BOOLEAN] /\ f[t] = p
        /\ \A u \in Task \ {t} : f[u] = s.preempted[u]
    BY <1>1 DEF Scheduler
  <1>3. /\ g \in [Task -> BOOLEAN] /\ g[t] = b
        /\ \A u \in Task \ {t} : g[u] = s.prio_boost[u]
    BY <1>1 DEF Scheduler
  <1> HIDE DEF f, g
  <1>4. r \in Scheduler
    BY <1>1, <1>2, <1>3, Zenon DEF Scheduler
  <1>5. /\ r.alive = s.alive /\ r.run_state = s.run_state /\ r.cpu = s.cpu
        /\ r.prio_boost = g /\ r.preempted = f
        /\ r.run_queue_ = s.run_queue_
        /\ r.run_queue_low_priority_ = s.run_queue_low_priority_
        /\ r.yielding_tasks_ = s.yielding_tasks_
        /\ r.current = s.current /\ r.next = s.next
        /\ r.ok = s.ok /\ r.in_switchto = s.in_switchto
    BY <1>1 DEF Scheduler
  <1> HIDE DEF r
  <1>6. Sane(r)
    BY <1>4, <1>5 DEF Sane, QueuesOK, Exclusive
  <1>7. \A u \in Task : SameWhere(s, r, u)
    BY <1>5 DEF SameWhere, Queued, Yielding
  <1>8. Touches(s, r, {t})
    BY <1>2, <1>3, <1>5, <1>7 DEF Touches, SameFlags
  <1> QED BY <1>2, <1>3, <1>5, <1>6, <1>7, <1>8 DEF f, g, r, Yielding, Boost, Preempted

(* The boost of t is now b, and no task has moved.                         *)
Boosted(s, r, t, b) ==
    /\ Sane(r) /\ SameWhere(s, r, t) /\ Touches(s, r, {t})
    /\ r.run_state = s.run_state /\ r.cpu = s.cpu
    /\ Yielding(r) = Yielding(s)
    /\ r.ok = s.ok /\ r.in_switchto = s.in_switchto
    /\ r.preempted = s.preempted /\ Boost(r, t, b)
    /\ r.alive = s.alive /\ r.current = s.current /\ r.next = s.next

(* A new boost alone.                                                      *)
LEMMA BoostPlaces ==
    ASSUME NEW s, NEW t \in Task, NEW b \in BOOLEAN, Sane(s)
    PROVE  Boosted(s, [s EXCEPT !.prio_boost[t] = b], t, b)
  <1> DEFINE g == [s.prio_boost EXCEPT ![t] = b]
             r == [s EXCEPT !.prio_boost = g]
  <1>1. s \in Scheduler
    BY DEF Sane
  <1>3. /\ g \in [Task -> BOOLEAN] /\ g[t] = b
        /\ \A u \in Task \ {t} : g[u] = s.prio_boost[u]
    BY <1>1 DEF Scheduler
  <1> HIDE DEF g
  <1>4. r \in Scheduler
    BY <1>1, <1>3, Zenon DEF Scheduler
  <1>5. /\ r.alive = s.alive /\ r.run_state = s.run_state /\ r.cpu = s.cpu
        /\ r.prio_boost = g /\ r.preempted = s.preempted
        /\ r.run_queue_ = s.run_queue_
        /\ r.run_queue_low_priority_ = s.run_queue_low_priority_
        /\ r.yielding_tasks_ = s.yielding_tasks_
        /\ r.current = s.current /\ r.next = s.next
        /\ r.ok = s.ok /\ r.in_switchto = s.in_switchto
    BY <1>1 DEF Scheduler
  <1> HIDE DEF r
  <1>6. Sane(r)
    BY <1>4, <1>5 DEF Sane, QueuesOK, Exclusive
  <1>7. \A u \in Task : SameWhere(s, r, u)
    BY <1>5 DEF SameWhere, Queued, Yielding
  <1>8. Touches(s, r, {t})
    BY <1>3, <1>5, <1>7 DEF Touches, SameFlags
  <1>9. Boosted(s, r, t, b)
    BY <1>3, <1>5, <1>6, <1>7, <1>8 DEF Boosted, Yielding, Boost
  <1> QED BY <1>9 DEF g, r

(* The handlers of messages about a task that stops clear its boost.      *)
LEMMA UnboostPlaces ==
    ASSUME NEW s, NEW t \in Task, Sane(s)
    PROVE  LET r == [s EXCEPT !.prio_boost[t] = FALSE]
           IN  /\ Sane(r) /\ SameWhere(s, r, t) /\ Touches(s, r, {t})
               /\ r.run_state = s.run_state /\ r.cpu = s.cpu
               /\ Yielding(r) = Yielding(s)
               /\ r.ok = s.ok /\ r.in_switchto = s.in_switchto
               /\ r.preempted = s.preempted /\ Unboosted(r, t)
               /\ r.alive = s.alive /\ r.current = s.current /\ r.next = s.next
  <1> DEFINE r == [s EXCEPT !.prio_boost[t] = FALSE]
  <1>1. /\ Sane(r) /\ SameWhere(s, r, t) /\ Touches(s, r, {t})
        /\ r.run_state = s.run_state /\ r.cpu = s.cpu
        /\ Yielding(r) = Yielding(s)
        /\ r.ok = s.ok /\ r.in_switchto = s.in_switchto
        /\ r.preempted = s.preempted /\ Boost(r, t, FALSE)
        /\ r.alive = s.alive /\ r.current = s.current /\ r.next = s.next
    BY BoostPlaces, Zenon DEF Boosted
  <1> HIDE DEF r
  <1>2. Unboosted(r, t)
    BY <1>1 DEF Boost, Unboosted
  <1> QED BY <1>1, <1>2 DEF r

(* CpuEnteringSwitchto and CpuLeavingSwitchto touch no task.               *)
LEMMA SwitchPlaces ==
    ASSUME NEW s, NEW c \in CPU, NEW v \in BOOLEAN, Sane(s)
    PROVE  LET r == [s EXCEPT !.in_switchto[c] = v]
           IN  /\ Sane(r) /\ Touches(s, r, {}) /\ Switches(s, r, c, v)
               /\ Yielding(r) = Yielding(s)
               /\ r.ok = s.ok /\ r.alive = s.alive
               /\ r.preempted = s.preempted /\ r.prio_boost = s.prio_boost
               /\ r.run_state = s.run_state
  <1> DEFINE f == [s.in_switchto EXCEPT ![c] = v]
             r == [s EXCEPT !.in_switchto = f]
  <1>1. s \in Scheduler
    BY DEF Sane
  <1>2. /\ f \in [CPU -> BOOLEAN] /\ f[c] = v
        /\ \A d \in CPU \ {c} : f[d] = s.in_switchto[d]
    BY <1>1 DEF Scheduler
  <1> HIDE DEF f
  <1>3. r \in Scheduler
    BY <1>1, <1>2, Zenon DEF Scheduler
  <1>4. /\ r.alive = s.alive /\ r.run_state = s.run_state /\ r.cpu = s.cpu
        /\ r.prio_boost = s.prio_boost /\ r.preempted = s.preempted
        /\ r.run_queue_ = s.run_queue_
        /\ r.run_queue_low_priority_ = s.run_queue_low_priority_
        /\ r.yielding_tasks_ = s.yielding_tasks_
        /\ r.current = s.current /\ r.next = s.next
        /\ r.ok = s.ok /\ r.in_switchto = f
    BY <1>1 DEF Scheduler
  <1> HIDE DEF r
  <1>5. Sane(r)
    BY <1>3, <1>4 DEF Sane, QueuesOK, Exclusive
  <1>6. Touches(s, r, {})
    BY <1>4 DEF Touches, SameWhere, SameFlags, Queued, Yielding
  <1>7. Switches(s, r, c, v)
    BY <1>2, <1>4 DEF Switches
  <1> QED BY <1>4, <1>5, <1>6, <1>7 DEF f, r, Yielding

(* What touches only T touches only a larger set.                          *)
LEMMA TouchesMore ==
    ASSUME NEW s, NEW r, NEW T, NEW U, T \subseteq U, Touches(s, r, T)
    PROVE  Touches(s, r, U)
  BY DEF Touches

(* A BLOCKED task is in no place.                                          *)
LEMMA BlockedNowhere ==
    ASSUME NEW s, NEW t, Where(s, t), s.run_state[t] = "BLOCKED", t \in s.alive
    PROVE  Nowhere(s, t)
  BY DEF Where, Nowhere

(***************************************************************************)
(* The message handlers.                                                   *)
(***************************************************************************)
(* A message that says that the task t, which the agent has not preempted, *)
(* stops running, fits the state of the scheduler.                         *)
StopFits(s, txn, t, msg) ==
    /\ Placed(s) /\ s.ok
    /\ t \in s.alive /\ ~s.preempted[t]
    /\ msg.from_switchto =>
          s.run_state[t] = "BLOCKED" /\ msg.cpu \in CPU /\ Chained(s, msg.cpu)
    /\ ~msg.from_switchto => s.run_state[t] \in {"QUEUED", "ON_CPU", "PENDING"}
    /\ s.run_state[t] = "PENDING" => txn[s.cpu[t]] = "complete"

(* The handler has moved the task t and no other one.                      *)
Handled(s, r, t) ==
    /\ Placed(r) /\ r.ok /\ Touches(s, r, {t}) /\ r.alive = s.alive

(* A task that stops running is in hand after it has left its CPU or its   *)
(* switchto chain.                                                         *)
LEMMA LeaveChain ==
    ASSUME NEW s, NEW t \in Task, NEW c \in CPU, Sane(s), Where(s, t), t \in s.alive,
           s.run_state[t] = "BLOCKED", Chained(s, c)
    PROVE  LET r == CpuLeavingSwitchto(s, c)
           IN  /\ Sane(r) /\ Nowhere(r, t) /\ Touches(s, r, {t})
               /\ Leaves(s, r, c)
               /\ Where(r, t) /\ r.run_state[t] = "BLOCKED"
               /\ Yielding(r) = Yielding(s)
               /\ r.ok = s.ok /\ r.alive = s.alive
               /\ r.preempted = s.preempted /\ r.prio_boost = s.prio_boost
  <1> DEFINE r == [s EXCEPT !.in_switchto[c] = FALSE]
  <1>1. s \in Scheduler
    BY DEF Sane
  <1>3. CHECK(s, s.in_switchto[c]) = s
    <2>1. s.in_switchto[c] = TRUE
      BY <1>1 DEF Chained, Scheduler
    <2> QED BY <1>1, <2>1, CheckFields, Zenon
  <1>4. CpuLeavingSwitchto(s, c) = r
    BY <1>3 DEF CpuLeavingSwitchto
  <1>5. /\ Sane(r) /\ Touches(s, r, {}) /\ Leaves(s, r, c)
        /\ Yielding(r) = Yielding(s)
        /\ r.ok = s.ok /\ r.alive = s.alive
        /\ r.preempted = s.preempted /\ r.prio_boost = s.prio_boost
        /\ r.run_state = s.run_state
    BY SwitchPlaces, Zenon DEF Leaves
  <1> HIDE DEF r
  <1>6. Touches(s, r, {t})
    BY <1>5, TouchesMore
  <1>7. SameWhere(s, r, t)
    BY <1>5 DEF Touches
  <1>8. Where(r, t)
    BY <1>7, SameStays
  <1>9. Nowhere(r, t)
    BY <1>5, <1>8, BlockedNowhere
  <1> QED BY <1>4, <1>5, <1>6, <1>8, <1>9

(* What TaskBlocked and TaskSwitchto do to a task that was running or      *)
(* queued.                                                                 *)
Stop(q, txn, t) ==
    IF Assigned(q, t) THEN [LeaveCpu(q, txn, t) EXCEPT !.run_state[t] = "BLOCKED"]
    ELSE RemoveFromRunqueue(q, t, "BLOCKED")

Halted(q, r, t) ==
    /\ Sane(r) /\ Where(r, t) /\ Touches(q, r, {t})
    /\ r.run_state[t] = "BLOCKED" /\ r.preempted = q.preempted
    /\ Yielding(r) = Yielding(q) /\ r.ok = q.ok /\ r.alive = q.alive
    /\ r.in_switchto = q.in_switchto

(* A task that was running or queued becomes BLOCKED.                      *)
LEMMA StopBlocks ==
    ASSUME NEW q, NEW txn, NEW t \in Task, Sane(q), Where(q, t),
           q.run_state[t] \in {"QUEUED", "ON_CPU", "PENDING"},
           q.run_state[t] = "PENDING" => txn[q.cpu[t]] = "complete"
    PROVE  Halted(q, Stop(q, txn, t), t)
  <1> DEFINE r == Stop(q, txn, t)
  <1>1. CASE Assigned(q, t)
    <2> DEFINE l == LeaveCpu(q, txn, t)
    <2>1. r = [l EXCEPT !.run_state[t] = "BLOCKED"]
      BY <1>1 DEF Stop
    <2>2. /\ Sane(l) /\ Nowhere(l, t) /\ Touches(q, l, {t})
          /\ Yielding(l) = Yielding(q)
          /\ l.ok = q.ok /\ l.in_switchto = q.in_switchto
          /\ l.preempted = q.preempted /\ l.alive = q.alive
      <3> HIDE DEF l
      <3>1. l = LeaveCpu(q, txn, t)
        BY DEF l
      <3> QED BY <1>1, <3>1, LeaveCpuPlaces
    <2> HIDE DEF l, r
    <2>3. /\ Sane(r) /\ Where(r, t) /\ Touches(l, r, {t})
          /\ r.run_state[t] = "BLOCKED"
          /\ r.ok = l.ok /\ r.in_switchto = l.in_switchto
          /\ r.preempted = l.preempted /\ r.alive = l.alive
          /\ Yielding(r) = Yielding(l)
      BY <2>1, <2>2, BlockPlaces
    <2>4. Touches(q, r, {t})
      BY <2>2, <2>3, TouchesChain
    <2> QED BY <2>2, <2>3, <2>4 DEF Halted, r
  <1>2. CASE ~Assigned(q, t)
    <2>1. q.run_state[t] = "QUEUED" /\ r = RemoveFromRunqueue(q, t, "BLOCKED")
      BY <1>2 DEF Assigned, Stop
    <2> HIDE DEF r
    <2>2. /\ Sane(r) /\ Where(r, t) /\ Touches(q, r, {t})
          /\ r.run_state[t] = "BLOCKED" /\ r.preempted = q.preempted
          /\ Yielding(r) = Yielding(q) /\ r.ok = q.ok /\ r.alive = q.alive
          /\ r.in_switchto = q.in_switchto
      BY <2>1, RemovePlaces
    <2> QED BY <2>2 DEF Halted, r
  <1> QED BY <1>1, <1>2

(* TaskBlocked.                                                            *)
LEMMA TaskBlockedHandled ==
    ASSUME NEW s, NEW txn, NEW msg, NEW t \in Task, msg.task = t,
           StopFits(s, txn, t, msg)
    PROVE  LET r == TaskBlocked(s, txn, msg)
           IN  /\ Handled(s, r, t)
               /\ r.run_state[t] = "BLOCKED" /\ ~r.preempted[t]
               /\ Yielding(r) = Yielding(s)
               /\ IF msg.from_switchto THEN Leaves(s, r, msg.cpu)
                                       ELSE r.in_switchto = s.in_switchto
  <1> DEFINE q == [s EXCEPT !.prio_boost[t] = FALSE]
             r == TaskBlocked(s, txn, msg)
  <1>1. /\ Placed(s) /\ Sane(s) /\ Where(s, t) /\ s.ok
        /\ t \in s.alive /\ ~s.preempted[t]
        /\ msg.from_switchto =>
              s.run_state[t] = "BLOCKED" /\ msg.cpu \in CPU /\ Chained(s, msg.cpu)
        /\ ~msg.from_switchto => s.run_state[t] \in {"QUEUED", "ON_CPU", "PENDING"}
        /\ s.run_state[t] = "PENDING" => txn[s.cpu[t]] = "complete"
    BY DEF StopFits, Placed
  <1>2. /\ Sane(q) /\ SameWhere(s, q, t) /\ Touches(s, q, {t})
        /\ q.run_state = s.run_state /\ q.cpu = s.cpu
        /\ Yielding(q) = Yielding(s)
        /\ q.ok = s.ok /\ q.in_switchto = s.in_switchto
        /\ q.preempted = s.preempted /\ q.alive = s.alive
    BY <1>1, UnboostPlaces, Zenon
  <1>3. r = IF Assigned(q, t) THEN [LeaveCpu(q, txn, t) EXCEPT !.run_state[t] = "BLOCKED"]
            ELSE IF msg.from_switchto
            THEN CpuLeavingSwitchto(CHECK(q, q.run_state[t] = "BLOCKED"), msg.cpu)
            ELSE RemoveFromRunqueue(q, t, "BLOCKED")
    BY DEF TaskBlocked
  <1> HIDE DEF q, r
  <1>4. Where(q, t) /\ Sane(q)
    BY <1>1, <1>2, SameStays
  <1>5. SUFFICES /\ Sane(r) /\ Where(r, t) /\ Touches(q, r, {t})
                 /\ r.run_state[t] = "BLOCKED" /\ r.preempted = q.preempted
                 /\ Yielding(r) = Yielding(q) /\ r.ok = q.ok /\ r.alive = q.alive
                 /\ IF msg.from_switchto THEN Leaves(q, r, msg.cpu)
                                         ELSE r.in_switchto = q.in_switchto
    <2>1. Touches(s, r, {t})
      BY <1>2, <1>5, TouchesChain
    <2>2. ~r.preempted[t] /\ Flags(r, t)
      BY <1>1, <1>2, <1>5 DEF Flags
    <2>3. Placed(r)
      BY <1>1, <1>5, <2>1, <2>2, TouchedPlaced
    <2>4. Leaves(q, r, msg.cpu) => Leaves(s, r, msg.cpu)
      BY <1>2 DEF Leaves, Switches
    <2> QED BY <1>1, <1>2, <1>5, <2>1, <2>2, <2>3, <2>4, Zenon DEF Handled, r
  <1>6. CASE msg.from_switchto
    <2>1. /\ q.run_state[t] = "BLOCKED" /\ msg.cpu \in CPU /\ Chained(q, msg.cpu)
          /\ t \in q.alive
      BY <1>1, <1>2, <1>6 DEF Chained
    <2>2. r = CpuLeavingSwitchto(q, msg.cpu)
      <3>1. CHECK(q, q.run_state[t] = "BLOCKED") = q
        BY <1>4, <2>1, CheckFields, Zenon DEF Sane
      <3> QED BY <1>3, <1>6, <2>1, <3>1 DEF Assigned
    <2>3. /\ Sane(r) /\ Where(r, t) /\ Touches(q, r, {t})
          /\ Leaves(q, r, msg.cpu)
          /\ r.run_state[t] = "BLOCKED" /\ r.preempted = q.preempted
          /\ Yielding(r) = Yielding(q) /\ r.ok = q.ok /\ r.alive = q.alive
      BY <1>4, <2>1, <2>2, LeaveChain
    <2> QED BY <1>6, <2>3
  <1>7. CASE ~msg.from_switchto
    <2>1. /\ q.run_state[t] \in {"QUEUED", "ON_CPU", "PENDING"}
          /\ q.run_state[t] = "PENDING" => txn[q.cpu[t]] = "complete"
      BY <1>1, <1>2, <1>7
    <2>2. r = Stop(q, txn, t)
      BY <1>3, <1>7 DEF Stop
    <2>3. Halted(q, r, t)
      BY <1>4, <2>1, <2>2, StopBlocks, Zenon
    <2> QED BY <1>7, <2>3 DEF Halted
  <1> QED BY <1>6, <1>7

(* The task t of the message msg is off its CPU, or off its chain.         *)
Stopped(q, l, t, msg) ==
    /\ Sane(l) /\ Nowhere(l, t) /\ Touches(q, l, {t})
    /\ l.run_state[t] \in {"ON_CPU", "BLOCKED"}
    /\ l.preempted = q.preempted /\ Yielding(l) = Yielding(q)
    /\ Unboosted(q, t) => Unboosted(l, t)
    /\ l.ok = q.ok /\ l.alive = q.alive
    /\ IF msg.from_switchto THEN Leaves(q, l, msg.cpu) ELSE l.in_switchto = q.in_switchto

(* A task that was running, or that ended a switchto chain, is in hand     *)
(* when TaskPreempted and TaskYield enqueue it.                            *)
LEMMA StopInHand ==
    ASSUME NEW q, NEW txn, NEW t \in Task, NEW msg, NEW l,
           Sane(q), Where(q, t), t \in q.alive,
           msg.from_switchto =>
              q.run_state[t] = "BLOCKED" /\ msg.cpu \in CPU /\ Chained(q, msg.cpu),
           ~msg.from_switchto => Assigned(q, t),
           q.run_state[t] = "PENDING" => txn[q.cpu[t]] = "complete",
           ~msg.from_switchto => l = LeaveCpu(q, txn, t),
           msg.from_switchto => l = CpuLeavingSwitchto(q, msg.cpu)
    PROVE  Stopped(q, l, t, msg)
  <1>1. CASE ~msg.from_switchto
    <2>2. /\ Sane(l) /\ Nowhere(l, t) /\ Touches(q, l, {t})
          /\ l.run_state[t] \in {"ON_CPU", "BLOCKED"}
          /\ l.preempted = q.preempted /\ Yielding(l) = Yielding(q)
          /\ Unboosted(q, t) => Unboosted(l, t)
          /\ l.ok = q.ok /\ l.alive = q.alive
          /\ l.in_switchto = q.in_switchto
      BY <1>1, LeaveCpuPlaces
    <2> QED BY <1>1, <2>2 DEF Stopped
  <1>2. CASE msg.from_switchto
    <2>2. /\ Sane(l) /\ Nowhere(l, t) /\ Touches(q, l, {t})
          /\ Leaves(q, l, msg.cpu)
          /\ l.run_state[t] = "BLOCKED"
          /\ l.preempted = q.preempted /\ Yielding(l) = Yielding(q)
          /\ l.prio_boost = q.prio_boost
          /\ l.ok = q.ok /\ l.alive = q.alive
      BY <1>2, LeaveChain
    <2>3. Unboosted(q, t) => Unboosted(l, t)
      BY <2>2 DEF Unboosted
    <2> QED BY <1>2, <2>2, <2>3 DEF Stopped
  <1> QED BY <1>1, <1>2

(* TaskPreempted marks the task.                                           *)
LEMMA MarkPlaces ==
    ASSUME NEW s, NEW t \in Task, Sane(s)
    PROVE  LET r == [s EXCEPT !.preempted[t] = TRUE, !.prio_boost[t] = FALSE]
           IN  /\ Sane(r) /\ SameWhere(s, r, t) /\ Touches(s, r, {t})
               /\ r.run_state = s.run_state /\ r.cpu = s.cpu
               /\ Yielding(r) = Yielding(s)
               /\ r.ok = s.ok /\ r.in_switchto = s.in_switchto
               /\ Unboosted(r, t)
               /\ r.alive = s.alive
  <1> DEFINE r == [s EXCEPT !.preempted[t] = TRUE, !.prio_boost[t] = FALSE]
  <1>1. /\ Sane(r) /\ SameWhere(s, r, t) /\ Touches(s, r, {t})
        /\ r.run_state = s.run_state /\ r.cpu = s.cpu
        /\ Yielding(r) = Yielding(s)
        /\ r.ok = s.ok /\ r.in_switchto = s.in_switchto
        /\ Boost(r, t, FALSE) /\ r.alive = s.alive
    BY FlagPlaces, Zenon
  <1> HIDE DEF r
  <1>2. Unboosted(r, t)
    BY <1>1 DEF Boost, Unboosted
  <1> QED BY <1>1, <1>2, Zenon DEF r

(* TaskPreempted.                                                          *)
LEMMA TaskPreemptedHandled ==
    ASSUME NEW s, NEW txn, NEW msg, NEW t \in Task, msg.task = t,
           StopFits(s, txn, t, msg)
    PROVE  LET r == TaskPreempted(s, txn, msg)
           IN  /\ Handled(s, r, t)
               /\ r.run_state[t] = "QUEUED"
               /\ Yielding(r) = Yielding(s)
               /\ IF msg.from_switchto THEN Leaves(s, r, msg.cpu)
                                       ELSE r.in_switchto = s.in_switchto
  <1> DEFINE q == [s EXCEPT !.preempted[t] = TRUE, !.prio_boost[t] = FALSE]
             l == IF Assigned(q, t) THEN LeaveCpu(q, txn, t)
                  ELSE CpuLeavingSwitchto(CHECK(q, q.run_state[t] = "BLOCKED"), msg.cpu)
             r == TaskPreempted(s, txn, msg)
  <1>1. /\ Placed(s) /\ Sane(s) /\ Where(s, t) /\ s.ok
        /\ t \in s.alive /\ ~s.preempted[t]
        /\ msg.from_switchto =>
              s.run_state[t] = "BLOCKED" /\ msg.cpu \in CPU /\ Chained(s, msg.cpu)
        /\ ~msg.from_switchto => s.run_state[t] \in {"QUEUED", "ON_CPU", "PENDING"}
        /\ s.run_state[t] = "PENDING" => txn[s.cpu[t]] = "complete"
    BY DEF StopFits, Placed
  <1>2. /\ Sane(q) /\ SameWhere(s, q, t) /\ Touches(s, q, {t})
        /\ q.run_state = s.run_state /\ q.cpu = s.cpu
        /\ Yielding(q) = Yielding(s)
        /\ q.ok = s.ok /\ q.in_switchto = s.in_switchto
        /\ Unboosted(q, t) /\ q.alive = s.alive
    BY <1>1, MarkPlaces, Zenon
  <1>3. r = IF Assigned(q, t) \/ msg.from_switchto THEN Enqueue(l, t)
            ELSE CHECK(q, q.run_state[t] = "QUEUED")
    BY DEF TaskPreempted
  <1> HIDE DEF q, r
  <1>4. Where(q, t) /\ Sane(q)
    BY <1>1, <1>2, SameStays, Zenon
  <1>5. SUFFICES /\ Sane(r) /\ Where(r, t) /\ Touches(q, r, {t})
                 /\ r.run_state[t] = "QUEUED" /\ Unboosted(r, t)
                 /\ Yielding(r) = Yielding(q) /\ r.ok = q.ok /\ r.alive = q.alive
                 /\ IF msg.from_switchto THEN Leaves(q, r, msg.cpu)
                                         ELSE r.in_switchto = q.in_switchto
    <2>1. Touches(s, r, {t})
      BY <1>2, <1>5, TouchesChain
    <2>2. Flags(r, t)
      BY <1>5 DEF Flags, Unboosted
    <2>3. Placed(r)
      BY <1>1, <1>5, <2>1, <2>2, TouchedPlaced
    <2>4. Leaves(q, r, msg.cpu) => Leaves(s, r, msg.cpu)
      BY <1>2 DEF Leaves, Switches
    <2> QED BY <1>1, <1>2, <1>5, <2>1, <2>3, <2>4, Zenon DEF Handled, r
  <1>6. CASE Assigned(q, t) \/ msg.from_switchto
    <2>1. /\ msg.from_switchto =>
                q.run_state[t] = "BLOCKED" /\ msg.cpu \in CPU /\ Chained(q, msg.cpu)
          /\ ~msg.from_switchto => Assigned(q, t)
          /\ q.run_state[t] = "PENDING" => txn[q.cpu[t]] = "complete"
          /\ t \in q.alive
      BY <1>1, <1>2, <1>6 DEF Chained
    <2>2. /\ Sane(l) /\ Nowhere(l, t) /\ Touches(q, l, {t})
          /\ Yielding(l) = Yielding(q)
          /\ Unboosted(q, t) => Unboosted(l, t)
          /\ l.ok = q.ok /\ l.alive = q.alive
          /\ IF msg.from_switchto THEN Leaves(q, l, msg.cpu)
                                  ELSE l.in_switchto = q.in_switchto
      <3>1. CHECK(q, q.run_state[t] = "BLOCKED") = q \/ ~msg.from_switchto
        BY <1>4, <2>1, CheckFields, Zenon DEF Sane
      <3>2. ~msg.from_switchto => l = LeaveCpu(q, txn, t)
        BY <2>1
      <3>3. msg.from_switchto => l = CpuLeavingSwitchto(q, msg.cpu)
        BY <2>1, <3>1 DEF Assigned
      <3> HIDE DEF l
      <3>4. Stopped(q, l, t, msg)
        BY <1>4, <2>1, <3>2, <3>3, StopInHand
      <3> QED BY <3>4 DEF Stopped
    <2>3. r = Enqueue(l, t)
      BY <1>3, <1>6
    <2> HIDE DEF l
    <2>4. /\ Sane(r) /\ Where(r, t) /\ Touches(l, r, {t}) /\ r.run_state[t] = "QUEUED"
      BY <2>2, <2>3, EnqueuePlaces
    <2>5. /\ r.prio_boost = l.prio_boost
          /\ r.yielding_tasks_ = l.yielding_tasks_ /\ r.ok = l.ok
          /\ r.in_switchto = l.in_switchto /\ r.alive = l.alive
      BY <2>2, <2>3, EnqueueFields, Zenon DEF Sane
    <2>6. Touches(q, r, {t})
      BY <2>2, <2>4, TouchesChain
    <2>7. Unboosted(r, t) /\ Yielding(r) = Yielding(q)
      BY <1>2, <2>2, <2>5 DEF Unboosted, Yielding
    <2>8. Leaves(q, l, msg.cpu) => Leaves(q, r, msg.cpu)
      BY <2>5 DEF Leaves, Switches
    <2> QED BY <2>2, <2>4, <2>5, <2>6, <2>7, <2>8
  <1>7. CASE ~Assigned(q, t) /\ ~msg.from_switchto
    <2>1. q.run_state[t] = "QUEUED"
      BY <1>1, <1>2, <1>7 DEF Assigned
    <2>2. CHECK(q, q.run_state[t] = "QUEUED") = q
      BY <1>4, <2>1, CheckFields, Zenon DEF Sane
    <2>3. r = q
      BY <1>3, <1>7, <2>2
    <2>4. Touches(q, q, {t})
      BY DEF Touches, SameWhere, SameFlags
    <2> QED BY <1>2, <1>4, <1>7, <2>1, <2>3, <2>4
  <1> QED BY <1>6, <1>7, Zenon

(* TaskYield.                                                              *)
LEMMA TaskYieldHandled ==
    ASSUME NEW s, NEW txn, NEW msg, NEW t \in Task, msg.task = t,
           StopFits(s, txn, t, msg)
    PROVE  LET r == TaskYield(s, txn, msg)
           IN  /\ Handled(s, r, t)
               /\ r.run_state[t] \in {"QUEUED", "YIELDING"} /\ ~r.preempted[t]
               /\ Yielding(r) \subseteq Yielding(s) \cup {t}
               /\ IF msg.from_switchto THEN Leaves(s, r, msg.cpu)
                                       ELSE r.in_switchto = s.in_switchto
  <1> DEFINE q == [s EXCEPT !.prio_boost[t] = FALSE]
             l == IF Assigned(q, t) THEN LeaveCpu(q, txn, t)
                  ELSE CpuLeavingSwitchto(CHECK(q, q.run_state[t] = "BLOCKED"), msg.cpu)
             r == TaskYield(s, txn, msg)
  <1>1. /\ Placed(s) /\ Sane(s) /\ Where(s, t) /\ s.ok
        /\ t \in s.alive /\ ~s.preempted[t]
        /\ msg.from_switchto =>
              s.run_state[t] = "BLOCKED" /\ msg.cpu \in CPU /\ Chained(s, msg.cpu)
        /\ ~msg.from_switchto => s.run_state[t] \in {"QUEUED", "ON_CPU", "PENDING"}
        /\ s.run_state[t] = "PENDING" => txn[s.cpu[t]] = "complete"
    BY DEF StopFits, Placed
  <1>2. /\ Sane(q) /\ SameWhere(s, q, t) /\ Touches(s, q, {t})
        /\ q.run_state = s.run_state /\ q.cpu = s.cpu
        /\ Yielding(q) = Yielding(s)
        /\ q.ok = s.ok /\ q.in_switchto = s.in_switchto
        /\ q.preempted = s.preempted /\ q.alive = s.alive
    BY <1>1, UnboostPlaces, Zenon
  <1>3. r = IF Assigned(q, t) \/ msg.from_switchto THEN Yield(l, t)
            ELSE CHECK(q, q.run_state[t] = "QUEUED")
    BY Zenon DEF TaskYield
  <1> HIDE DEF q, r
  <1>4. Where(q, t) /\ Sane(q)
    BY <1>1, <1>2, SameStays
  <1>5. SUFFICES /\ Sane(r) /\ Where(r, t) /\ Touches(q, r, {t})
                 /\ r.run_state[t] \in {"QUEUED", "YIELDING"} /\ r.preempted = q.preempted
                 /\ Yielding(r) \subseteq Yielding(q) \cup {t}
                 /\ r.ok = q.ok /\ r.alive = q.alive
                 /\ IF msg.from_switchto THEN Leaves(q, r, msg.cpu)
                                         ELSE r.in_switchto = q.in_switchto
    <2>1. Touches(s, r, {t})
      BY <1>2, <1>5, TouchesChain
    <2>2. ~r.preempted[t] /\ Flags(r, t)
      BY <1>1, <1>2, <1>5, Zenon DEF Flags
    <2>3. Placed(r)
      BY <1>1, <1>5, <2>1, <2>2, TouchedPlaced
    <2>4. Leaves(q, r, msg.cpu) => Leaves(s, r, msg.cpu)
      BY <1>2 DEF Leaves, Switches
    <2> QED BY <1>1, <1>2, <1>5, <2>1, <2>2, <2>3, <2>4, Zenon DEF Handled, r
  <1>6. CASE Assigned(q, t) \/ msg.from_switchto
    <2>1. /\ msg.from_switchto =>
                q.run_state[t] = "BLOCKED" /\ msg.cpu \in CPU /\ Chained(q, msg.cpu)
          /\ ~msg.from_switchto => Assigned(q, t)
          /\ q.run_state[t] = "PENDING" => txn[q.cpu[t]] = "complete"
          /\ t \in q.alive
      BY <1>1, <1>2, <1>6 DEF Chained
    <2>2. /\ Sane(l) /\ Nowhere(l, t) /\ Touches(q, l, {t})
          /\ l.run_state[t] \in {"ON_CPU", "BLOCKED"}
          /\ l.preempted = q.preempted /\ Yielding(l) = Yielding(q)
          /\ l.ok = q.ok /\ l.alive = q.alive
          /\ IF msg.from_switchto THEN Leaves(q, l, msg.cpu)
                                  ELSE l.in_switchto = q.in_switchto
      <3>1. CHECK(q, q.run_state[t] = "BLOCKED") = q \/ ~msg.from_switchto
        BY <1>4, <2>1, CheckFields, Zenon DEF Sane
      <3>2. ~msg.from_switchto => l = LeaveCpu(q, txn, t)
        BY <2>1
      <3>3. msg.from_switchto => l = CpuLeavingSwitchto(q, msg.cpu)
        BY <2>1, <3>1 DEF Assigned
      <3> HIDE DEF l
      <3>4. Stopped(q, l, t, msg)
        BY <1>4, <2>1, <3>2, <3>3, StopInHand
      <3> QED BY <3>4 DEF Stopped
    <2>3. r = Yield(l, t)
      BY <1>3, <1>6
    <2> HIDE DEF l
    <2>4. /\ Sane(r) /\ Where(r, t) /\ Touches(l, r, {t})
          /\ r.run_state[t] = "YIELDING"
          /\ Yielding(r) = Yielding(l) \cup {t}
          /\ r.ok = l.ok /\ r.in_switchto = l.in_switchto
          /\ r.preempted = l.preempted /\ r.alive = l.alive
      BY <2>2, <2>3, YieldPlaces
    <2>6. Touches(q, r, {t})
      BY <2>2, <2>4, TouchesChain
    <2>8. Leaves(q, l, msg.cpu) => Leaves(q, r, msg.cpu)
      BY <2>4 DEF Leaves, Switches
    <2> QED BY <2>2, <2>4, <2>6, <2>8
  <1>7. CASE ~Assigned(q, t) /\ ~msg.from_switchto
    <2>1. q.run_state[t] = "QUEUED"
      BY <1>1, <1>2, <1>7, Zenon DEF Assigned
    <2>2. CHECK(q, q.run_state[t] = "QUEUED") = q
      BY <1>4, <2>1, CheckFields, Zenon DEF Sane
    <2>3. r = q
      BY <1>3, <1>7, <2>2
    <2>4. Touches(q, q, {t})
      BY DEF Touches, SameWhere, SameFlags
    <2> QED BY <1>2, <1>4, <1>7, <2>1, <2>3, <2>4
  <1> QED BY <1>6, <1>7

(* TaskSwitchto.                                                           *)
LEMMA TaskSwitchtoHandled ==
    ASSUME NEW s, NEW txn, NEW msg, NEW t \in Task, msg.task = t,
           StopFits(s, txn, t, msg), ~msg.from_switchto,
           msg.cpu \in CPU, ~Chained(s, msg.cpu)
    PROVE  LET r == TaskSwitchto(s, txn, msg)
           IN  /\ Handled(s, r, t)
               /\ r.run_state[t] = "BLOCKED" /\ ~r.preempted[t]
               /\ Yielding(r) = Yielding(s)
               /\ Enters(s, r, msg.cpu)
  <1> DEFINE c == msg.cpu
             e == [s EXCEPT !.in_switchto[c] = TRUE]
             q == [e EXCEPT !.prio_boost[t] = FALSE]
             r == TaskSwitchto(s, txn, msg)
  <1>1. /\ Placed(s) /\ Sane(s) /\ Where(s, t) /\ s.ok
        /\ t \in s.alive /\ ~s.preempted[t]
        /\ s.run_state[t] \in {"QUEUED", "ON_CPU", "PENDING"}
        /\ s.run_state[t] = "PENDING" => txn[s.cpu[t]] = "complete"
    BY DEF StopFits, Placed
  <1>2. CpuEnteringSwitchto(s, c) = e
    <2>1. (~s.in_switchto[c]) = TRUE
      BY DEF Chained
    <2>2. CHECK(s, ~s.in_switchto[c]) = s
      BY <1>1, <2>1, CheckFields, Zenon DEF Sane
    <2> QED BY <2>2, Zenon DEF CpuEnteringSwitchto
  <1>3. r = Stop(q, txn, t)
    BY <1>2 DEF TaskSwitchto, Stop
  <1>4. /\ Sane(e) /\ Touches(s, e, {}) /\ Enters(s, e, c)
        /\ Yielding(e) = Yielding(s)
        /\ e.ok = s.ok /\ e.alive = s.alive
        /\ e.preempted = s.preempted /\ e.run_state = s.run_state
    BY <1>1, SwitchPlaces, Zenon DEF Enters
  <1> HIDE DEF e, r
  <1>5. /\ Sane(q) /\ SameWhere(e, q, t) /\ Touches(e, q, {t})
        /\ q.run_state = e.run_state /\ q.cpu = e.cpu
        /\ Yielding(q) = Yielding(e)
        /\ q.ok = e.ok /\ q.in_switchto = e.in_switchto
        /\ q.preempted = e.preempted /\ q.alive = e.alive
    BY <1>4, UnboostPlaces
  <1> HIDE DEF q
  <1>6. Where(e, t) /\ Touches(s, e, {t}) /\ e.cpu[t] = s.cpu[t]
    <2>1. SameWhere(s, e, t)
      BY <1>4 DEF Touches
    <2>2. Touches(s, e, {t})
      BY <1>4, TouchesMore, Zenon
    <2> QED BY <1>1, <2>1, <2>2, SameStays DEF SameWhere
  <1>7. Where(q, t) /\ Sane(q)
    BY <1>5, <1>6, SameStays
  <1>8. /\ q.run_state[t] \in {"QUEUED", "ON_CPU", "PENDING"}
        /\ q.run_state[t] = "PENDING" => txn[q.cpu[t]] = "complete"
    BY <1>1, <1>4, <1>5, <1>6
  <1>9. /\ Sane(r) /\ Where(r, t) /\ Touches(q, r, {t})
        /\ r.run_state[t] = "BLOCKED" /\ r.preempted = q.preempted
        /\ Yielding(r) = Yielding(q) /\ r.ok = q.ok /\ r.alive = q.alive
        /\ r.in_switchto = q.in_switchto
    <2>1. Halted(q, r, t)
      BY <1>3, <1>7, <1>8, StopBlocks, Zenon
    <2> QED BY <2>1, Zenon DEF Halted
  <1>10. Touches(s, r, {t})
    <2>1. Touches(s, q, {t})
      BY <1>5, <1>6, TouchesChain, Zenon
    <2> QED BY <1>9, <2>1, TouchesChain, Zenon
  <1>11. ~r.preempted[t] /\ Flags(r, t)
    BY <1>1, <1>4, <1>5, <1>9 DEF Flags
  <1>12. Placed(r)
    BY <1>1, <1>9, <1>10, <1>11, TouchedPlaced
  <1>13. Enters(s, r, c)
    BY <1>4, <1>5, <1>9 DEF Enters, Switches
  <1> QED BY <1>1, <1>4, <1>5, <1>9, <1>10, <1>11, <1>12, <1>13, Zenon DEF Handled, r

(* TaskRunnable.                                                           *)
LEMMA TaskRunnableHandled ==
    ASSUME NEW s, NEW msg, NEW t \in Task, msg.task = t, Placed(s), s.ok,
           t \in s.alive, s.run_state[t] = "BLOCKED"
    PROVE  LET r == TaskRunnable(s, msg)
           IN  /\ Handled(s, r, t)
               /\ r.run_state[t] = "QUEUED" /\ ~r.preempted[t]
               /\ Yielding(r) = Yielding(s)
               /\ r.in_switchto = s.in_switchto
  <1>0. PICK b \in BOOLEAN : b = ~msg.flag
    BY Zenon
  <1> DEFINE q == [s EXCEPT !.prio_boost[t] = b]
             r == TaskRunnable(s, msg)
  <1>1. /\ Sane(s) /\ Where(s, t) /\ ~s.preempted[t] /\ Nowhere(s, t)
    BY BlockedNowhere DEF Placed, Flags
  <1>2. r = Enqueue(q, t)
    <2>1. CHECK(s, s.run_state[t] = "BLOCKED") = s
      BY <1>1, CheckFields, Zenon DEF Sane
    <2> QED BY <1>0, <2>1 DEF TaskRunnable
  <1> HIDE DEF r
  <1>4. /\ Sane(q) /\ SameWhere(s, q, t) /\ Touches(s, q, {t})
        /\ Yielding(q) = Yielding(s)
        /\ q.ok = s.ok /\ q.in_switchto = s.in_switchto
        /\ q.preempted = s.preempted /\ q.alive = s.alive
    <2>1. Boosted(s, q, t, b)
      BY <1>1, BoostPlaces
    <2> HIDE DEF q
    <2> QED BY <2>1 DEF Boosted
  <1> HIDE DEF q
  <1>5. Nowhere(q, t)
    BY <1>1, <1>4, SameStays
  <1>6. /\ Sane(r) /\ Where(r, t) /\ Touches(q, r, {t}) /\ r.run_state[t] = "QUEUED"
    BY <1>2, <1>4, <1>5, EnqueuePlaces, Zenon
  <1>7. /\ r.preempted = q.preempted
        /\ r.yielding_tasks_ = q.yielding_tasks_ /\ r.ok = q.ok
        /\ r.in_switchto = q.in_switchto /\ r.alive = q.alive
    BY <1>2, <1>4, EnqueueFields, Zenon DEF Sane
  <1>8. Touches(s, r, {t})
    BY <1>4, <1>6, TouchesChain
  <1>9. ~r.preempted[t] /\ Flags(r, t)
    BY <1>1, <1>4, <1>7 DEF Flags
  <1>10. Placed(r)
    BY <1>6, <1>8, <1>9, TouchedPlaced
  <1> QED BY <1>4, <1>6, <1>7, <1>8, <1>9, <1>10 DEF Handled, Yielding, r

(* The task t, which was in no place, is gone.                             *)
Freed(s, r, t) ==
    /\ Placed(r) /\ Touches(s, r, {t})
    /\ r.alive = s.alive \ {t}
    /\ ~r.preempted[t]
    /\ Yielding(r) = Yielding(s)
    /\ r.ok = s.ok /\ r.in_switchto = s.in_switchto

(* FreeTask.                                                               *)
LEMMA FreePlaces ==
    ASSUME NEW s, NEW t \in Task, Placed(s), s.run_state[t] = "BLOCKED"
    PROVE  Freed(s, FreeTask(s, t), t)
  <1> DEFINE a == s.alive \ {t}
             f == [s.run_state EXCEPT ![t] = "BLOCKED"]
             g == [s.cpu EXCEPT ![t] = NoCpu]
             b == [s.prio_boost EXCEPT ![t] = FALSE]
             p == [s.preempted EXCEPT ![t] = FALSE]
             h == [s.high_priority EXCEPT ![t] = FALSE]
             r == [s EXCEPT !.alive = a, !.run_state = f, !.cpu = g,
                            !.prio_boost = b, !.preempted = p, !.high_priority = h]
  <1>1. s \in Scheduler /\ Sane(s) /\ Where(s, t)
    BY DEF Sane, Placed
  <1>2. /\ f \in [Task -> RunState] /\ f[t] = "BLOCKED"
        /\ \A u \in Task \ {t} : f[u] = s.run_state[u]
    BY <1>1 DEF Scheduler, RunState
  <1>3. /\ g \in [Task -> CPU \cup {NoCpu}]
        /\ \A u \in Task \ {t} : g[u] = s.cpu[u]
    BY <1>1 DEF Scheduler
  <1>4. /\ b \in [Task -> BOOLEAN]
        /\ \A u \in Task \ {t} : b[u] = s.prio_boost[u]
    BY <1>1 DEF Scheduler
  <1>5. /\ p \in [Task -> BOOLEAN] /\ ~p[t]
        /\ \A u \in Task \ {t} : p[u] = s.preempted[u]
    BY <1>1 DEF Scheduler
  <1>6. h \in [Task -> BOOLEAN]
    BY <1>1 DEF Scheduler
  <1>7. FreeTask(s, t) = r
    BY DEF FreeTask
  <1>8. a \subseteq Task /\ \A u \in Task \ {t} : u \in a <=> u \in s.alive
    BY <1>1 DEF Scheduler
  <1> HIDE DEF a, f, g, b, p, h
  <1>9. r \in Scheduler
    BY <1>1, <1>2, <1>3, <1>4, <1>5, <1>6, <1>8, Zenon DEF Scheduler
  <1>10. /\ r.alive = a /\ r.run_state = f /\ r.cpu = g
         /\ r.prio_boost = b /\ r.preempted = p
         /\ r.run_queue_ = s.run_queue_
         /\ r.run_queue_low_priority_ = s.run_queue_low_priority_
         /\ r.yielding_tasks_ = s.yielding_tasks_
         /\ r.current = s.current /\ r.next = s.next
         /\ r.ok = s.ok /\ r.in_switchto = s.in_switchto
    BY <1>1 DEF Scheduler
  <1> HIDE DEF r
  <1>11. Sane(r)
    BY <1>1, <1>9, <1>10 DEF Sane, QueuesOK, Exclusive
  <1>12. Where(r, t) /\ Flags(r, t)
    BY <1>1, <1>2, <1>5, <1>10 DEF Where, Queued, Yielding, Flags
  <1>13. Touches(s, r, {t})
    BY <1>2, <1>3, <1>4, <1>5, <1>8, <1>10
       DEF Touches, SameWhere, SameFlags, Queued, Yielding
  <1>14. Placed(r)
    BY <1>11, <1>12, <1>13, TouchedPlaced
  <1> QED BY <1>5, <1>7, <1>10, <1>13, <1>14 DEF Yielding, a, Freed

(* TaskDead.                                                               *)
LEMMA TaskDeadHandled ==
    ASSUME NEW s, NEW msg, NEW t \in Task, msg.task = t, Placed(s), s.ok,
           s.run_state[t] = "BLOCKED"
    PROVE  LET r == TaskDead(s, msg)
           IN  /\ Placed(r) /\ r.ok /\ Touches(s, r, {t})
               /\ t \notin r.alive /\ ~r.preempted[t]
               /\ Yielding(r) = Yielding(s)
               /\ r.in_switchto = s.in_switchto
  <1> DEFINE r == TaskDead(s, msg)
  <1>1. CHECK(s, s.run_state[t] = "BLOCKED") = s
    BY CheckFields, Zenon DEF Placed, Sane
  <1>2. r = FreeTask(s, t)
    BY <1>1 DEF TaskDead
  <1> HIDE DEF r
  <1>3. Freed(s, r, t)
    BY <1>2, FreePlaces
  <1> QED BY <1>3 DEF Freed, r

(* r is s without the task t, which has departed as the message says.      *)
Departs(s, r, t, msg) ==
    /\ Placed(r) /\ r.ok /\ Touches(s, r, {t})
    /\ t \notin r.alive /\ ~r.preempted[t]
    /\ Yielding(r) = Yielding(s)
    /\ IF msg.from_switchto THEN Leaves(s, r, msg.cpu)
                            ELSE r.in_switchto = s.in_switchto

(* TaskDeparted.                                                           *)
LEMMA TaskDepartedHandled ==
    ASSUME NEW s, NEW msg, NEW t \in Task, msg.task = t, Placed(s), s.ok,
           s.run_state[t] = "BLOCKED",
           msg.from_switchto => msg.cpu \in CPU /\ Chained(s, msg.cpu)
    PROVE  Departs(s, TaskDeparted(s, msg), t, msg)
  <1> DEFINE r == TaskDeparted(s, msg)
  <1>1. CASE ~msg.from_switchto
    <2>1. r = FreeTask(s, t)
      BY <1>1 DEF TaskDeparted
    <2> HIDE DEF r
    <2>2. Freed(s, r, t)
      BY <2>1, FreePlaces
    <2> QED BY <1>1, <2>2 DEF Freed, Departs, r
  <1>2. CASE msg.from_switchto
    <2> DEFINE c == msg.cpu
               q == [s EXCEPT !.in_switchto[c] = FALSE]
    <2>1. CpuLeavingSwitchto(s, c) = q
      <3>1. s.in_switchto[c] = TRUE
        BY <1>2 DEF Chained, Placed, Sane, Scheduler
      <3>2. CHECK(s, s.in_switchto[c]) = s
        BY <3>1, CheckFields, Zenon DEF Placed, Sane
      <3> QED BY <3>2 DEF CpuLeavingSwitchto
    <2>2. r = FreeTask(q, t)
      BY <1>2, <2>1 DEF TaskDeparted
    <2>3. /\ Sane(q) /\ Touches(s, q, {}) /\ Leaves(s, q, c)
          /\ Yielding(q) = Yielding(s)
          /\ q.ok = s.ok /\ q.run_state = s.run_state
      BY <1>2, SwitchPlaces, Zenon DEF Leaves, Placed
    <2> HIDE DEF q, r
    <2>4. Placed(q)
      BY <2>3, TouchedPlaced
    <2>5. Freed(q, r, t)
      <3>1. q.run_state[t] = "BLOCKED"
        BY <2>3
      <3> QED BY <2>2, <2>4, <3>1, FreePlaces
    <2>6. Touches(s, r, {t})
      <3>1. Touches(s, q, {t})
        BY <2>3, TouchesMore
      <3> QED BY <2>5, <3>1, TouchesChain DEF Freed
    <2>7. Leaves(s, r, c)
      BY <2>3, <2>5 DEF Leaves, Switches, Freed
    <2> QED BY <1>2, <2>3, <2>5, <2>6, <2>7 DEF Freed, Departs, r
  <1> QED BY <1>1, <1>2

(* The task t, which had no NetTask object, now has one.                   *)
Born(s, r, t) ==
    /\ Sane(r) /\ Touches(s, r, {t})
    /\ r.alive = s.alive \cup {t}
    /\ r.run_state = s.run_state
    /\ r.preempted = s.preempted
    /\ Yielding(r) = Yielding(s)
    /\ r.ok = s.ok /\ r.in_switchto = s.in_switchto

(* The new Task object is in no place and its run_state is BLOCKED.        *)
LEMMA BornPlaces ==
    ASSUME NEW s, NEW t \in Task, NEW garbage \in BOOLEAN, Placed(s), t \notin s.alive
    PROVE  LET r == [s EXCEPT !.alive = @ \cup {t}, !.high_priority[t] = garbage]
           IN  Born(s, r, t) /\ Nowhere(r, t) /\ Where(r, t)
  <1> DEFINE a == s.alive \cup {t}
             h == [s.high_priority EXCEPT ![t] = garbage]
             r == [s EXCEPT !.alive = a, !.high_priority = h]
  <1>1. s \in Scheduler /\ Sane(s) /\ Where(s, t)
    BY DEF Sane, Placed
  <1>2. /\ a \subseteq Task /\ t \in a
        /\ \A u \in Task \ {t} : u \in a <=> u \in s.alive
    BY <1>1 DEF Scheduler
  <1>3. h \in [Task -> BOOLEAN]
    BY <1>1 DEF Scheduler
  <1> HIDE DEF a, h
  <1>4. r \in Scheduler
    BY <1>1, <1>2, <1>3, Zenon DEF Scheduler
  <1>5. /\ r.alive = a /\ r.run_state = s.run_state /\ r.cpu = s.cpu
        /\ r.prio_boost = s.prio_boost /\ r.preempted = s.preempted
        /\ r.run_queue_ = s.run_queue_
        /\ r.run_queue_low_priority_ = s.run_queue_low_priority_
        /\ r.yielding_tasks_ = s.yielding_tasks_
        /\ r.current = s.current /\ r.next = s.next
        /\ r.ok = s.ok /\ r.in_switchto = s.in_switchto
    BY <1>1 DEF Scheduler
  <1> HIDE DEF r
  <1>6. Sane(r)
    BY <1>1, <1>4, <1>5 DEF Sane, QueuesOK, Exclusive
  <1>7. s.run_state[t] = "BLOCKED"
    BY <1>1 DEF Where
  <1>8. Where(r, t)
    BY <1>1, <1>2, <1>5, <1>7 DEF Where, Queued, Yielding
  <1>9. Nowhere(r, t)
    BY <1>2, <1>5, <1>7, <1>8, BlockedNowhere
  <1>10. Touches(s, r, {t})
    BY <1>2, <1>5 DEF Touches, SameWhere, SameFlags, Queued, Yielding
  <1>11. Born(s, r, t)
    BY <1>5, <1>6, <1>10 DEF Born, a, Yielding
  <1> QED BY <1>8, <1>9, <1>11 DEF r, a, h

(* Nothing but high_priority differs.                                      *)
SameButPriority(s, r) ==
    /\ Sane(r) /\ Touches(s, r, {})
    /\ r.alive = s.alive /\ r.run_state = s.run_state /\ r.preempted = s.preempted
    /\ Yielding(r) = Yielding(s)
    /\ r.ok = s.ok /\ r.in_switchto = s.in_switchto

(* Setting high_priority moves no task.                                    *)
LEMMA PriorityPlaces ==
    ASSUME NEW s, NEW t \in Task, NEW b \in BOOLEAN, Sane(s)
    PROVE  SameButPriority(s, [s EXCEPT !.high_priority[t] = b])
  <1> DEFINE h == [s.high_priority EXCEPT ![t] = b]
             r == [s EXCEPT !.high_priority = h]
  <1>1. s \in Scheduler
    BY DEF Sane
  <1>2. h \in [Task -> BOOLEAN]
    BY <1>1 DEF Scheduler
  <1> HIDE DEF h
  <1>3. r \in Scheduler
    BY <1>1, <1>2, Zenon DEF Scheduler
  <1>4. /\ r.alive = s.alive /\ r.run_state = s.run_state /\ r.cpu = s.cpu
        /\ r.prio_boost = s.prio_boost /\ r.preempted = s.preempted
        /\ r.run_queue_ = s.run_queue_
        /\ r.run_queue_low_priority_ = s.run_queue_low_priority_
        /\ r.yielding_tasks_ = s.yielding_tasks_
        /\ r.current = s.current /\ r.next = s.next
        /\ r.ok = s.ok /\ r.in_switchto = s.in_switchto
    BY <1>1 DEF Scheduler
  <1> HIDE DEF r
  <1>5. Sane(r)
    BY <1>3, <1>4 DEF Sane, QueuesOK, Exclusive
  <1>6. Touches(s, r, {})
    BY <1>4 DEF Touches, SameWhere, SameFlags, Queued, Yielding
  <1>7. SameButPriority(s, r)
    BY <1>4, <1>5, <1>6 DEF SameButPriority, Yielding
  <1> QED BY <1>7 DEF r, h

(* TaskNew.                                                                *)
NewHandled(s, r, t, msg) ==
    /\ Placed(r) /\ r.ok /\ Touches(s, r, {t})
    /\ t \in r.alive /\ ~r.preempted[t]
    /\ msg.flag => r.run_state[t] = "QUEUED"
    /\ ~msg.flag => r.run_state[t] = "BLOCKED"
    /\ Yielding(r) = Yielding(s)
    /\ r.in_switchto = s.in_switchto

(* TaskNew of a thread with a CPU to run on.                               *)
LEMMA TaskNewHandled ==
    ASSUME NEW s, NEW msg, NEW t \in Task, NEW garbage \in BOOLEAN, msg.task = t,
           Placed(s), s.ok, t \notin s.alive, allowed_cpulist[t] # {}
    PROVE  NewHandled(s, TaskNew(s, msg, garbage, TRUE), t, msg)
  <1> DEFINE fresh == [s EXCEPT !.alive = @ \cup {t}, !.high_priority[t] = garbage]
             q == IF msg.flag THEN Enqueue(fresh, t) ELSE fresh
             b == t \in EngineThread
             r == TaskNew(s, msg, garbage, TRUE)
  <1>1. Born(s, fresh, t) /\ Nowhere(fresh, t) /\ Where(fresh, t)
    BY BornPlaces, Zenon
  <1>2. r = [CHECK(q, TRUE /\ allowed_cpulist[t] # {}) EXCEPT !.high_priority[t] = b]
    BY DEF TaskNew
  <1>3. s.run_state[t] = "BLOCKED" /\ ~s.preempted[t]
    BY Zenon DEF Placed, Where, Flags
  <1> HIDE DEF fresh, r
  <1>4. /\ Sane(q) /\ Where(q, t) /\ Touches(s, q, {t}) /\ q.alive = s.alive \cup {t}
        /\ q.preempted = s.preempted /\ Yielding(q) = Yielding(s)
        /\ q.ok = s.ok /\ q.in_switchto = s.in_switchto
        /\ msg.flag => q.run_state[t] = "QUEUED"
        /\ ~msg.flag => q.run_state[t] = "BLOCKED"
    <2>1. CASE msg.flag
      <3>1. q = Enqueue(fresh, t)
        BY <2>1
      <3> HIDE DEF q
      <3>2. Sane(fresh)
        BY <1>1 DEF Born
      <3>3. /\ Sane(q) /\ Where(q, t) /\ Touches(fresh, q, {t})
            /\ q.run_state[t] = "QUEUED"
        BY <1>1, <3>1, <3>2, EnqueuePlaces
      <3>4. /\ q.preempted = fresh.preempted
            /\ q.yielding_tasks_ = fresh.yielding_tasks_ /\ q.ok = fresh.ok
            /\ q.in_switchto = fresh.in_switchto /\ q.alive = fresh.alive
        BY <3>1, <3>2, EnqueueFields, Zenon DEF Sane
      <3>5. Touches(s, q, {t})
        BY <1>1, <3>3, TouchesChain DEF Born
      <3> QED BY <1>1, <2>1, <3>3, <3>4, <3>5 DEF Born, Yielding
    <2>2. CASE ~msg.flag
      BY <1>1, <1>3, <2>2, Zenon DEF Born
    <2> QED BY <2>1, <2>2, Zenon
  <1> HIDE DEF q
  <1>5. r = [q EXCEPT !.high_priority[t] = b]
    <2>1. CHECK(q, allowed_cpulist[t] # {}) = q
      BY <1>4, CheckFields, Zenon DEF Sane
    <2>2. CHECK(q, TRUE /\ allowed_cpulist[t] # {}) = CHECK(q, allowed_cpulist[t] # {})
      BY DEF CHECK
    <2> QED BY <1>2, <2>1, <2>2
  <1>6. SameButPriority(q, r)
    <2>0. b \in BOOLEAN
      OBVIOUS
    <2> HIDE DEF b
    <2>1. PICK v \in BOOLEAN : v = b
      BY <2>0
    <2> QED BY <1>4, <1>5, <2>1, PriorityPlaces
  <1>7. Touches(s, r, {t}) /\ Where(r, t)
    <2>1. SameWhere(q, r, t) /\ Touches(q, r, {t})
      <3>1. Touches(q, r, {})
        BY <1>6 DEF SameButPriority
      <3>2. Touches(q, r, {t})
        BY <3>1, TouchesMore
      <3> QED BY <3>1, <3>2 DEF Touches
    <2>2. Where(r, t)
      BY <1>4, <2>1, SameStays
    <2> QED BY <1>4, <2>1, <2>2, TouchesChain
  <1>8. ~r.preempted[t] /\ Flags(r, t)
    BY <1>3, <1>4, <1>6 DEF SameButPriority, Flags
  <1>9. Placed(r)
    BY <1>6, <1>7, <1>8, TouchedPlaced DEF SameButPriority
  <1>10. NewHandled(s, r, t, msg)
    BY <1>4, <1>6, <1>7, <1>8, <1>9 DEF SameButPriority, NewHandled
  <1> QED BY <1>10, Zenon DEF r

(***************************************************************************)
(* Choosing a CPU and changing who runs there.                             *)
(***************************************************************************)
(* PickNextCpu chooses one of the CPUs it is given, within the affinity of *)
(* the task if that is enforced.                                           *)
LEMMA PickNextCpuFacts ==
    ASSUME NEW s \in Scheduler, NEW t \in Task, NEW A, A \subseteq CPU
    PROVE  LET c == PickNextCpu(A, s, t)
           IN  c # NoCpu => /\ c \in A /\ c \in CPU
                            /\ enforce_affinity_mask_ => c \in allowed_cpulist[t]
  <1> DEFINE allowed == IF enforce_affinity_mask_ THEN allowed_cpulist[t] \cap A ELSE A
             p == s.cpu[t]
             I == {i \in 1 .. 5 : Nearest(p)[i] \cap allowed # {}}
             N == Nearest(p)[Min(I)] \cap allowed
             c == PickNextCpu(A, s, t)
  <1>1. /\ allowed \subseteq A /\ allowed \subseteq CPU /\ allowed \subseteq Nat
        /\ enforce_affinity_mask_ => allowed \subseteq allowed_cpulist[t]
    <2>1. CPU \subseteq Nat
      BY SchedulerAssumption DEF CPU
    <2>2. CASE enforce_affinity_mask_
      BY <2>1, <2>2, Zenon
    <2>3. CASE ~enforce_affinity_mask_
      BY <2>1, <2>3
    <2> QED BY <2>2, <2>3
  <1>2. c = IF allowed = {} THEN NoCpu ELSE IF p = NoCpu THEN Min(allowed) ELSE Min(N)
    BY DEF PickNextCpu
  <1> HIDE DEF allowed, c
  <1>3. c # NoCpu => c \in allowed
    <2>1. CASE allowed = {}
      BY <1>2, <2>1
    <2>2. CASE allowed # {} /\ p = NoCpu
      BY <1>1, <1>2, <2>2, MinFacts, Zenon
    <2>3. CASE allowed # {} /\ p # NoCpu
      <3>1. Nearest(p)[5] = CPU
        BY DEF Nearest
      <3>2. 5 \in I
        <4>1. Nearest(p)[5] \cap allowed # {}
          BY <1>1, <2>3, <3>1, Zenon
        <4> HIDE DEF p
        <4> QED BY <4>1
      <3>3. I \subseteq Nat /\ I # {}
        BY <3>2
      <3> HIDE DEF I
      <3>4. Min(I) \in I
        BY <3>3, MinFacts, Zenon
      <3>5. N # {}
        BY <3>4 DEF I
      <3>6. N \subseteq allowed /\ N \subseteq Nat
        BY <1>1, Zenon
      <3> HIDE DEF N
      <3>7. Min(N) \in N
        BY <3>5, <3>6, MinFacts, Zenon
      <3> QED BY <1>2, <2>3, <3>6, <3>7, Zenon
    <2> QED BY <2>1, <2>2, <2>3
  <1> QED BY <1>1, <1>3, Zenon DEF c

(* A CHECK that holds changes nothing.                                     *)
LEMMA CheckHolds ==
    ASSUME NEW s, Sane(s)
    PROVE  CHECK(s, TRUE) = s
  BY CheckFields, Zenon DEF Sane

(* Only the flags of the task t differ.                                    *)
Reflagged(s, r, t) ==
    /\ Sane(r) /\ SameWhere(s, r, t) /\ Touches(s, r, {t})
    /\ r.run_state = s.run_state /\ r.cpu = s.cpu
    /\ Yielding(r) = Yielding(s)
    /\ r.ok = s.ok /\ r.in_switchto = s.in_switchto
    /\ r.alive = s.alive /\ r.current = s.current /\ r.next = s.next

(* A task that loses its CPU to another one is boosted, not preempted.     *)
LEMMA DemotePlaces ==
    ASSUME NEW s, NEW t \in Task, Sane(s)
    PROVE  LET r == [s EXCEPT !.preempted[t] = FALSE, !.prio_boost[t] = TRUE]
           IN  Reflagged(s, r, t) /\ Preempted(r, t, FALSE)
  BY FlagPlaces, Zenon DEF Reflagged

(* Setting prio_boost moves no task.                                       *)
LEMMA PromotePlaces ==
    ASSUME NEW s, NEW t \in Task, Sane(s)
    PROVE  LET r == [s EXCEPT !.prio_boost[t] = TRUE]
           IN  Reflagged(s, r, t) /\ r.preempted = s.preempted
  BY BoostPlaces, Zenon DEF Reflagged, Boosted

(* A task in hand takes the place of the current task of CPU c.            *)
Swapped(s, r, c, prev, next) ==
    /\ Sane(r) /\ Nowhere(r, prev) /\ Where(r, next) /\ Touches(s, r, {prev, next})
    /\ r.run_state[next] = "ON_CPU" /\ r.cpu[next] = c
    /\ Yielding(r) = Yielding(s)
    /\ r.ok = s.ok /\ r.in_switchto = s.in_switchto
    /\ r.alive = s.alive /\ r.next = s.next
    /\ r.current[c] = next /\ \A d \in CPU \ {c} : r.current[d] = s.current[d]

(* PreemptTask when its transaction commits.                               *)
LEMMA SwapPlaces ==
    ASSUME NEW s, NEW c \in CPU, NEW prev \in Task, NEW next \in Task,
           Sane(s), Where(s, prev), Nowhere(s, next), s.current[c] = prev,
           s.run_state[next] = "QUEUED"
    PROVE  Swapped(s, PreemptTask(s, prev, next, TRUE), c, prev, next)
  <1> DEFINE f == [s.run_state EXCEPT ![next] = "ON_CPU"]
             g == [s.cpu EXCEPT ![next] = c]
             m == [s.current EXCEPT ![c] = next]
             r == [s EXCEPT !.current = m, !.run_state = f, !.cpu = g]
  <1>0. /\ s \in Scheduler /\ s.run_state[prev] = "ON_CPU" /\ s.cpu[prev] = c
        /\ prev # next /\ prev \in s.alive /\ next \in s.alive
        /\ prev # NoTask /\ next # NoTask
    BY SchedulerAssumption DEF Sane, Where, Nowhere
  <1>2. /\ f \in [Task -> RunState] /\ f[next] = "ON_CPU"
        /\ \A u \in Task \ {next} : f[u] = s.run_state[u]
    BY <1>0 DEF Scheduler, RunState
  <1>3. /\ g \in [Task -> CPU \cup {NoCpu}] /\ g[next] = c
        /\ \A u \in Task \ {next} : g[u] = s.cpu[u]
    BY <1>0 DEF Scheduler
  <1>4. /\ m \in [CPU -> Task \cup {NoTask}] /\ m[c] = next
        /\ \A d \in CPU \ {c} : m[d] = s.current[d]
    BY <1>0 DEF Scheduler
  <1>5. PreemptTask(s, prev, next, TRUE) = r
    <2> DEFINE p == /\ s.run_state[prev] = "ON_CPU"
                    /\ next \in Task \ {prev} => s.run_state[next] # "ON_CPU"
    <2>1. p = TRUE
      BY <1>0
    <2>2. CHECK(s, p) = s
      BY <2>1, CheckHolds, Zenon
    <2> QED BY <1>0, <2>2, Zenon DEF PreemptTask, Scheduler
  <1> HIDE DEF f, g, m
  <1>6. r \in Scheduler
    BY <1>0, <1>2, <1>3, <1>4, Zenon DEF Scheduler
  <1>7. /\ r.alive = s.alive /\ r.run_state = f /\ r.cpu = g
        /\ r.prio_boost = s.prio_boost /\ r.preempted = s.preempted
        /\ r.run_queue_ = s.run_queue_
        /\ r.run_queue_low_priority_ = s.run_queue_low_priority_
        /\ r.yielding_tasks_ = s.yielding_tasks_
        /\ r.current = m /\ r.next = s.next
        /\ r.ok = s.ok /\ r.in_switchto = s.in_switchto
    BY <1>0 DEF Scheduler
  <1> HIDE DEF r
  <1>8. s.next[c] = NoTask
    BY <1>0 DEF Sane, Exclusive
  <1>9. Sane(r)
    BY <1>4, <1>6, <1>7, <1>8 DEF Sane, QueuesOK, Exclusive
  <1>10. \A d \in CPU \ {c} : s.current[d] # prev /\ s.next[d] # prev
    BY <1>0 DEF Where
  <1>11. Nowhere(r, prev)
    BY <1>0, <1>4, <1>7, <1>8, <1>10 DEF Nowhere, Where, Queued, Yielding
  <1>12. Where(r, next)
    BY <1>0, <1>2, <1>3, <1>4, <1>7, <1>8 DEF Nowhere, Where, Queued, Yielding
  <1>13. Touches(s, r, {prev, next})
    <2> SUFFICES ASSUME NEW u \in Task \ {prev, next}
                 PROVE  SameWhere(s, r, u) /\ SameFlags(s, r, u)
      BY DEF Touches
    <2>1. \A d \in CPU : m[d] = u <=> s.current[d] = u
      BY <1>4
    <2> QED BY <1>2, <1>3, <1>7, <2>1 DEF SameWhere, SameFlags, Queued, Yielding
  <1> QED BY <1>2, <1>3, <1>4, <1>5, <1>7, <1>9, <1>11, <1>12, <1>13, Zenon DEF Swapped, Yielding

(* A task that gets a CPU is neither boosted nor preempted, and nothing is *)
(* pending there.                                                          *)
LEMMA ClearPlaces ==
    ASSUME NEW s, NEW c \in CPU, NEW t \in Task, Sane(s), s.next[c] = NoTask
    PROVE  LET r == [s EXCEPT !.prio_boost[t] = FALSE, !.preempted[t] = FALSE,
                              !.next[c] = NoTask]
           IN  Reflagged(s, r, t) /\ Preempted(r, t, FALSE)
  <1> DEFINE b == [s.prio_boost EXCEPT ![t] = FALSE]
             p == [s.preempted EXCEPT ![t] = FALSE]
             n == [s.next EXCEPT ![c] = NoTask]
             r == [s EXCEPT !.prio_boost = b, !.preempted = p, !.next = n]
  <1>1. s \in Scheduler
    BY DEF Sane
  <1>2. /\ b \in [Task -> BOOLEAN]
        /\ \A u \in Task \ {t} : b[u] = s.prio_boost[u]
    BY <1>1 DEF Scheduler
  <1>3. /\ p \in [Task -> BOOLEAN] /\ p[t] = FALSE
        /\ \A u \in Task \ {t} : p[u] = s.preempted[u]
    BY <1>1 DEF Scheduler
  <1>4. n = s.next
    BY <1>1 DEF Scheduler
  <1> HIDE DEF b, p, n
  <1>5. r \in Scheduler
    BY <1>1, <1>2, <1>3, <1>4, Zenon DEF Scheduler
  <1>6. /\ r.alive = s.alive /\ r.run_state = s.run_state /\ r.cpu = s.cpu
        /\ r.prio_boost = b /\ r.preempted = p
        /\ r.run_queue_ = s.run_queue_
        /\ r.run_queue_low_priority_ = s.run_queue_low_priority_
        /\ r.yielding_tasks_ = s.yielding_tasks_
        /\ r.current = s.current /\ r.next = s.next
        /\ r.ok = s.ok /\ r.in_switchto = s.in_switchto
    BY <1>1, <1>4 DEF Scheduler
  <1> HIDE DEF r
  <1>7. Sane(r)
    BY <1>5, <1>6 DEF Sane, QueuesOK, Exclusive
  <1>8. \A u \in Task : SameWhere(s, r, u)
    BY <1>6 DEF SameWhere, Queued, Yielding
  <1>9. Touches(s, r, {t})
    BY <1>2, <1>3, <1>6, <1>8 DEF Touches, SameFlags
  <1>10. Reflagged(s, r, t)
    BY <1>6, <1>7, <1>8, <1>9 DEF Reflagged, Yielding
  <1>11. Preempted(r, t, FALSE)
    BY <1>3, <1>6, Zenon DEF Preempted
  <1> QED BY <1>10, <1>11, Zenon DEF b, p, n, r

(* The task next takes the CPU of prev, which goes back to its queue.      *)
Replaced(s, r, c, prev, next) ==
    /\ Sane(r) /\ Touches(s, r, {prev, next})
    /\ Where(r, prev) /\ Flags(r, prev) /\ r.run_state[prev] = "QUEUED"
    /\ Where(r, next) /\ Flags(r, next) /\ r.run_state[next] = "ON_CPU"
    /\ r.cpu[next] = c
    /\ ~r.preempted[prev] /\ ~r.preempted[next]
    /\ Yielding(r) = Yielding(s)
    /\ r.ok = s.ok /\ r.in_switchto = s.in_switchto
    /\ r.alive = s.alive /\ r.next = s.next
    /\ r.current[c] = next /\ \A d \in CPU \ {c} : r.current[d] = s.current[d]

(* ReplaceExistingTask when its transaction commits.                       *)
LEMMA ReplaceCommits ==
    ASSUME NEW s, NEW c \in CPU, NEW prev \in Task, NEW next \in Task,
           Sane(s), Where(s, prev), Nowhere(s, next), s.current[c] = prev,
           s.run_state[next] = "QUEUED"
    PROVE  Replaced(s, ReplaceExistingTask(s, c, next, TRUE), c, prev, next)
  <1> DEFINE p == PreemptTask(s, prev, next, TRUE)
             q == [p EXCEPT !.preempted[prev] = FALSE, !.prio_boost[prev] = TRUE]
             e == Enqueue(q, prev)
             r == [e EXCEPT !.prio_boost[next] = FALSE, !.preempted[next] = FALSE,
                            !.next[c] = NoTask]
  <1>1. ReplaceExistingTask(s, c, next, TRUE) = r
    BY DEF ReplaceExistingTask
  <1>2. Swapped(s, p, c, prev, next)
    BY SwapPlaces, Zenon
  <1> HIDE DEF p
  <1>3. Sane(p) /\ Nowhere(p, prev) /\ Where(p, next) /\ Touches(s, p, {prev, next})
    BY <1>2 DEF Swapped
  <1>4. Reflagged(p, q, prev) /\ Preempted(q, prev, FALSE)
    BY <1>3, DemotePlaces, Zenon
  <1> HIDE DEF q
  <1>5. Sane(q) /\ Nowhere(q, prev)
    BY <1>3, <1>4, SameStays DEF Reflagged
  <1>6. /\ Sane(e) /\ Where(e, prev) /\ Touches(q, e, {prev})
        /\ e.run_state[prev] = "QUEUED"
    BY <1>5, EnqueuePlaces
  <1>7. /\ e.preempted = q.preempted /\ e.prio_boost = q.prio_boost
        /\ e.yielding_tasks_ = q.yielding_tasks_ /\ e.ok = q.ok /\ e.cpu = q.cpu
        /\ e.in_switchto = q.in_switchto /\ e.alive = q.alive
        /\ e.current = q.current /\ e.next = q.next
    BY <1>5, EnqueueFields, Zenon DEF Sane
  <1> HIDE DEF e
  <1>8. e.next[c] = NoTask
    <2>1. s.next[c] = NoTask
      BY SchedulerAssumption, Zenon DEF Sane, Exclusive
    <2> QED BY <1>2, <1>4, <1>7, <2>1 DEF Swapped, Reflagged
  <1>9. Reflagged(e, r, next) /\ Preempted(r, next, FALSE)
    BY <1>6, <1>8, ClearPlaces, Zenon
  <1> HIDE DEF r
  <1>10. prev # next
    BY DEF Nowhere
  <1>11. Touches(s, r, {prev, next})
    <2>1. Touches(p, q, {prev, next}) /\ Touches(q, e, {prev, next}) /\ Touches(e, r, {prev, next})
      <3>1. Touches(p, q, {prev}) /\ Touches(q, e, {prev}) /\ Touches(e, r, {next})
        BY <1>4, <1>6, <1>9 DEF Reflagged
      <3> QED BY <3>1, TouchesMore
    <2>2. Touches(s, q, {prev, next})
      BY <1>3, <2>1, TouchesChain
    <2>3. Touches(s, e, {prev, next})
      BY <2>1, <2>2, TouchesChain
    <2> QED BY <2>1, <2>3, TouchesChain
  <1>12. SameWhere(e, r, prev) /\ SameFlags(e, r, prev) /\ SameWhere(e, r, next)
    BY <1>9, <1>10 DEF Reflagged, Touches
  <1>13. SameWhere(p, q, next) /\ SameWhere(q, e, next)
    BY <1>4, <1>6, <1>10 DEF Reflagged, Touches
  <1>14. Where(r, prev)
    BY <1>6, <1>12, SameStays
  <1>15. Where(r, next)
    <2>1. Where(q, next)
      BY <1>3, <1>13, SameStays
    <2>2. Where(e, next)
      BY <1>13, <2>1, SameStays
    <2> QED BY <1>12, <2>2, SameStays
  <1>16. ~r.preempted[prev] /\ ~r.preempted[next]
    BY <1>4, <1>7, <1>9, <1>12 DEF Preempted, SameFlags
  <1>17. Flags(r, prev) /\ Flags(r, next)
    BY <1>16 DEF Flags
  <1>18. /\ r.run_state[prev] = "QUEUED" /\ r.run_state[next] = "ON_CPU" /\ r.cpu[next] = c
    <2>1. p.run_state[next] = "ON_CPU" /\ p.cpu[next] = c
      BY <1>2 DEF Swapped
    <2>2. /\ q.run_state[next] = p.run_state[next] /\ q.cpu[next] = p.cpu[next]
          /\ e.run_state[next] = q.run_state[next] /\ e.cpu[next] = q.cpu[next]
      BY <1>13 DEF SameWhere
    <2>3. /\ r.run_state[prev] = e.run_state[prev]
          /\ r.run_state[next] = e.run_state[next] /\ r.cpu[next] = e.cpu[next]
      BY <1>12 DEF SameWhere
    <2> QED BY <1>6, <2>1, <2>2, <2>3
  <1>19. /\ Yielding(r) = Yielding(s)
         /\ r.ok = s.ok /\ r.in_switchto = s.in_switchto
         /\ r.alive = s.alive /\ r.next = s.next
         /\ r.current[c] = next /\ \A d \in CPU \ {c} : r.current[d] = s.current[d]
    <2>1. Yielding(e) = Yielding(q)
      BY <1>7 DEF Yielding
    <2>2. /\ Yielding(p) = Yielding(s)
          /\ p.ok = s.ok /\ p.in_switchto = s.in_switchto
          /\ p.alive = s.alive /\ p.next = s.next
          /\ p.current[c] = next /\ \A d \in CPU \ {c} : p.current[d] = s.current[d]
      BY <1>2 DEF Swapped
    <2>3. /\ Yielding(q) = Yielding(p) /\ Yielding(r) = Yielding(e)
          /\ q.ok = p.ok /\ q.in_switchto = p.in_switchto
          /\ q.alive = p.alive /\ q.next = p.next /\ q.current = p.current
          /\ r.ok = e.ok /\ r.in_switchto = e.in_switchto
          /\ r.alive = e.alive /\ r.next = e.next /\ r.current = e.current
      BY <1>4, <1>9 DEF Reflagged
    <2> QED BY <1>7, <2>1, <2>2, <2>3
  <1>20. Sane(r)
    BY <1>9 DEF Reflagged
  <1> QED BY <1>1, <1>11, <1>14, <1>15, <1>16, <1>17, <1>18, <1>19, <1>20, Zenon DEF Replaced

(* Enqueue does not look at the CPUs.                                      *)
LEMMA EnqueueCommutes ==
    ASSUME NEW s \in Scheduler, NEW t \in Task, NEW c \in CPU
    PROVE  [Enqueue(s, t) EXCEPT !.current[c] = NoTask]
              = Enqueue([s EXCEPT !.current[c] = NoTask], t)
  <1> DEFINE m == [s.current EXCEPT ![c] = NoTask]
             r == [s EXCEPT !.current = m]
  <1>1. /\ r.prio_boost = s.prio_boost /\ r.preempted = s.preempted
        /\ r.high_priority = s.high_priority /\ r.run_queue_ = s.run_queue_
        /\ r.run_queue_low_priority_ = s.run_queue_low_priority_
        /\ r.run_state = s.run_state
    BY DEF Scheduler
  <1>2. /\ Push(r, t, r.run_queue_) = Push(s, t, s.run_queue_)
        /\ Push(r, t, r.run_queue_low_priority_) = Push(s, t, s.run_queue_low_priority_)
    BY <1>1 DEF Push
  <1> DEFINE a == Push(s, t, s.run_queue_)
             b == Push(s, t, s.run_queue_low_priority_)
             f == [s.run_state EXCEPT ![t] = "QUEUED"]
  <1>3. Enqueue(s, t) = IF s.high_priority[t]
                        THEN [s EXCEPT !.run_state = f, !.run_queue_ = a]
                        ELSE [s EXCEPT !.run_state = f, !.run_queue_low_priority_ = b]
    BY DEF Enqueue, Scheduler
  <1>4. Enqueue(r, t) = IF s.high_priority[t]
                        THEN [r EXCEPT !.run_state = f, !.run_queue_ = a]
                        ELSE [r EXCEPT !.run_state = f, !.run_queue_low_priority_ = b]
    BY <1>1, <1>2, Zenon DEF Enqueue, Scheduler
  <1>5. Enqueue(s, t).current = s.current
    BY EnqueueFields, Zenon
  <1> HIDE DEF a, b, f, m
  <1>6. [Enqueue(s, t) EXCEPT !.current = m] = Enqueue(r, t)
    BY <1>3, <1>4, Zenon DEF Scheduler
  <1> QED BY <1>5, <1>6 DEF m

(* The task next is put aside, and prev goes back to its queue.            *)
PutAside(s, r, c, prev, next) ==
    /\ Sane(r) /\ Touches(s, r, {prev, next})
    /\ Where(r, prev) /\ Flags(r, prev) /\ r.run_state[prev] = "QUEUED"
    /\ Where(r, next) /\ Flags(r, next) /\ r.run_state[next] = "YIELDING"
    /\ ~r.preempted[prev] /\ r.preempted[next] = s.preempted[next]
    /\ Yielding(r) = Yielding(s) \cup {next}
    /\ r.ok = s.ok /\ r.in_switchto = s.in_switchto
    /\ r.alive = s.alive /\ r.next = s.next
    /\ r.current[c] = NoTask /\ \A d \in CPU \ {c} : r.current[d] = s.current[d]

(* ReplaceExistingTask when its transaction does not commit.               *)
LEMMA ReplaceFails ==
    ASSUME NEW s, NEW c \in CPU, NEW prev \in Task, NEW next \in Task,
           Sane(s), Where(s, prev), Nowhere(s, next), s.current[c] = prev,
           s.run_state[next] = "QUEUED", Flags(s, next)
    PROVE  PutAside(s, ReplaceExistingTask(s, c, next, FALSE), c, prev, next)
  <1> DEFINE q == [s EXCEPT !.preempted[prev] = FALSE, !.prio_boost[prev] = TRUE]
             o == [q EXCEPT !.current[c] = NoTask]
             e == Enqueue(o, prev)
             r == Yield(e, next)
  <1>0. /\ s \in Scheduler /\ s.run_state[prev] = "ON_CPU" /\ s.cpu[prev] = c
        /\ prev # next
    BY DEF Sane, Where, Nowhere
  <1>1. Reflagged(s, q, prev) /\ Preempted(q, prev, FALSE)
    BY DemotePlaces, Zenon
  <1>2. ReplaceExistingTask(s, c, next, FALSE) = r
    <2> DEFINE p == /\ s.run_state[prev] = "ON_CPU"
                    /\ next \in Task \ {prev} => s.run_state[next] # "ON_CPU"
    <2>1. p = TRUE
      BY <1>0
    <2>2. CHECK(s, p) = s
      BY <2>1, CheckHolds, Zenon
    <2>3. PreemptTask(s, prev, next, FALSE) = s
      BY <2>2, Zenon DEF PreemptTask
    <2>4. ReplaceExistingTask(s, c, next, FALSE)
            = Yield([Enqueue(q, prev) EXCEPT !.current[c] = NoTask], next)
      BY <2>3, Zenon DEF ReplaceExistingTask
    <2>5. q \in Scheduler
      BY <1>1 DEF Reflagged, Sane
    <2> HIDE DEF q
    <2>6. [Enqueue(q, prev) EXCEPT !.current[c] = NoTask] = e
      BY <2>5, EnqueueCommutes
    <2> QED BY <2>4, <2>6, Zenon
  <1> HIDE DEF q
  <1>3. Sane(q) /\ Where(q, prev) /\ Nowhere(q, next) /\ Touches(s, q, {prev})
    <2>1. SameWhere(s, q, next)
      BY <1>0, <1>1 DEF Reflagged, Touches
    <2> QED BY <1>1, <2>1, SameStays DEF Reflagged
  <1>4. q.run_state[prev] = "ON_CPU" /\ q.cpu[prev] = c
    BY <1>0, <1>1 DEF Reflagged
  <1>5. /\ Sane(o) /\ Nowhere(o, prev) /\ Touches(q, o, {prev})
        /\ Yielding(o) = Yielding(q)
        /\ o.ok = q.ok /\ o.in_switchto = q.in_switchto
        /\ o.preempted = q.preempted /\ o.run_state = q.run_state
        /\ o.alive = q.alive /\ o.next = q.next
        /\ o.current[c] = NoTask /\ \A d \in CPU \ {c} : o.current[d] = q.current[d]
    <2>1. Sane(q) /\ Where(q, prev)
      BY <1>3, Zenon
    <2> QED BY <2>1, <1>4, TakeOffPlaces
  <1> HIDE DEF o
  <1>6. /\ Sane(e) /\ Where(e, prev) /\ Touches(o, e, {prev})
        /\ e.run_state[prev] = "QUEUED"
    BY <1>5, EnqueuePlaces, Zenon
  <1>7. /\ e.preempted = o.preempted
        /\ e.yielding_tasks_ = o.yielding_tasks_ /\ e.ok = o.ok
        /\ e.in_switchto = o.in_switchto /\ e.alive = o.alive
        /\ e.current = o.current /\ e.next = o.next
    BY <1>5, EnqueueFields, Zenon DEF Sane
  <1> HIDE DEF e
  <1>8. Touches(s, e, {prev})
    <2>1. Touches(s, o, {prev})
      BY <1>3, <1>5, TouchesChain
    <2> QED BY <1>6, <2>1, TouchesChain
  <1>9. SameWhere(s, e, next) /\ SameFlags(s, e, next)
    BY <1>0, <1>8 DEF Touches
  <1>10. Nowhere(e, next) /\ e.run_state[next] = "QUEUED"
    BY <1>9, SameStays DEF SameWhere
  <1>11. /\ Sane(r) /\ Where(r, next) /\ Touches(e, r, {next})
         /\ r.run_state[next] = "YIELDING"
         /\ Yielding(r) = Yielding(e) \cup {next}
         /\ r.ok = e.ok /\ r.in_switchto = e.in_switchto
         /\ r.preempted = e.preempted /\ r.prio_boost = e.prio_boost
         /\ r.alive = e.alive /\ r.current = e.current /\ r.next = e.next
    BY <1>6, <1>10, YieldPlaces, Zenon
  <1> HIDE DEF r
  <1>12. Touches(s, r, {prev, next})
    <2>1. Touches(s, e, {prev, next}) /\ Touches(e, r, {prev, next})
      BY <1>8, <1>11, TouchesMore
    <2> QED BY <2>1, TouchesChain
  <1>13. SameWhere(e, r, prev)
    BY <1>0, <1>11 DEF Touches
  <1>14. Where(r, prev) /\ r.run_state[prev] = "QUEUED"
    <2>1. Where(r, prev)
      BY <1>6, <1>13, SameStays
    <2>2. r.run_state[prev] = e.run_state[prev]
      BY <1>13 DEF SameWhere
    <2> QED BY <1>6, <2>1, <2>2
  <1>15. ~r.preempted[prev]
    BY <1>1, <1>5, <1>7, <1>11 DEF Preempted
  <1>16. r.preempted[next] = s.preempted[next] /\ r.prio_boost[next] = s.prio_boost[next]
    BY <1>9, <1>11 DEF SameFlags
  <1>17. Flags(r, prev) /\ Flags(r, next)
    BY <1>11, <1>15, <1>16, Zenon DEF Flags
  <1>18. Yielding(r) = Yielding(s) \cup {next}
    <2>1. Yielding(e) = Yielding(o)
      BY <1>7 DEF Yielding
    <2> QED BY <1>1, <1>5, <1>11, <2>1 DEF Reflagged
  <1>19. /\ r.ok = s.ok /\ r.in_switchto = s.in_switchto
         /\ r.alive = s.alive /\ r.next = s.next
         /\ r.current[c] = NoTask /\ \A d \in CPU \ {c} : r.current[d] = s.current[d]
    <2>1. /\ q.ok = s.ok /\ q.in_switchto = s.in_switchto
          /\ q.alive = s.alive /\ q.next = s.next /\ q.current = s.current
      BY <1>1 DEF Reflagged
    <2> QED BY <1>5, <1>7, <1>11, <2>1
  <1> QED BY <1>2, <1>11, <1>12, <1>14, <1>15, <1>16, <1>17, <1>18, <1>19, Zenon DEF PutAside

(* The task prev loses CPU c and goes back to its queue.                   *)
Evicted(s, r, c, prev) ==
    /\ Sane(r) /\ Where(r, prev) /\ Touches(s, r, {prev})
    /\ r.run_state[prev] = "QUEUED" /\ ~r.preempted[prev] /\ Flags(r, prev)
    /\ Yielding(r) = Yielding(s)
    /\ r.ok = s.ok /\ r.in_switchto = s.in_switchto
    /\ r.alive = s.alive /\ r.next = s.next
    /\ r.current[c] = NoTask /\ \A d \in CPU \ {c} : r.current[d] = s.current[d]

(* The end of VacateCpu for a CPU with a current task.                     *)
LEMMA EvictPlaces ==
    ASSUME NEW s, NEW c \in CPU, NEW prev \in Task, Sane(s), Where(s, prev),
           s.current[c] = prev, ~s.preempted[prev]
    PROVE  Evicted(s, [Enqueue([PreemptTask(s, prev, NoTask, TRUE)
                                   EXCEPT !.prio_boost[prev] = TRUE], prev)
                         EXCEPT !.current[c] = NoTask], c, prev)
  <1> DEFINE p == [s EXCEPT !.current[c] = NoTask]
             q == [p EXCEPT !.prio_boost[prev] = TRUE]
             e == Enqueue(q, prev)
             r == [e EXCEPT !.current[c] = NoTask]
  <1>0. /\ s \in Scheduler /\ s.run_state[prev] = "ON_CPU" /\ s.cpu[prev] = c
        /\ prev # NoTask
    BY SchedulerAssumption DEF Sane, Where
  <1>1. PreemptTask(s, prev, NoTask, TRUE) = p
    <2> DEFINE h == /\ s.run_state[prev] = "ON_CPU"
                    /\ NoTask \in Task \ {prev} => s.run_state[NoTask] # "ON_CPU"
    <2>1. h = TRUE
      BY <1>0, SchedulerAssumption
    <2>2. CHECK(s, h) = s
      BY <2>1, CheckHolds, Zenon
    <2> QED BY <1>0, <2>2, Zenon DEF PreemptTask
  <1>2. /\ Sane(p) /\ Nowhere(p, prev) /\ Touches(s, p, {prev})
        /\ Yielding(p) = Yielding(s)
        /\ p.ok = s.ok /\ p.in_switchto = s.in_switchto
        /\ p.preempted = s.preempted
        /\ p.alive = s.alive /\ p.next = s.next
        /\ p.current[c] = NoTask /\ \A d \in CPU \ {c} : p.current[d] = s.current[d]
    BY <1>0, TakeOffPlaces
  <1> HIDE DEF p
  <1>3. Reflagged(p, q, prev) /\ q.preempted = p.preempted
    BY <1>2, PromotePlaces
  <1> HIDE DEF q
  <1>4. Sane(q) /\ Nowhere(q, prev) /\ Touches(p, q, {prev})
    BY <1>2, <1>3, SameStays DEF Reflagged
  <1>5. /\ Sane(e) /\ Where(e, prev) /\ Touches(q, e, {prev})
        /\ e.run_state[prev] = "QUEUED"
    BY <1>4, EnqueuePlaces
  <1>6. /\ e.preempted = q.preempted
        /\ e.yielding_tasks_ = q.yielding_tasks_ /\ e.ok = q.ok
        /\ e.in_switchto = q.in_switchto /\ e.alive = q.alive
        /\ e.current = q.current /\ e.next = q.next
    BY <1>4, EnqueueFields, Zenon DEF Sane
  <1> HIDE DEF e
  <1>7. e.current[c] = NoTask /\ \A d \in CPU \ {c} : e.current[d] = s.current[d]
    BY <1>2, <1>3, <1>6 DEF Reflagged
  <1>8. r = e
    <2>1. [e.current EXCEPT ![c] = NoTask] = e.current
      BY <1>5, <1>7 DEF Sane, Scheduler
    <2> QED BY <1>5, <2>1 DEF Sane, Scheduler
  <1> HIDE DEF r
  <1>9. Touches(s, e, {prev})
    <2>1. Touches(s, q, {prev})
      BY <1>2, <1>4, TouchesChain
    <2> QED BY <1>5, <2>1, TouchesChain
  <1>10. ~e.preempted[prev]
    BY <1>2, <1>3, <1>6
  <1>11. Flags(e, prev)
    BY <1>10 DEF Flags
  <1>12. Yielding(e) = Yielding(s)
    <2>1. Yielding(e) = Yielding(q)
      BY <1>6 DEF Yielding
    <2> QED BY <1>2, <1>3, <2>1 DEF Reflagged
  <1>13. /\ e.ok = s.ok /\ e.in_switchto = s.in_switchto
         /\ e.alive = s.alive /\ e.next = s.next
    BY <1>2, <1>3, <1>6 DEF Reflagged
  <1>14. Evicted(s, e, c, prev)
    BY <1>5, <1>7, <1>9, <1>10, <1>11, <1>12, <1>13 DEF Evicted
  <1> QED BY <1>1, <1>8, <1>14, Zenon DEF q, e, r

(* The transaction of CPU c is over: the task that was pending is there or *)
(* back in its queue.                                                      *)
Synced(s, r, txn, c) ==
    /\ Placed(r) /\ Touches(s, r, {s.next[c]})
    /\ Yielding(r) = Yielding(s) /\ r.preempted = s.preempted
    /\ r.ok = s.ok /\ r.in_switchto = s.in_switchto /\ r.alive = s.alive
    /\ r.next[c] = NoTask /\ \A d \in CPU \ {c} : r.next[d] = s.next[d]
    /\ \A d \in CPU \ {c} : r.current[d] = s.current[d]
    /\ s.next[c] = NoTask => r.current[c] = s.current[c]
    /\ s.next[c] # NoTask /\ txn[c] = "complete" =>
          /\ r.current[c] = s.next[c]
          /\ r.run_state[s.next[c]] = "ON_CPU" /\ r.cpu[s.next[c]] = c
    /\ s.next[c] # NoTask /\ txn[c] # "complete" =>
          /\ r.current[c] = NoTask
          /\ r.run_state[s.next[c]] = "QUEUED"

(* SyncCpuState of a CPU whose transaction, if any, is over.               *)
LEMMA SyncPlaces ==
    ASSUME NEW s, NEW txn, NEW c \in CPU, Placed(s), committed(txn, c)
    PROVE  Synced(s, SyncCpuState(s, txn, c), txn, c)
  <1> DEFINE r == SyncCpuState(s, txn, c)
  <1>0. Sane(s) /\ s \in Scheduler /\ \A u \in Task : Where(s, u) /\ Flags(s, u)
    BY DEF Placed, Sane
  <1>1. s.next[c] \in Task \cup {NoTask} /\ NoTask \notin Task
    BY <1>0, SchedulerAssumption, Zenon DEF Scheduler
  <1>2. CASE s.next[c] = NoTask
    <2>1. r = s
      BY <1>2 DEF SyncCpuState
    <2>2. Touches(s, s, {NoTask})
      BY DEF Touches, SameWhere, SameFlags
    <2> QED BY <1>2, <2>1, <2>2 DEF Synced
  <1>3. CASE s.next[c] # NoTask
    <2>1. PICK t \in Task : s.next[c] = t
      BY <1>1, <1>3
    <2>2. Sane(s) /\ Where(s, t) /\ Flags(s, t) /\ s.run_state[t] = "PENDING"
      BY <1>0, <2>1 DEF Where
    <2>3. ~s.preempted[t]
      BY <2>2 DEF Flags
    <2>4. s.current[c] = NoTask
      BY <1>0, <1>1, <2>1, Zenon DEF Sane, Exclusive
    <2>5. CASE txn[c] = "complete"
      <3>0. Landed(s, r, c, t)
        BY <2>1, <2>2, <2>5, SyncCompletes, Zenon
      <3> HIDE DEF r
      <3>1. /\ Sane(r) /\ Where(r, t) /\ Touches(s, r, {t})
            /\ r.run_state[t] = "ON_CPU" /\ r.cpu[t] = c
            /\ r.preempted = s.preempted
            /\ Yielding(r) = Yielding(s)
            /\ r.ok = s.ok /\ r.in_switchto = s.in_switchto
            /\ r.alive = s.alive
            /\ r.current[c] = t /\ \A d \in CPU \ {c} : r.current[d] = s.current[d]
            /\ r.next[c] = NoTask /\ \A d \in CPU \ {c} : r.next[d] = s.next[d]
        BY <3>0, Zenon DEF Landed
      <3>2. Flags(r, t)
        BY <2>3, <3>1 DEF Flags
      <3>3. Placed(r)
        BY <3>1, <3>2, TouchedPlaced
      <3> QED BY <1>3, <2>1, <2>5, <3>1, <3>3, Zenon DEF Synced, r
    <2>6. CASE txn[c] # "complete"
      <3>0. Bounced(s, r, c, t)
        BY <2>1, <2>2, <2>6, SyncFails, Zenon
      <3> HIDE DEF r
      <3>1. /\ Sane(r) /\ Where(r, t) /\ Touches(s, r, {t})
            /\ r.run_state[t] = "QUEUED"
            /\ r.prio_boost = s.prio_boost /\ r.preempted = s.preempted
            /\ Yielding(r) = Yielding(s)
            /\ r.ok = s.ok /\ r.in_switchto = s.in_switchto
            /\ r.alive = s.alive
            /\ r.current = s.current
            /\ r.next[c] = NoTask /\ \A d \in CPU \ {c} : r.next[d] = s.next[d]
        BY <3>0 DEF Bounced
      <3>2. Flags(r, t)
        BY <2>3, <3>1 DEF Flags
      <3>3. Placed(r)
        BY <3>1, <3>2, TouchedPlaced
      <3> QED BY <1>3, <2>1, <2>4, <2>6, <3>1, <3>3, Zenon DEF Synced, r
    <2> QED BY <2>5, <2>6
  <1> QED BY <1>2, <1>3

(* CPU c has no task any more: the ones it had are in their queues.        *)
Vacated(s, r, c) ==
    /\ Placed(r) /\ Touches(s, r, {s.current[c], s.next[c]})
    /\ \A t \in Task : t \in {s.current[c], s.next[c]} =>
          r.run_state[t] = "QUEUED" /\ ~r.preempted[t]
    /\ Yielding(r) = Yielding(s)
    /\ r.ok = s.ok /\ r.in_switchto = s.in_switchto /\ r.alive = s.alive
    /\ r.current[c] = NoTask /\ \A d \in CPU \ {c} : r.current[d] = s.current[d]
    /\ r.next[c] = NoTask /\ \A d \in CPU \ {c} : r.next[d] = s.next[d]

(* VacateCpu.                                                              *)
LEMMA VacatePlaces ==
    ASSUME NEW s, NEW txn, NEW c \in CPU, Placed(s), committed(txn, c)
    PROVE  Vacated(s, VacateCpu(s, txn, c), c)
  <1> DEFINE q == SyncCpuState(s, txn, c)
             r == VacateCpu(s, txn, c)
  <1>0. Sane(s) /\ s \in Scheduler /\ \A u \in Task : Where(s, u) /\ Flags(s, u)
    BY DEF Placed, Sane
  <1>1. /\ s.next[c] \in Task \cup {NoTask} /\ NoTask \notin Task
        /\ s.current[c] \in Task \cup {NoTask}
        /\ s.current[c] = NoTask \/ s.next[c] = NoTask
    BY <1>0, SchedulerAssumption DEF Scheduler, Sane, Exclusive
  <1>2. CHECK(s, committed(txn, c)) = s
    <2>1. committed(txn, c) = TRUE
      BY DEF committed
    <2> QED BY <1>0, <2>1, CheckHolds, Zenon
  <1>3. Synced(s, q, txn, c)
    BY SyncPlaces
  <1>4. q.current[c] = NoTask => r = q
    BY <1>2, Zenon DEF VacateCpu
  <1>5. ASSUME NEW prev \in Task, q.current[c] = prev
        PROVE  r = [Enqueue([PreemptTask(q, prev, NoTask, TRUE)
                                EXCEPT !.prio_boost[prev] = TRUE], prev)
                      EXCEPT !.current[c] = NoTask]
    BY <1>1, <1>2, <1>5, Zenon DEF VacateCpu
  <1> HIDE DEF q, r
  <1>6. ASSUME NEW t \in Task, t \in {s.current[c], s.next[c]}
        PROVE  ~q.preempted[t]
    <2>1. s.run_state[t] \in {"ON_CPU", "PENDING"}
      BY <1>0, <1>6 DEF Where
    <2>2. ~s.preempted[t]
      BY <1>0, <2>1 DEF Flags
    <2> QED BY <1>3, <2>2 DEF Synced
  <1>7. Touches(s, q, {s.current[c], s.next[c]})
    BY <1>3, TouchesMore, Zenon DEF Synced
  <1>8. CASE q.current[c] = NoTask
    <2>1. \A t \in Task : t \in {s.current[c], s.next[c]} => q.run_state[t] = "QUEUED"
      BY <1>1, <1>3, <1>8 DEF Synced
    <2> QED BY <1>3, <1>4, <1>6, <1>7, <1>8, <2>1, Zenon DEF Synced, Vacated, r
  <1>9. CASE q.current[c] # NoTask
    <2>1. PICK t \in Task : q.current[c] = t
      BY <1>3, <1>9, Zenon DEF Synced, Placed, Sane, Scheduler
    <2>2. t \in {s.current[c], s.next[c]} /\ {s.current[c], s.next[c]} = {t, NoTask}
      BY <1>1, <1>3, <1>9, <2>1, Zenon DEF Synced
    <2>3. Sane(q) /\ Where(q, t) /\ ~q.preempted[t] /\ Placed(q)
      BY <1>3, <1>6, <2>2 DEF Synced, Placed
    <2>4. Evicted(q, r, c, t)
      <3> DEFINE e == [Enqueue([PreemptTask(q, t, NoTask, TRUE)
                                   EXCEPT !.prio_boost[t] = TRUE], t)
                         EXCEPT !.current[c] = NoTask]
      <3>1. r = e
        BY <1>5, <2>1, Zenon
      <3>2. Evicted(q, e, c, t)
        BY <2>1, <2>3, EvictPlaces, Zenon
      <3> QED BY <3>1, <3>2
    <2>5. Placed(r)
      <3>1. Sane(r) /\ Where(r, t) /\ Flags(r, t) /\ Touches(q, r, {t})
        BY <2>4 DEF Evicted
      <3> QED BY <2>3, <3>1, TouchedPlaced
    <2>6. Touches(s, r, {s.current[c], s.next[c]})
      <3>1. Touches(q, r, {s.current[c], s.next[c]})
        BY <2>2, <2>4, TouchesMore DEF Evicted
      <3> QED BY <1>7, <3>1, TouchesChain
    <2>7. \A u \in Task : u \in {s.current[c], s.next[c]} =>
             r.run_state[u] = "QUEUED" /\ ~r.preempted[u]
      BY <1>1, <2>2, <2>4 DEF Evicted
    <2> QED BY <1>3, <2>4, <2>5, <2>6, <2>7, Zenon DEF Synced, Evicted, Vacated, r
  <1> QED BY <1>8, <1>9

(***************************************************************************)
(* UnyieldAll.                                                             *)
(***************************************************************************)
(* What holds of 0, and of n + 1 when it holds of n, holds of all numbers. *)
LEMMA NatSetInduction ==
    ASSUME NEW S, 0 \in S, \A n \in Nat : n \in S => n + 1 \in S
    PROVE  Nat \subseteq S
  <1> DEFINE T == Nat \ S
  <1> SUFFICES ASSUME T # {} PROVE FALSE
    OBVIOUS
  <1> DEFINE x == Min(T)
  <1>1. x \in T /\ \A y \in T : x <= y
    BY MinFacts
  <1> HIDE DEF x
  <1>2. x # 0 /\ x - 1 \in Nat
    BY <1>1
  <1>3. x - 1 \in S
    BY <1>1, <1>2
  <1> QED BY <1>1, <1>2, <1>3

(* The largest number of a set.                                            *)
LEMMA MaxIs ==
    ASSUME NEW T, T \subseteq Nat, NEW m \in T, \A y \in T : y <= m
    PROVE  Max(T) = m
  <1>1. \A y \in T : m >= y
    OBVIOUS
  <1>2. Max(T) \in T /\ \A y \in T : Max(T) >= y
    BY <1>1, Zenon DEF Max
  <1>3. \A x \in T : x >= m /\ m >= x => x = m
    OBVIOUS
  <1> QED BY <1>1, <1>2, <1>3, Zenon

(* The body of the loop of UnyieldAll, and what the loop has done after    *)
(* the elements of y whose indices are in S.                               *)
UnyieldOne(r, t) == Enqueue(CHECK(r, r.run_state[t] = "YIELDING"), t)

(* g gives the state of the loop of UnyieldAll after the indices of a set. *)
UnyieldLoop(g, s, y, D) ==
    g = [S \in SUBSET D |-> IF S = {} THEN s
                            ELSE UnyieldOne(g[S \ {Max(S)}], y[Max(S)])]

(* There is such a function: the definition is by recursion over the sets  *)
(* of indices.                                                             *)
LEMMA UnyieldLoopExists ==
    ASSUME NEW s, NEW y, NEW n \in Nat
    PROVE  \E g : UnyieldLoop(g, s, y, 1 .. n)
  <1> DEFINE I == {m \in Nat : \E g : UnyieldLoop(g, s, y, 1 .. m)}
  <1>1. 0 \in I
    <2> DEFINE g == [S \in SUBSET {} |-> s]
    <2>1. 1 .. 0 = {}
      OBVIOUS
    <2>2. UnyieldLoop(g, s, y, 1 .. 0)
      BY <2>1 DEF UnyieldLoop
    <2> QED BY <2>2
  <1>2. ASSUME NEW m \in Nat, m \in I
        PROVE  m + 1 \in I
    <2>1. PICK g : UnyieldLoop(g, s, y, 1 .. m)
      BY <1>2
    <2> DEFINE h == [S \in SUBSET (1 .. m + 1) |->
                        IF m + 1 \in S THEN UnyieldOne(g[S \ {m + 1}], y[m + 1]) ELSE g[S]]
    <2>2. ASSUME NEW S \in SUBSET (1 .. m + 1)
          PROVE  h[S] = IF S = {} THEN s
                        ELSE UnyieldOne(h[S \ {Max(S)}], y[Max(S)])
      <3>1. CASE m + 1 \in S
        <4>1. Max(S) = m + 1
          <5>1. S \subseteq Nat /\ \A x \in S : x <= m + 1
            OBVIOUS
          <5> QED BY <3>1, <5>1, MaxIs, Zenon
        <4>2. S \ {m + 1} \in SUBSET (1 .. m + 1) /\ m + 1 \notin S \ {m + 1}
          OBVIOUS
        <4>3. h[S \ {m + 1}] = g[S \ {m + 1}]
          BY <4>2
        <4> QED BY <3>1, <4>1, <4>3
      <3>2. CASE m + 1 \notin S
        <4>1. S \in SUBSET (1 .. m)
          BY <3>2
        <4>2. h[S] = g[S]
          BY <3>2
        <4>3. g[S] = IF S = {} THEN s ELSE UnyieldOne(g[S \ {Max(S)}], y[Max(S)])
          BY <2>1, <4>1, Zenon DEF UnyieldLoop
        <4>4. h[S \ {Max(S)}] = g[S \ {Max(S)}]
          <5> DEFINE x == S \ {Max(S)}
          <5>1. x \in SUBSET (1 .. m + 1) /\ m + 1 \notin x
            BY <3>2, Zenon
          <5> HIDE DEF x
          <5>2. h[x] = g[x]
            BY <5>1
          <5> QED BY <5>2 DEF x
        <4> QED BY <4>2, <4>3, <4>4
      <3> QED BY <3>1, <3>2
    <2> DEFINE k == [S \in SUBSET (1 .. m + 1) |-> IF S = {} THEN s
                            ELSE UnyieldOne(h[S \ {Max(S)}], y[Max(S)])]
    <2>3. h = k
      <3> HIDE DEF h
      <3>1. DOMAIN h = SUBSET (1 .. m + 1) /\ h = [S \in SUBSET (1 .. m + 1) |-> h[S]]
        BY DEF h
      <3> QED BY <2>2, <3>1, Zenon
    <2>4. UnyieldLoop(h, s, y, 1 .. m + 1)
      BY <2>3, Zenon DEF UnyieldLoop
    <2> HIDE DEF h
    <2> QED BY <2>4
  <1> HIDE DEF I
  <1>3. Nat \subseteq I
    BY <1>1, <1>2, NatSetInduction
  <1> QED BY <1>3 DEF I

(* UnyieldAll is that loop over every index, and then the clearing of the  *)
(* list.                                                                   *)
LEMMA UnyieldAllIs ==
    ASSUME NEW s, s.yielding_tasks_ \in Seq(Task)
    PROVE  LET y == s.yielding_tasks_
           IN  \E g : /\ UnyieldLoop(g, s, y, 1 .. Len(y))
                      /\ UnyieldAll(s) = [g[1 .. Len(y)] EXCEPT !.yielding_tasks_ = << >>]
  <1> DEFINE y == s.yielding_tasks_
             D == 1 .. Len(y)
             g == CHOOSE f : UnyieldLoop(f, s, y, D)
  <1>1. DOMAIN y = D /\ Len(y) \in Nat
    OBVIOUS
  <1>2. UnyieldLoop(g, s, y, D)
    BY <1>1, UnyieldLoopExists
  <1>3. UnyieldAll(s) = [g[D] EXCEPT !.yielding_tasks_ = << >>]
    BY <1>1 DEF UnyieldAll, UnyieldEach, MapThenFoldSet, UnyieldLoop, UnyieldOne
  <1> HIDE DEF g
  <1> QED BY <1>2, <1>3

(* The tasks y[1], ..., y[i] are back in the run queues.                   *)
PartlyUnyielded(s, r, y, i) ==
    /\ r \in Scheduler /\ QueuesOK(r)
    /\ r.yielding_tasks_ = y
    /\ Queued(r) = Queued(s) \cup {y[j] : j \in 1 .. i}
    /\ \A u \in Task : r.run_state[u] = IF u \in {y[j] : j \in 1 .. i}
                                        THEN "QUEUED" ELSE s.run_state[u]
    /\ r.alive = s.alive /\ r.cpu = s.cpu
    /\ r.prio_boost = s.prio_boost /\ r.preempted = s.preempted
    /\ r.current = s.current /\ r.next = s.next
    /\ r.in_switchto = s.in_switchto /\ r.ok = s.ok

(* One round of the loop of UnyieldAll.                                    *)
LEMMA UnyieldOnePlaces ==
    ASSUME NEW s, NEW r, NEW y, NEW i \in Nat, Placed(s), y = s.yielding_tasks_,
           i + 1 \in 1 .. Len(y), PartlyUnyielded(s, r, y, i)
    PROVE  PartlyUnyielded(s, UnyieldOne(r, y[i + 1]), y, i + 1)
  <1> DEFINE Y == {y[j] : j \in 1 .. i}
             Z == {y[j] : j \in 1 .. i + 1}
  <1>0. s \in Scheduler /\ y \in Seq(Task) /\ IsInjective(y) /\ DOMAIN y = 1 .. Len(y)
    <2>1. s \in Scheduler /\ IsInjective(y)
      BY DEF Placed, Sane, QueuesOK
    <2>2. y \in Seq(Task)
      BY <2>1 DEF Scheduler
    <2> QED BY <2>1, <2>2
  <1>1. PICK t \in Task : t = y[i + 1]
    BY <1>0
  <1>2. Z = Y \cup {t}
    <2>1. 1 .. i + 1 = (1 .. i) \cup {i + 1}
      OBVIOUS
    <2> QED BY <1>1, <2>1
  <1>3. t \notin Y
    <2> SUFFICES ASSUME NEW j \in 1 .. i, y[j] = t PROVE FALSE
      OBVIOUS
    <2>1. j \in 1 .. Len(y) /\ j # i + 1
      OBVIOUS
    <2> QED BY <1>0, <1>1, <2>1 DEF IsInjective
  <1>4. t \in Yielding(s)
    BY <1>0, <1>1 DEF Yielding, Range
  <1>5. s.run_state[t] = "YIELDING" /\ t \notin Queued(s)
    BY <1>4 DEF Placed, Where
  <1> HIDE DEF Y, Z
  <1>6. /\ r \in Scheduler /\ QueuesOK(r)
        /\ r.yielding_tasks_ = y
        /\ Queued(r) = Queued(s) \cup Y
        /\ \A u \in Task : r.run_state[u] = IF u \in Y THEN "QUEUED" ELSE s.run_state[u]
        /\ r.alive = s.alive /\ r.cpu = s.cpu
        /\ r.prio_boost = s.prio_boost /\ r.preempted = s.preempted
        /\ r.current = s.current /\ r.next = s.next
        /\ r.in_switchto = s.in_switchto /\ r.ok = s.ok
    BY DEF PartlyUnyielded, Y
  <1>7. r.run_state[t] = "YIELDING" /\ t \notin Queued(r)
    BY <1>3, <1>5, <1>6
  <1>8. CHECK(r, r.run_state[t] = "YIELDING") = r
    BY <1>6, <1>7, CheckFields, Zenon
  <1> DEFINE e == Enqueue(r, t)
  <1>9. UnyieldOne(r, y[i + 1]) = e
    BY <1>1, <1>8 DEF UnyieldOne
  <1>10. /\ e \in Scheduler
         /\ e.alive = r.alive
         /\ e.run_state = [r.run_state EXCEPT ![t] = "QUEUED"]
         /\ e.cpu = r.cpu
         /\ e.prio_boost = r.prio_boost
         /\ e.preempted = r.preempted
         /\ e.yielding_tasks_ = r.yielding_tasks_
         /\ e.current = r.current
         /\ e.next = r.next
         /\ e.in_switchto = r.in_switchto
         /\ e.ok = r.ok
         /\ Queued(e) = Queued(r) \cup {t}
         /\ QueuesOK(r) /\ t \notin Queued(r) => QueuesOK(e)
    BY <1>6, EnqueueFields
  <1> HIDE DEF e
  <1>11. \A u \in Task : e.run_state[u] = IF u \in Z THEN "QUEUED" ELSE s.run_state[u]
    <2>1. \A u \in Task : e.run_state[u] = IF u = t THEN "QUEUED" ELSE r.run_state[u]
      BY <1>6, <1>10 DEF Scheduler
    <2> QED BY <1>2, <1>6, <2>1
  <1>12. Queued(e) = Queued(s) \cup Z
    BY <1>2, <1>6, <1>10
  <1>13. QueuesOK(e)
    BY <1>6, <1>7, <1>10
  <1>14. PartlyUnyielded(s, e, y, i + 1)
    BY <1>6, <1>10, <1>11, <1>12, <1>13 DEF PartlyUnyielded, Z
  <1> QED BY <1>9, <1>14

(* The yielding tasks, and no other ones, are back in the run queues.      *)
Unyielded(s, r) ==
    /\ Placed(r)
    /\ r.yielding_tasks_ = << >>
    /\ \A u \in Task : r.run_state[u] = IF u \in Yielding(s) THEN "QUEUED" ELSE s.run_state[u]
    /\ r.alive = s.alive /\ r.cpu = s.cpu
    /\ r.prio_boost = s.prio_boost /\ r.preempted = s.preempted
    /\ r.current = s.current /\ r.next = s.next
    /\ r.in_switchto = s.in_switchto /\ r.ok = s.ok

(* UnyieldAll.                                                             *)
LEMMA UnyieldAllPlaces ==
    ASSUME NEW s, Placed(s)
    PROVE  Unyielded(s, UnyieldAll(s))
  <1> DEFINE y == s.yielding_tasks_
             n == Len(y)
  <1>0. s \in Scheduler /\ y \in Seq(Task) /\ n \in Nat /\ DOMAIN y = 1 .. n
    <2>1. s \in Scheduler
      BY DEF Placed, Sane
    <2>2. y \in Seq(Task)
      BY <2>1 DEF Scheduler
    <2> QED BY <2>1, <2>2
  <1>1. PICK g : /\ UnyieldLoop(g, s, y, 1 .. n)
                 /\ UnyieldAll(s) = [g[1 .. n] EXCEPT !.yielding_tasks_ = << >>]
    BY <1>0, UnyieldAllIs
  <1> DEFINE I == {i \in Nat : i <= n => PartlyUnyielded(s, g[1 .. i], y, i)}
  <1>2. 0 \in I
    <2>1. 1 .. 0 = {}
      OBVIOUS
    <2>2. g[{}] = s
      BY <1>1 DEF UnyieldLoop
    <2>3. {y[j] : j \in {}} = {}
      OBVIOUS
    <2>4. PartlyUnyielded(s, s, y, 0)
      BY <1>0, <2>1, <2>3 DEF PartlyUnyielded, Placed, Sane
    <2> QED BY <2>1, <2>2, <2>4
  <1>3. ASSUME NEW i \in Nat, i \in I
        PROVE  i + 1 \in I
    <2> SUFFICES ASSUME i + 1 <= n
                 PROVE  PartlyUnyielded(s, g[1 .. i + 1], y, i + 1)
      OBVIOUS
    <2> HIDE DEF n, y
    <2> DEFINE S == 1 .. i + 1
    <2>1. S \in SUBSET (1 .. n) /\ S # {}
      <3>1. n \in Nat
        BY <1>0
      <3>2. \A x \in S : x \in 1 .. n
        BY <3>1
      <3>3. i + 1 \in S
        OBVIOUS
      <3> QED BY <3>2, <3>3
    <2>2. Max(S) = i + 1
      <3>1. S \subseteq Nat /\ i + 1 \in S /\ \A x \in S : x <= i + 1
        OBVIOUS
      <3> QED BY <3>1, MaxIs, Zenon
    <2>3. S \ {i + 1} = 1 .. i
      OBVIOUS
    <2> HIDE DEF S
    <2>4. g[S] = UnyieldOne(g[S \ {Max(S)}], y[Max(S)])
      BY <1>1, <2>1, Zenon DEF UnyieldLoop
    <2>5. g[S] = UnyieldOne(g[1 .. i], y[i + 1])
      BY <2>2, <2>3, <2>4, Zenon
    <2>6. PartlyUnyielded(s, g[1 .. i], y, i)
      BY <1>0, <1>3
    <2>7. i + 1 \in 1 .. Len(y) /\ y = s.yielding_tasks_
      BY <1>0 DEF n, y
    <2>8. PartlyUnyielded(s, UnyieldOne(g[1 .. i], y[i + 1]), y, i + 1)
      BY <2>6, <2>7, UnyieldOnePlaces
    <2> QED BY <2>5, <2>8 DEF S
  <1> HIDE DEF I
  <1>4. Nat \subseteq I
    BY <1>2, <1>3, NatSetInduction
  <1>5. PICK q : q = g[1 .. n] /\ PartlyUnyielded(s, q, y, n)
    BY <1>0, <1>4 DEF I
  <1> DEFINE r == [q EXCEPT !.yielding_tasks_ = << >>]
  <1>6. UnyieldAll(s) = r
    BY <1>1, <1>5
  <1>7. {y[j] : j \in 1 .. n} = Yielding(s)
    BY <1>0 DEF Yielding, Range
  <1>8. /\ q \in Scheduler /\ QueuesOK(q)
        /\ Queued(q) = Queued(s) \cup Yielding(s)
        /\ \A u \in Task : q.run_state[u] = IF u \in Yielding(s)
                                            THEN "QUEUED" ELSE s.run_state[u]
        /\ q.alive = s.alive /\ q.cpu = s.cpu
        /\ q.prio_boost = s.prio_boost /\ q.preempted = s.preempted
        /\ q.current = s.current /\ q.next = s.next
        /\ q.in_switchto = s.in_switchto /\ q.ok = s.ok
    BY <1>5, <1>7 DEF PartlyUnyielded
  <1>9. /\ r.alive = q.alive /\ r.run_state = q.run_state /\ r.cpu = q.cpu
        /\ r.prio_boost = q.prio_boost /\ r.preempted = q.preempted
        /\ r.run_queue_ = q.run_queue_
        /\ r.run_queue_low_priority_ = q.run_queue_low_priority_
        /\ r.yielding_tasks_ = << >>
        /\ r.current = q.current /\ r.next = q.next
        /\ r.ok = q.ok /\ r.in_switchto = q.in_switchto
    BY <1>8 DEF Scheduler
  <1>10. r \in Scheduler
    <2>1. << >> \in Seq(Task)
      OBVIOUS
    <2> QED BY <1>8, <2>1, Zenon DEF Scheduler
  <1> HIDE DEF r
  <1>11. Queued(r) = Queued(s) \cup Yielding(s) /\ Yielding(r) = {} /\ IsInjective(r.yielding_tasks_)
    <2>1. Range(<< >>) = {} /\ IsInjective(<< >>)
      BY DEF Range, IsInjective
    <2> QED BY <1>8, <1>9, <2>1 DEF Queued, Yielding
  <1>12. Sane(r)
    BY <1>8, <1>9, <1>11, <1>10 DEF Sane, QueuesOK, Exclusive, Placed
  <1>13. ASSUME NEW u \in Task PROVE Where(r, u) /\ Flags(r, u)
    <2>1. Where(s, u) /\ Flags(s, u)
      BY DEF Placed
    <2>2. Where(r, u)
      <3>1. /\ u \in Queued(r) <=> u \in Queued(s) \/ u \in Yielding(s)
            /\ u \notin Yielding(r)
            /\ r.run_state[u] = IF u \in Yielding(s) THEN "QUEUED" ELSE s.run_state[u]
            /\ r.cpu = s.cpu /\ r.alive = s.alive /\ r.current = s.current /\ r.next = s.next
        BY <1>8, <1>9, <1>11
      <3> QED BY <2>1, <3>1 DEF Where
    <2> QED BY <1>8, <1>9, <2>1, <2>2 DEF Flags
  <1>14. Placed(r)
    BY <1>12, <1>13 DEF Placed
  <1>15. Unyielded(s, r)
    BY <1>8, <1>9, <1>14 DEF Unyielded
  <1> QED BY <1>6, <1>15

(* The tasks that Touches leaves alone look the same.                      *)
LEMMA TouchesView ==
    ASSUME NEW s, NEW q, NEW T, Touches(s, q, T)
    PROVE  \A u \in Task \ T : SameView(s, q, u)
  BY DEF Touches, SameWhere, SameFlags, SameView

(* The start of an iteration of the second loop of GlobalSchedule.         *)
LEMMA PlaceStart ==
    ASSUME NEW s, Placed(s), ~QueuesEmpty(s)
    PROVE  InHand(s, CHECK(Dequeue(s), s.run_state[Dequeued(s)] # "PENDING"), Dequeued(s))
  <1> DEFINE t == Dequeued(s)
             d == Dequeue(s)
  <1>1. /\ t \in Task /\ s.run_state[t] = "QUEUED" /\ t \in s.alive
        /\ Sane(d) /\ Nowhere(d, t) /\ Touches(s, d, {t})
        /\ d.run_state = s.run_state /\ d.cpu = s.cpu
        /\ d.ok = s.ok /\ d.in_switchto = s.in_switchto
        /\ d.preempted = s.preempted /\ d.prio_boost = s.prio_boost
        /\ d.alive = s.alive /\ d.current = s.current /\ d.next = s.next
    BY DequeuePlaces
  <1> HIDE DEF t, d
  <1>2. (s.run_state[t] # "PENDING") = TRUE
    BY <1>1
  <1>3. CHECK(d, s.run_state[t] # "PENDING") = d
    BY <1>1, <1>2, CheckHolds, Zenon
  <1>4. InHand(s, d, t)
    BY <1>1 DEF InHand
  <1> QED BY <1>3, <1>4, Zenon DEF d, t

(* Yield, Assign and ReplaceExistingTask of a task in hand.                *)
Punted(s, r, t) ==
    /\ Placed(r) /\ r.ok = s.ok /\ r.in_switchto = s.in_switchto /\ r.alive = s.alive
    /\ r.current = s.current /\ r.next = s.next
    /\ r.run_state[t] = "YIELDING" /\ r.preempted[t] = s.preempted[t]
    /\ \A u \in Task \ {t} : SameView(s, r, u)

(* Yield of the task in hand puts it among the yielding ones.              *)
LEMMA PuntPlaces ==
    ASSUME NEW s, NEW d, NEW t, Placed(s), InHand(s, d, t)
    PROVE  Punted(s, Yield(d, t), t)
  <1> DEFINE r == Yield(d, t)
  <1>0. /\ t \in Task /\ s.run_state[t] = "QUEUED"
        /\ Sane(d) /\ Nowhere(d, t) /\ Touches(s, d, {t})
        /\ d.run_state[t] = "QUEUED" /\ Flags(s, t)
        /\ d.preempted = s.preempted /\ d.prio_boost = s.prio_boost
        /\ d.alive = s.alive /\ d.current = s.current /\ d.next = s.next
        /\ d.ok = s.ok /\ d.in_switchto = s.in_switchto
    BY DEF InHand, Placed
  <1>1. /\ Sane(r) /\ Where(r, t) /\ Touches(d, r, {t})
        /\ r.run_state[t] = "YIELDING"
        /\ r.ok = d.ok /\ r.in_switchto = d.in_switchto
        /\ r.preempted = d.preempted /\ r.prio_boost = d.prio_boost
        /\ r.alive = d.alive /\ r.current = d.current /\ r.next = d.next
    BY <1>0, YieldPlaces, Zenon
  <1> HIDE DEF r
  <1>2. Touches(s, r, {t})
    BY <1>0, <1>1, TouchesChain, Zenon
  <1>3. Flags(r, t)
    BY <1>0, <1>1 DEF Flags
  <1>4. Placed(r)
    BY <1>1, <1>2, <1>3, TouchedPlaced
  <1>5. \A u \in Task \ {t} : SameView(s, r, u)
    BY <1>2, TouchesView
  <1>6. Punted(s, r, t)
    BY <1>0, <1>1, <1>4, <1>5 DEF Punted
  <1> QED BY <1>6 DEF r

(* The task t was assigned the empty CPU c.                                *)
Booked(s, r, c, t) ==
    /\ Placed(r) /\ r.ok = s.ok /\ r.in_switchto = s.in_switchto /\ r.alive = s.alive
    /\ r.current = s.current
    /\ r.next[c] = t /\ \A d \in CPU \ {c} : r.next[d] = s.next[d]
    /\ r.run_state[t] = "PENDING" /\ r.cpu[t] = c /\ ~r.preempted[t]
    /\ \A u \in Task \ {t} : SameView(s, r, u)

(* Assigning an empty CPU to the task in hand.                             *)
LEMMA BookPlaces ==
    ASSUME NEW s, NEW d, NEW t, NEW c \in CPU, Placed(s), InHand(s, d, t),
           s.current[c] = NoTask, s.next[c] = NoTask
    PROVE  Booked(s, Assign(d, c, t), c, t)
  <1> DEFINE r == Assign(d, c, t)
  <1>0. /\ t \in Task /\ Sane(d) /\ Nowhere(d, t) /\ Touches(s, d, {t})
        /\ d.alive = s.alive /\ d.current = s.current /\ d.next = s.next
        /\ d.ok = s.ok /\ d.in_switchto = s.in_switchto
        /\ d.current[c] = NoTask /\ d.next[c] = NoTask
    BY Zenon DEF InHand
  <1>1. /\ Sane(r) /\ Where(r, t) /\ Flags(r, t) /\ Touches(d, r, {t})
        /\ r.run_state[t] = "PENDING" /\ r.cpu[t] = c
        /\ ~r.preempted[t]
        /\ r.ok = d.ok /\ r.in_switchto = d.in_switchto
        /\ r.alive = d.alive /\ r.current = d.current
        /\ r.next[c] = t /\ \A e \in CPU \ {c} : r.next[e] = d.next[e]
    <2>1. /\ t \in Task /\ Sane(d) /\ Nowhere(d, t)
          /\ d.current[c] = NoTask /\ d.next[c] = NoTask
      BY <1>0
    <2>2. Promised(d, r, c, t)
      BY <2>1, AssignPlaces
    <2> HIDE DEF r
    <2> QED BY <2>2 DEF Promised
  <1> HIDE DEF r
  <1>2. Touches(s, r, {t})
    BY <1>0, <1>1, TouchesChain
  <1>3. Placed(r)
    BY <1>1, <1>2, TouchedPlaced
  <1>4. \A u \in Task \ {t} : SameView(s, r, u)
    BY <1>2, TouchesView, Zenon
  <1>5. Booked(s, r, c, t)
    BY <1>0, <1>1, <1>3, <1>4, Zenon DEF Booked
  <1> QED BY <1>5 DEF r

(* What ReplaceExistingTask finds: t in hand and prev on CPU c.            *)
Ready(s, d, c, prev, t) ==
    /\ Sane(d) /\ Where(d, prev) /\ Nowhere(d, t) /\ d.current[c] = prev
    /\ d.run_state[t] = "QUEUED" /\ Flags(d, t) /\ t \in Task /\ prev # t
    /\ s.run_state[prev] = "ON_CPU" /\ prev \in s.alive

(* Where the replacement of prev on CPU c by the task in hand starts.      *)
LEMMA ReplaceStart ==
    ASSUME NEW s, NEW d, NEW t, NEW c \in CPU, NEW prev \in Task, Placed(s), InHand(s, d, t),
           s.current[c] = prev
    PROVE  Ready(s, d, c, prev, t)
  <1>1. s.run_state[prev] = "ON_CPU" /\ prev \in s.alive /\ Where(s, prev) /\ Flags(s, t)
    BY DEF Placed, Where, InHand
  <1>2. prev # t
    BY <1>1, Zenon DEF InHand
  <1>3. SameWhere(s, d, prev)
    BY <1>2, Zenon DEF InHand, Touches
  <1>4. Where(d, prev)
    BY <1>1, <1>3, SameStays
  <1>5. Flags(d, t)
    BY <1>1 DEF InHand, Flags
  <1> QED BY <1>1, <1>2, <1>4, <1>5, Zenon DEF InHand, Ready

(* ReplaceExistingTask after a transaction that committed, and after one   *)
(* that failed.                                                            *)
ReplaceDone(d, c, t) == ReplaceExistingTask(d, c, t, TRUE)
ReplaceUndone(d, c, t) == ReplaceExistingTask(d, c, t, FALSE)

(* ReplaceExistingTask after a transaction that committed.                 *)
LEMMA ReplacePlaces ==
    ASSUME NEW s, NEW d, NEW t, NEW c \in CPU, NEW prev \in Task, Placed(s), InHand(s, d, t),
           s.current[c] = prev
    PROVE  TakesOver(s, ReplaceDone(d, c, t), c, prev, t)
  <1> DEFINE r == ReplaceDone(d, c, t)
  <1>0. /\ Sane(d) /\ Where(d, prev) /\ Nowhere(d, t) /\ d.current[c] = prev
        /\ d.run_state[t] = "QUEUED" /\ t \in Task
    <2>1. Ready(s, d, c, prev, t)
      BY ReplaceStart, Zenon
    <2> QED BY <2>1 DEF Ready
  <1>1. Replaced(d, r, c, prev, t)
    BY <1>0, ReplaceCommits, Zenon DEF ReplaceDone
  <1> HIDE DEF r
  <1>2. Touches(s, r, {prev, t})
    <2>1. Touches(s, d, {t}) /\ {t} \subseteq {prev, t}
      BY DEF InHand
    <2>2. Touches(s, d, {prev, t})
      BY <2>1, TouchesMore
    <2>3. Touches(d, r, {prev, t})
      BY <1>1 DEF Replaced
    <2> QED BY <2>2, <2>3, TouchesChain
  <1>3. Placed(r)
    <2>1. Sane(r) /\ \A u \in {prev, t} : Where(r, u) /\ Flags(r, u)
      BY <1>1 DEF Replaced
    <2> QED BY <1>2, <2>1, TouchedPlaced
  <1>4. \A u \in Task \ {prev, t} : SameView(s, r, u)
    BY <1>2, TouchesView, Zenon
  <1>5. Displaced(s, r, c, prev, t)
    BY <1>1, <1>3, <1>4, Zenon DEF Displaced, Replaced, InHand
  <1>6. TakesOver(s, r, c, prev, t)
    BY <1>1, <1>5 DEF Replaced, TakesOver
  <1> QED BY <1>6 DEF r

(* ReplaceExistingTask after a transaction that failed.                    *)
LEMMA PutAsidePlaces ==
    ASSUME NEW s, NEW d, NEW t, NEW c \in CPU, NEW prev \in Task, Placed(s), InHand(s, d, t),
           s.current[c] = prev
    PROVE  StaysOff(s, ReplaceUndone(d, c, t), c, prev, t)
  <1> DEFINE r == ReplaceUndone(d, c, t)
  <1>0. /\ Sane(d) /\ Where(d, prev) /\ Nowhere(d, t) /\ d.current[c] = prev
        /\ d.run_state[t] = "QUEUED" /\ Flags(d, t) /\ t \in Task
    <2>1. Ready(s, d, c, prev, t)
      BY ReplaceStart
    <2> QED BY <2>1 DEF Ready
  <1>1. PutAside(d, r, c, prev, t)
    BY <1>0, ReplaceFails, Zenon DEF ReplaceUndone
  <1> HIDE DEF r
  <1>2. Touches(s, r, {prev, t})
    <2>1. Touches(s, d, {t}) /\ {t} \subseteq {prev, t}
      BY DEF InHand
    <2>2. Touches(s, d, {prev, t})
      BY <2>1, TouchesMore
    <2>3. Touches(d, r, {prev, t})
      BY <1>1 DEF PutAside
    <2> QED BY <2>2, <2>3, TouchesChain
  <1>3. Placed(r)
    <2>1. Sane(r) /\ \A u \in {prev, t} : Where(r, u) /\ Flags(r, u)
      BY <1>1, Zenon DEF PutAside
    <2> QED BY <1>2, <2>1, TouchedPlaced
  <1>4. \A u \in Task \ {prev, t} : SameView(s, r, u)
    BY <1>2, TouchesView
  <1>5. Displaced(s, r, c, prev, t)
    BY <1>1, <1>3, <1>4, Zenon DEF Displaced, PutAside, InHand
  <1>6. r.run_state[t] = "YIELDING" /\ r.current[c] = NoTask
        /\ r.preempted[t] = s.preempted[t]
    BY <1>1 DEF PutAside, InHand
  <1>7. StaysOff(s, r, c, prev, t)
    BY <1>5, <1>6 DEF StaysOff
  <1> QED BY <1>7 DEF r

(* Between the scheduler s in which CPU c is vacated and t put aside and   *)
(* the one r in which t runs on c, no other task changes.                  *)
LEMMA ReplacedViews ==
    ASSUME NEW d, NEW t, NEW c, NEW prev, NEW s, NEW r, Challenges(d, t, c, prev),
           StaysOff(sched, s, c, prev, t), TakesOver(sched, r, c, prev, t),
           NEW u \in Task \ {t}
    PROVE  SameView(s, r, u) /\ (s.run_state[u] = "PENDING" => s.cpu[u] # c)
  <1>1. /\ Placed(s) /\ s.alive = sched.alive /\ s.next[c] = NoTask
        /\ s.run_state[prev] = "QUEUED" /\ ~s.preempted[prev]
        /\ \A v \in Task \ {prev, t} : SameView(sched, s, v)
    BY DEF Challenges, StaysOff, Displaced
  <1>2. /\ Placed(r) /\ r.alive = sched.alive
        /\ r.run_state[prev] = "QUEUED" /\ ~r.preempted[prev]
        /\ \A v \in Task \ {prev, t} : SameView(sched, r, v)
    BY DEF TakesOver, Displaced
  <1>3. c \in CPU /\ prev \in Task
    BY DEF Challenges
  <1>4. SameView(s, r, u)
    <2>1. CASE u = prev
      <3>1. s.preempted[prev] \in BOOLEAN /\ r.preempted[prev] \in BOOLEAN
        BY <1>1, <1>2, <1>3, Zenon DEF Placed, Sane, Scheduler
      <3>2. s.preempted[prev] = r.preempted[prev]
        BY <1>1, <1>2, <3>1, Zenon
      <3> QED BY <1>1, <1>2, <2>1, <3>2 DEF SameView
    <2>2. CASE u # prev
      BY <1>1, <1>2, <2>2, Zenon DEF SameView
    <2> QED BY <2>1, <2>2, Zenon
  <1>5. Where(s, u) /\ s.next[c] # u
    BY <1>1, SchedulerAssumption, Zenon DEF Placed
  <1> QED BY <1>3, <1>4, <1>5 DEF Where

(* The CPU to which the global agent moves.                                *)
LEMMA TargetFacts ==
    ASSUME GlobalTarget # NoCpu
    PROVE  /\ GlobalTarget \in CPU /\ GlobalTarget # agent.global_cpuid_
           /\ committed(kern.txn, GlobalTarget)
  <1> DEFINE Free(c) == Available(kern, c) /\ committed(kern.txn, c) /\ c # agent.global_cpuid_
             others == {c \in CPU : /\ ~sched.in_switchto[c]
                                    /\ numa_node[c] = numa_node[HomeCpu]
                                    /\ Free(c)}
  <1>1. GlobalTarget = IF Free(HomeCpu) THEN HomeCpu
                       ELSE IF others = {} THEN NoCpu ELSE Min(others)
    BY DEF GlobalTarget
  <1>2. CASE Free(HomeCpu)
    BY <1>1, <1>2, AgentAssumption
  <1>3. CASE ~Free(HomeCpu)
    <2>1. others # {} /\ GlobalTarget = Min(others)
      BY <1>1, <1>3
    <2>2. others \subseteq Nat
      BY SchedulerAssumption DEF CPU
    <2>3. GlobalTarget \in others
      <3> HIDE DEF others
      <3> QED BY <2>1, <2>2, MinFacts, Zenon
    <2> QED BY <2>3
  <1> QED BY <1>2, <1>3, Zenon

(***************************************************************************)
(* What the handler of each message does.                                  *)
(***************************************************************************)
(* TaskNew of a thread that exists and may run somewhere.                  *)
LEMMA NewAfter ==
    ASSUME NEW s, NEW k, NEW m, CanHandle(s, k, m), m.type = "NEW", NEW garbage \in BOOLEAN,
           allowed_cpulist[m.task] # {}
    PROVE  After(s, TaskNew(s, m, garbage, k.thread[m.task] # "absent"), m.task, m)
  <1> DEFINE t == m.task
             r == TaskNew(s, m, garbage, TRUE)
  <1>1. /\ Placed(s) /\ s.ok /\ t \in Task
        /\ t \notin s.alive /\ k.thread[t] # "absent" /\ ~m.from_switchto
    BY DEF CanHandle, Fits, FromB, FromX, KernelMsg
  <1>2. NewHandled(s, r, t, m)
    BY <1>1, TaskNewHandled, Zenon
  <1>3. TaskNew(s, m, garbage, k.thread[m.task] # "absent") = r
    <2>1. (k.thread[m.task] # "absent") = TRUE
      BY <1>1
    <2> QED BY <2>1, Zenon
  <1> HIDE DEF r
  <1>4. After(s, r, t, m)
    BY <1>1, <1>2 DEF NewHandled, After, ToB, NewRunnable
  <1> QED BY <1>3, <1>4, Zenon

(* TaskRunnable and TaskDead.                                              *)
LEMMA WakeupAfter ==
    ASSUME NEW s, NEW k, NEW m, CanHandle(s, k, m)
    PROVE  /\ m.type = "WAKEUP" => After(s, TaskRunnable(s, m), m.task, m)
           /\ m.type = "DEAD" => After(s, TaskDead(s, m), m.task, m)
  <1> DEFINE t == m.task
             r == TaskRunnable(s, m)
             d == TaskDead(s, m)
  <1>1. /\ Placed(s) /\ s.ok /\ t \in Task
        /\ m.type \in {"WAKEUP", "DEAD"} => /\ t \in s.alive /\ s.run_state[t] = "BLOCKED"
                                            /\ ~m.from_switchto
    BY Zenon DEF CanHandle, Fits, FromX, KernelMsg
  <1>2. ASSUME m.type = "WAKEUP" PROVE After(s, r, t, m)
    <2>1. /\ Handled(s, r, t)
          /\ r.run_state[t] = "QUEUED" /\ ~r.preempted[t]
          /\ Yielding(r) = Yielding(s)
          /\ r.in_switchto = s.in_switchto
      BY <1>1, <1>2, TaskRunnableHandled, Zenon
    <2> HIDE DEF r
    <2> QED BY <1>1, <1>2, <2>1, Zenon DEF Handled, After, ToB, NewRunnable
  <1>3. ASSUME m.type = "DEAD" PROVE After(s, d, t, m)
    <2>1. /\ Placed(d) /\ d.ok /\ Touches(s, d, {t})
          /\ t \notin d.alive /\ ~d.preempted[t]
          /\ Yielding(d) = Yielding(s)
          /\ d.in_switchto = s.in_switchto
      BY <1>1, <1>3, TaskDeadHandled
    <2> HIDE DEF d
    <2> QED BY <1>1, <1>3, <2>1, Zenon DEF After, ToB, NewRunnable
  <1> QED BY <1>2, <1>3, Zenon

(* TaskDeparted.                                                           *)
LEMMA DepartedAfter ==
    ASSUME NEW s, NEW k, NEW m, CanHandle(s, k, m), m.type = "DEPARTED"
    PROVE  After(s, TaskDeparted(s, m), m.task, m)
  <1> DEFINE t == m.task
             r == TaskDeparted(s, m)
  <1>1. /\ Placed(s) /\ s.ok /\ t \in Task /\ s.run_state[t] = "BLOCKED"
        /\ m.from_switchto => m.cpu \in CPU /\ Chained(s, m.cpu)
    BY Zenon DEF CanHandle, Fits, FromX, KernelMsg
  <1>2. Departs(s, r, t, m)
    BY <1>1, TaskDepartedHandled, Zenon
  <1> HIDE DEF r
  <1>3. After(s, r, t, m)
    BY <1>2, Zenon DEF Departs, After, ToB, NewRunnable
  <1> QED BY <1>3, Zenon DEF r

(* The messages of a thread that stops running.                            *)
LEMMA StopCanHandle ==
    ASSUME NEW s, NEW k, NEW m, CanHandle(s, k, m),
           m.type \in {"BLOCKED", "PREEMPT", "YIELD", "SWITCHTO"}
    PROVE  StopFits(s, k.txn, m.task, m)
  <1> DEFINE t == m.task
  <1>1. /\ Placed(s) /\ s.ok /\ t \in Task /\ t \in s.alive /\ ~s.preempted[t]
        /\ t \notin Yielding(s) /\ Where(s, t) /\ s \in Scheduler
    BY DEF CanHandle, Fits, Placed, Sane
  <1>2. s.run_state[t] # "YIELDING" /\ s.run_state[t] \in RunState
    BY <1>1, Zenon DEF Where, Scheduler
  <1>3. ASSUME m.from_switchto
        PROVE  s.run_state[t] = "BLOCKED" /\ m.cpu \in CPU /\ Chained(s, m.cpu)
    BY <1>1, <1>3, Zenon DEF CanHandle, Fits, FromX, KernelMsg
  <1>4. ASSUME ~m.from_switchto
        PROVE  s.run_state[t] \in {"QUEUED", "ON_CPU", "PENDING"}
    BY <1>1, <1>2, <1>4, Zenon DEF CanHandle, Fits, FromB, RunState
  <1>5. s.run_state[t] = "PENDING" => k.txn[s.cpu[t]] = "complete"
    BY <1>1 DEF CanHandle, Fits
  <1> QED BY <1>1, <1>3, <1>4, <1>5 DEF StopFits

(* TaskBlocked and TaskSwitchto.                                           *)
LEMMA BlockedAfter ==
    ASSUME NEW s, NEW k, NEW m, CanHandle(s, k, m)
    PROVE  /\ m.type = "BLOCKED" => After(s, TaskBlocked(s, k.txn, m), m.task, m)
           /\ m.type = "SWITCHTO" => After(s, TaskSwitchto(s, k.txn, m), m.task, m)
  <1> DEFINE t == m.task
             b == TaskBlocked(s, k.txn, m)
             w == TaskSwitchto(s, k.txn, m)
  <1>1. /\ t \in Task
        /\ m.type = "SWITCHTO" => ~m.from_switchto /\ m.cpu \in CPU /\ ~Chained(s, m.cpu)
    BY Zenon DEF CanHandle, KernelMsg
  <1>2. ASSUME m.type = "BLOCKED" PROVE After(s, b, t, m)
    <2>1. StopFits(s, k.txn, t, m)
      BY <1>2, StopCanHandle, Zenon
    <2>2. /\ Handled(s, b, t)
          /\ b.run_state[t] = "BLOCKED" /\ ~b.preempted[t]
          /\ Yielding(b) = Yielding(s)
          /\ IF m.from_switchto THEN Leaves(s, b, m.cpu)
                                ELSE b.in_switchto = s.in_switchto
      BY <1>1, <2>1, TaskBlockedHandled, Zenon
    <2> HIDE DEF b
    <2> QED BY <1>1, <1>2, <2>1, <2>2, Zenon DEF StopFits, Handled, After, ToB, NewRunnable
  <1>3. ASSUME m.type = "SWITCHTO" PROVE After(s, w, t, m)
    <2>1. StopFits(s, k.txn, t, m)
      BY <1>3, StopCanHandle, Zenon
    <2>2. /\ Handled(s, w, t)
          /\ w.run_state[t] = "BLOCKED" /\ ~w.preempted[t]
          /\ Yielding(w) = Yielding(s)
          /\ Enters(s, w, m.cpu)
      BY <1>1, <1>3, <2>1, TaskSwitchtoHandled, Zenon
    <2> HIDE DEF w
    <2> QED BY <1>1, <1>3, <2>1, <2>2, Zenon DEF StopFits, Handled, After, ToB, NewRunnable
  <1> QED BY <1>2, <1>3, Zenon

(* TaskPreempted and TaskYield.                                            *)
LEMMA PreemptedAfter ==
    ASSUME NEW s, NEW k, NEW m, CanHandle(s, k, m)
    PROVE  /\ m.type = "PREEMPT" => After(s, TaskPreempted(s, k.txn, m), m.task, m)
           /\ m.type = "YIELD" => After(s, TaskYield(s, k.txn, m), m.task, m)
  <1> DEFINE t == m.task
             p == TaskPreempted(s, k.txn, m)
             y == TaskYield(s, k.txn, m)
  <1>1. t \in Task
    BY Zenon DEF CanHandle
  <1>2. ASSUME m.type = "PREEMPT" PROVE After(s, p, t, m)
    <2>1. StopFits(s, k.txn, t, m)
      BY <1>2, StopCanHandle, Zenon
    <2>2. /\ Handled(s, p, t)
          /\ p.run_state[t] = "QUEUED"
          /\ Yielding(p) = Yielding(s)
          /\ IF m.from_switchto THEN Leaves(s, p, m.cpu)
                                ELSE p.in_switchto = s.in_switchto
      BY <1>1, <2>1, TaskPreemptedHandled, Zenon
    <2> HIDE DEF p
    <2> QED BY <1>2, <2>1, <2>2, Zenon DEF StopFits, Handled, After, ToB, NewRunnable
  <1>3. ASSUME m.type = "YIELD" PROVE After(s, y, t, m)
    <2>1. StopFits(s, k.txn, t, m)
      BY <1>3, StopCanHandle, Zenon
    <2>2. /\ Handled(s, y, t)
          /\ y.run_state[t] \in {"QUEUED", "YIELDING"} /\ ~y.preempted[t]
          /\ Yielding(y) \subseteq Yielding(s) \cup {t}
          /\ IF m.from_switchto THEN Leaves(s, y, m.cpu)
                                ELSE y.in_switchto = s.in_switchto
      BY <1>1, <2>1, TaskYieldHandled
    <2> HIDE DEF y
    <2> QED BY <1>3, <2>1, <2>2, Zenon DEF StopFits, Handled, After, ToB, NewRunnable
  <1> QED BY <1>2, <1>3

(* Every handler does what its message tells.                              *)
LEMMA DispatchHandles ==
    ASSUME NEW m, NEW garbage \in BOOLEAN, CanHandle(sched, kern, m),
           allowed_cpulist[m.task] # {}
    PROVE  After(sched, Dispatch(m, garbage), m.task, m)
  <1>1. m.type \in MsgType
    BY DEF CanHandle, KernelMsg, Message
  <1>2. CASE m.type = "NEW"
    BY <1>2, NewAfter DEF Dispatch
  <1>3. CASE m.type = "WAKEUP"
    BY <1>3, WakeupAfter DEF Dispatch
  <1>4. CASE m.type = "DEAD"
    BY <1>4, WakeupAfter DEF Dispatch
  <1>5. CASE m.type = "DEPARTED"
    BY <1>5, DepartedAfter DEF Dispatch
  <1>6. CASE m.type = "BLOCKED"
    BY <1>6, BlockedAfter DEF Dispatch
  <1>7. CASE m.type = "SWITCHTO"
    BY <1>7, BlockedAfter DEF Dispatch
  <1>8. CASE m.type = "PREEMPT"
    BY <1>8, PreemptedAfter DEF Dispatch
  <1>9. CASE m.type = "YIELD"
    BY <1>9, PreemptedAfter DEF Dispatch
  <1> QED BY <1>1, <1>2, <1>3, <1>4, <1>5, <1>6, <1>7, <1>8, <1>9, Zenon DEF MsgType


=============================================================================
