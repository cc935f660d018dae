------------------------ MODULE CgroupWatcherProofs ------------------------
(* Proof that the scrape only moves threads a rule selected, for every     *)
(* tree of control groups, every set of rules and every set of threads.    *)
EXTENDS CgroupWatcher, TLAPS

(* The history has what is the case now.                                   *)
WasNow ==
    /\ \A t \in Thread : \A p \in PatternsOf(place[t]) : <<t, p>> \in was
    /\ \A t \in named : <<t, "named">> \in was

(* What ScrapeDirectory has still to visit is not below SkipDir.           *)
TodoInv == m.todo \subseteq Dir \ Children[SkipDir]

InDir == {"rule", "thread", "getscheduler", "enter", "verify", "iterate"}
InTasks == {"thread", "getscheduler", "enter", "verify"}
InMove == {"getscheduler", "enter"}

(* What MoveTasksToGhost holds on to, read at earlier moments: a group     *)
(* that is not skipped, patterns of rules for it, and threads that once    *)
(* were there.                                                             *)
DirInv ==
    /\ m.step \in InDir => m.dir \in Dir \ Skipped /\ m.pats \subseteq Rules[m.dir]
    /\ m.step \in InTasks =>
           /\ m.pat \in {"*", "memcached"}
           /\ \A t \in m.tids : <<t, m.pat>> \in was

(* The thread it is about to move once was there and had a name that fits. *)
MoveInv ==
    m.step \in InMove =>
        /\ <<m.tid, m.pat>> \in was
        /\ m.pat = "*" \/ <<m.tid, "named">> \in was

(* The fields of the main thread.                                          *)
Main ==
    [step : {"loop", "sleep", "delete", "done", "aborted", "visit"} \cup InDir,
     todo : SUBSET Dir, dir : Dir, pats : SUBSET {"*", "memcached"},
     pat : {"*", "memcached"}, tids : SUBSET Thread,
     tid : Thread \cup {CHOOSE t \in Thread : TRUE}]

TypeInv ==
    /\ place \in [Thread -> Dir \cup {None}]
    /\ named \subseteq Thread
    /\ live \subseteq Dir
    /\ m \in Main

IInv == TypeInv /\ WasNow /\ TodoInv /\ DirInv /\ MoveInv /\ OnlySelected

(* The threads, groups and names that exist at the start are history.      *)
LEMMA InitInv == Init => IInv
  <1> SUFFICES ASSUME Init PROVE IInv  OBVIOUS
  <1>1. TypeInv  BY TreeAssumption DEF Init, TypeInv, Main
  <1>2. WasNow  BY DEF Init, WasNow, History
  <1> QED  BY <1>1, <1>2 DEF Init, IInv, TodoInv, DirInv, MoveInv, OnlySelected,
                             InDir, InTasks, InMove

(* The history only grows, and has what is the case after a step.          *)
LEMMA WorldInv ==
  ASSUME IInv, NEW pl \in [Thread -> Dir \cup {None}], NEW nm \in SUBSET Thread,
         NEW gh \in SUBSET ghost, World(pl, nm, gh)
  PROVE  IInv'
  <1>1. was \subseteq was' /\ m' = m /\ place' = pl /\ named' = nm /\ ghost' \subseteq ghost
    BY DEF World
  <1>6. live' = live  BY DEF World
  <1>2. WasNow'
    <2>1. History(pl, nm) \subseteq was'  BY DEF World
    <2>2. ASSUME NEW t \in Thread, NEW p \in PatternsOf(pl[t])
          PROVE  <<t, p>> \in History(pl, nm)
      BY DEF History
    <2>3. ASSUME NEW t \in nm PROVE <<t, "named">> \in History(pl, nm)
      BY DEF History
    <2> QED  BY <1>1, <2>1, <2>2, <2>3 DEF WasNow, PatternsOf
  <1>3. TypeInv'  BY <1>1, <1>6 DEF IInv, TypeInv
  <1>4. TodoInv' /\ DirInv' /\ MoveInv'
    BY <1>1 DEF IInv, TodoInv, DirInv, MoveInv
  <1>5. OnlySelected'  BY <1>1, Zenon DEF IInv, OnlySelected
  <1> QED  BY <1>2, <1>3, <1>4, <1>5 DEF IInv

(* What a step of a thread does is a change of the world.                  *)
LEMMA ThreadInv ==
  ASSUME IInv, NEW t \in Thread, Attach(t) \/ Rename(t) \/ LeaveGhost(t) \/ Exit(t)
  PROVE  IInv'
  <1> USE DEF IInv, TypeInv
  <1>1. CASE Attach(t)
    <2>1. PICK d \in live \ {place[t]} : World([place EXCEPT ![t] = d], named, ghost)
      BY <1>1, Zenon DEF Attach
    <2>2. [place EXCEPT ![t] = d] \in [Thread -> Dir \cup {None}]  BY <2>1
    <2> QED  BY <2>1, <2>2, WorldInv, Zenon
  <1>2. CASE Rename(t)
    BY <1>2, WorldInv DEF Rename
  <1>3. CASE LeaveGhost(t)
    BY <1>3, WorldInv, Zenon DEF LeaveGhost
  <1>4. CASE Exit(t)
    <2>1. [place EXCEPT ![t] = None] \in [Thread -> Dir \cup {None}]  OBVIOUS
    <2>2. named \ {t} \in SUBSET Thread /\ ghost \ {t} \in SUBSET ghost  OBVIOUS
    <2> QED  BY <1>4, <2>1, <2>2, WorldInv, Zenon DEF Exit
  <1> QED  BY <1>1, <1>2, <1>3, <1>4

(* A step of main holds on to what it has read, and reads what was added   *)
(* to the history before.                                                  *)
LEMMA MainInv ==
  ASSUME IInv, MainStep
  PROVE  IInv'
  <1> USE TreeAssumption DEF IInv, TypeInv, Main, InDir, InTasks, InMove, world,
        WasNow, TodoInv, DirInv, MoveInv, OnlySelected, PatternsOf
  <1>1. CASE Loop
    <2>1. Root \in Dir \ Children[SkipDir]  OBVIOUS
    <2>2. CASE HasBeenNotified  BY <1>1, <2>2 DEF Loop
    <2>3. CASE ~HasBeenNotified  BY <1>1, <2>1, <2>3, Zenon DEF Loop
    <2> QED  BY <2>2, <2>3
  <1>2. CASE SleepFor \/ DeleteAgent
    BY <1>2 DEF SleepFor, DeleteAgent
  <1>3. CASE Visit
    <2>1. CASE m.todo = {}
      BY <1>3, <2>1 DEF Visit
    <2>2. CASE m.todo # {}
      <3>1. PICK d \in m.todo :
              m' = IF Visitable(d)
                     THEN [m EXCEPT !.todo = @ \ {d}, !.step = "rule", !.dir = d,
                                    !.pats = Rules[d]]
                     ELSE [m EXCEPT !.todo = @ \ {d}]
        BY <1>3, <2>2, Zenon DEF Visit
      <3>2. Visitable(d) => d \in Dir \ Skipped
        BY DEF Visitable, Skipped
      <3>3. UNCHANGED world  BY <1>3, Zenon DEF Visit
      <3> QED  BY <1>3, <3>1, <3>2, <3>3, Zenon DEF Visit
    <2> QED  BY <2>1, <2>2
  <1>4. CASE ReadTasks
    <2>1. CASE m.pats = {}
      BY <1>4, <2>1 DEF ReadTasks
    <2>2. CASE m.pats # {}
      <3>1. PICK p \in m.pats :
              m' = [m EXCEPT !.step = "thread", !.pats = @ \ {p}, !.pat = p,
                             !.tids = {t \in Thread : place[t] = m.dir}]
        BY <1>4, <2>2, Zenon DEF ReadTasks
      <3>2. m.dir \in Dir \ Skipped /\ p \in Rules[m.dir]
        BY <1>4, <3>1, Zenon DEF ReadTasks
      <3>3. \A t \in Thread : place[t] = m.dir => p \in PatternsOf(place[t])
        BY <3>2
      <3>4. \A t \in Thread : place[t] = m.dir => <<t, p>> \in was
        BY <3>3
      <3>5. UNCHANGED world  BY <1>4, Zenon DEF ReadTasks
      <3> QED  BY <1>4, <3>1, <3>2, <3>4, <3>5, Zenon DEF ReadTasks
    <2> QED  BY <2>1, <2>2
  <1>5. CASE Iterate
    <2>1. m.dir \in Dir \ Skipped  BY <1>5 DEF Iterate
    <2>2. Subdirectories(m.dir) \subseteq Dir \ Children[SkipDir]
      BY <2>1 DEF Subdirectories, Skipped
    <2> QED  BY <1>5, <2>2, Zenon DEF Iterate
  <1>6. CASE ReadName
    <2>1. CASE m.tids = {}
      BY <1>6, <2>1 DEF ReadName
    <2>2. CASE m.tids # {}
      <3>1. PICK t \in m.tids :
              m' = [m EXCEPT !.tids = @ \ {t}, !.tid = t,
                             !.step = IF NameMatches(t) THEN "getscheduler" ELSE "thread"]
        BY <1>6, <2>2, Zenon DEF ReadName
      <3>2. <<t, m.pat>> \in was  BY <1>6, <3>1, Zenon DEF ReadName
      <3>3. NameMatches(t) => m.pat = "*" \/ <<t, "named">> \in was
        BY DEF NameMatches
      <3>4. UNCHANGED world  BY <1>6, Zenon DEF ReadName
      <3> QED  BY <1>6, <3>1, <3>2, <3>3, <3>4, Zenon DEF ReadName
    <2> QED  BY <2>1, <2>2
  <1>7. CASE GetScheduler \/ Verify
    BY <1>7 DEF GetScheduler, Verify
  <1>8. CASE EnterGhost
    BY <1>8 DEF EnterGhost
  <1> QED  BY <1>1, <1>2, <1>3, <1>4, <1>5, <1>6, <1>7, <1>8, Zenon DEF MainStep

(* The invariant is inductive.                                             *)
LEMMA NextInv == IInv /\ [Next]_vars => IInv'
  <1> SUFFICES ASSUME IInv, [Next]_vars PROVE IInv'  OBVIOUS
  <1> USE DEF IInv, TypeInv, WasNow, TodoInv, DirInv, MoveInv, OnlySelected, PatternsOf
  <1>1. CASE UNCHANGED vars  BY <1>1 DEF vars
  <1>2. CASE Sigint
    BY <1>2 DEF Sigint, world, Main, InDir, InTasks, InMove
  <1>3. CASE \E d \in Dir : Rmdir(d)  BY <1>3 DEF Rmdir
  <1> QED  BY <1>1, <1>2, <1>3, MainInv, ThreadInv, Zenon DEF Next

(* Whatever the groups, rules and threads are, and however threads move,   *)
(* change names and exit between two system calls of a scrape, the scrape  *)
(* (cgroup_watcher.cc) moves only threads that a rule selected.            *)
THEOREM MovesOnlySelected == Spec => []OnlySelected
  <1>1. IInv => OnlySelected  BY DEF IInv
  <1> QED  BY InitInv, NextInv, <1>1, PTL DEF Spec

=============================================================================
