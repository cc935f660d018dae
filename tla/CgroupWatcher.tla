---------------------------- MODULE CgroupWatcher ----------------------------
(***************************************************************************)
(* The main thread of the agent process (ghost_agent/agent_net.cc): until  *)
(* SIGINT it scrapes the control groups (ghost_agent/cgroup_watcher.cc),   *)
(* moves the threads its rules select into ghOSt, and sleeps; then it      *)
(* deletes the agent.  Every system call is a step: threads start, change  *)
(* their name or control group, leave ghOSt and exit, and control groups   *)
(* vanish, between any two of them.                                        *)
(***************************************************************************)
EXTENDS Integers

CONSTANTS
    Dir, Root,      \* control groups, and the one at kCgroupPathPrefix
    Children,       \* the tree they form
    Rules,          \* Rules[d]: the task name patterns of the rules whose cgroup
                    \*   pattern occurs in the name of d
    SkipDir,        \* the control group of the agent
    Thread,
    Events,         \* Events[t]: what thread t may do
    Vanishing,      \* control groups that may be removed
    None            \* no control group: the thread does not exist

ASSUME TreeAssumption ==
    /\ Root \in Dir /\ SkipDir \in Dir /\ None \notin Dir
    /\ Children \in [Dir -> SUBSET Dir]
    /\ \A d \in Dir : Root \notin Children[d]
    /\ \A d, e \in Dir : d # e => Children[d] \cap Children[e] = {}
    /\ Rules \in [Dir -> SUBSET {"*", "memcached"}]
    /\ Root \notin Vanishing
    /\ \A d \in Children[SkipDir] : Children[d] = {}

VARIABLES
    place,          \* the control group of each thread
    named,          \* threads whose name contains "memcached"
    ghost,          \* threads in the ghOSt scheduling class
    live,           \* control groups that exist
    m,              \* the main thread
    sigints,        \* SIGINTs handled, up to two
    was             \* history: <<t, p>> if t was in a group with pattern p,
                    \*   <<t, "named">> if its name contained "memcached"

vars == <<place, named, ghost, live, m, sigints, was>>
world == <<place, named, ghost, live, was>>

Alive(t) == place[t] # None

(* ScrapeDirectory does not look at SkipDir, nor below it.                 *)
Skipped == {SkipDir} \cup Children[SkipDir]

(* What the rules select at one moment: threads in group d by pattern p.   *)
PatternsOf(d) == IF d = None \/ d \in Skipped THEN {} ELSE Rules[d]

History(pl, nm) ==
    (UNION {{<<t, p>> : p \in PatternsOf(pl[t])} : t \in Thread})
    \cup {<<t, "named">> : t \in nm}

Init ==
    /\ place \in [Thread -> Dir \cup {None}]
    /\ named = {}
    /\ ghost = {}
    /\ live = Dir
    /\ m = [step |-> "loop", todo |-> {}, dir |-> Root, pats |-> {}, pat |-> "*",
            tids |-> {}, tid |-> CHOOSE t \in Thread : TRUE]
    /\ sigints = 0
    /\ was = History(place, named)

(***************************************************************************)
(* main.                                                                   *)
(***************************************************************************)

(* Mutant: only the second SIGINT is a notification.                       *)
HasBeenNotifiedTwice == sigints > 1

HasBeenNotified == sigints > 0

(* while (!exit.HasBeenNotified()) ScrapeCgroups                           *)
Loop ==
    /\ m.step = "loop"
    /\ m' = IF HasBeenNotified THEN [m EXCEPT !.step = "delete"]
            ELSE [m EXCEPT !.step = "visit", !.todo = {Root}]
    /\ UNCHANGED <<world, sigints>>

(* SleepFor ends after the period, or when a signal interrupts it.         *)
SleepFor ==
    /\ m.step = "sleep"
    /\ m' = [m EXCEPT !.step = "loop"]
    /\ UNCHANGED <<world, sigints>>

(* delete uap (AgentThreads), and the end of main.                         *)
DeleteAgent ==
    /\ m.step = "delete"
    /\ m' = [m EXCEPT !.step = "done"]
    /\ UNCHANGED <<world, sigints>>

(* The handler of SIGINT, on the thread of GhostSignals: the first one     *)
(* notifies, the second ends the process.                                  *)
Sigint ==
    /\ m.step \notin {"done", "aborted"}
    /\ sigints' = sigints + 1
    /\ m' = IF sigints = 0 THEN m ELSE [m EXCEPT !.step = "done"]
    /\ UNCHANGED world

(***************************************************************************)
(* ScrapeDirectory.  todo holds the directories found and not visited.     *)
(***************************************************************************)

(* Mutant: the agent's own container is scraped too.                       *)
VisitableAll(d) == d \in live

(* fs::is_directory, and the test of skipdir.                              *)
Visitable(d) == d \in live /\ d # SkipDir

Visit ==
    /\ m.step = "visit"
    /\ IF m.todo = {} THEN m' = [m EXCEPT !.step = "sleep"]
       ELSE \E d \in m.todo :
                m' = IF Visitable(d)
                     THEN [m EXCEPT !.todo = @ \ {d}, !.step = "rule", !.dir = d,
                                    !.pats = Rules[d]]
                     ELSE [m EXCEPT !.todo = @ \ {d}]
    /\ UNCHANGED <<world, sigints>>

(* The next rule that applies, and the tasks file (MoveTasksToGhost); a    *)
(* control group on its way out has none.                                  *)
ReadTasks ==
    /\ m.step = "rule"
    /\ IF m.pats = {} THEN m' = [m EXCEPT !.step = "iterate"]
       ELSE \E p \in m.pats :
                m' = [m EXCEPT !.step = "thread", !.pats = @ \ {p}, !.pat = p,
                               !.tids = {t \in Thread : place[t] = m.dir}]
    /\ UNCHANGED <<world, sigints>>

(* Mutant: the recursion ends after one level.                             *)
SubdirectoriesOfRoot(d) == IF d = Root THEN Children[d] \cap live ELSE {}

(* The subdirectories the iterator finds.                                  *)
Subdirectories(d) == Children[d] \cap live

(* fs::directory_iterator throws when the directory has vanished; nothing  *)
(* catches the exception.                                                  *)
Iterate ==
    /\ m.step = "iterate"
    /\ m' = IF m.dir \in live
            THEN [m EXCEPT !.step = "visit", !.todo = @ \cup Subdirectories(m.dir)]
            ELSE [m EXCEPT !.step = "aborted"]
    /\ UNCHANGED <<world, sigints>>

(* GetTaskName, empty for a dead thread, against the pattern.              *)
NameMatches(t) == m.pat = "*" \/ t \in named

ReadName ==
    /\ m.step = "thread"
    /\ IF m.tids = {} THEN m' = [m EXCEPT !.step = "rule"]
       ELSE \E t \in m.tids :
                m' = [m EXCEPT !.tids = @ \ {t}, !.tid = t,
                               !.step = IF NameMatches(t) THEN "getscheduler" ELSE "thread"]
    /\ UNCHANGED <<world, sigints>>

(***************************************************************************)
(* MoveToScheduler.                                                        *)
(***************************************************************************)
GetScheduler ==
    /\ m.step = "getscheduler"
    /\ m' = [m EXCEPT !.step = IF m.tid \in ghost THEN "thread" ELSE "enter"]
    /\ UNCHANGED <<world, sigints>>

(* SchedTaskEnterGhost fails if the thread is dying.                       *)
EnterGhost ==
    /\ m.step = "enter"
    /\ IF Alive(m.tid)
       THEN ghost' = ghost \cup {m.tid} /\ m' = [m EXCEPT !.step = "verify"]
       ELSE ghost' = ghost /\ m' = [m EXCEPT !.step = "thread"]
    /\ UNCHANGED <<place, named, live, was, sigints>>

(* CHECK_EQ(sched_getscheduler(tid), scheduler)                            *)
Verify ==
    /\ m.step = "verify"
    /\ m' = [m EXCEPT !.step = IF m.tid \in ghost THEN "thread" ELSE "aborted"]
    /\ UNCHANGED <<world, sigints>>

MainStep ==
    \/ Loop \/ SleepFor \/ DeleteAgent \/ Visit \/ ReadTasks \/ Iterate \/ ReadName
    \/ GetScheduler \/ EnterGhost \/ Verify

(***************************************************************************)
(* The threads and the control groups of the machine (external).           *)
(***************************************************************************)
World(pl, nm, gh) ==
    /\ place' = pl /\ named' = nm /\ ghost' = gh
    /\ was' = was \cup History(pl, nm)
    /\ UNCHANGED <<live, m, sigints>>

Attach(t) ==
    /\ IF Alive(t) THEN "migrate" \in Events[t] ELSE "start" \in Events[t]
    /\ \E d \in live \ {place[t]} : World([place EXCEPT ![t] = d], named, ghost)

Rename(t) ==
    /\ Alive(t) /\ "rename" \in Events[t]
    /\ World(place, IF t \in named THEN named \ {t} ELSE named \cup {t}, ghost)

LeaveGhost(t) ==
    /\ t \in ghost /\ "leave" \in Events[t]
    /\ World(place, named, ghost \ {t})

Exit(t) ==
    /\ Alive(t) /\ "exit" \in Events[t]
    /\ World([place EXCEPT ![t] = None], named \ {t}, ghost \ {t})

Rmdir(d) ==
    /\ d \in live \cap Vanishing
    /\ \A t \in Thread : place[t] # d
    /\ Children[d] \cap live = {}
    /\ live' = live \ {d}
    /\ UNCHANGED <<place, named, ghost, m, sigints, was>>

Next ==
    \/ MainStep
    \/ Sigint
    \/ \E t \in Thread : Attach(t) \/ Rename(t) \/ LeaveGhost(t) \/ Exit(t)
    \/ \E d \in Dir : Rmdir(d)

Spec == Init /\ [][Next]_vars

(* The main thread is an ordinary thread that the system schedules; a      *)
(* sleep ends.  Nothing is assumed about anything else.                    *)
FairSpec == Spec /\ WF_vars(MainStep)

-----------------------------------------------------------------------------

(* OnlySelected: a thread is moved into ghOSt only if it was once in a     *)
(* control group some rule applies to, outside the agent's own, and, where *)
(* the rule wants a name, once had it.  The tasks file, the name and the   *)
(* class are read at different times, so not necessarily both at once.     *)
OnlySelected ==
    \A t \in ghost :
        \/ <<t, "*">> \in was
        \/ <<t, "memcached">> \in was /\ <<t, "named">> \in was

(* A rule selects thread t in group d, and the agent is not ending.        *)
Selected(t, d) ==
    /\ place[t] = d
    /\ \E p \in PatternsOf(d) : p = "*" \/ t \in named
    /\ sigints = 0 /\ m.step # "aborted"

(* SelectedMoves: a thread that stays selected where it is is in ghOSt     *)
(* again and again: a scrape that missed it, because it read the tasks     *)
(* file before the thread came or its name before it was given, is         *)
(* followed by one that does not, and one that is moved out is moved back. *)
(* (A thread that hops between selected groups can escape every scrape.)   *)
SelectedMoves ==
    \A t \in Thread, d \in Dir : (<>[]Selected(t, d)) => []<>(t \in ghost)

(* SigintEnds: after the first SIGINT the process ends: the scrape under   *)
(* way finishes whatever threads and groups do, and the loop is left.      *)
SigintEnds == sigints > 0 ~> m.step \in {"done", "aborted"}

=============================================================================
