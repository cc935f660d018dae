-------------------------- MODULE MCCgroupWatcher --------------------------
(* An instance of CgroupWatcher: the cgroup "mygroup1", the cgroup         *)
(* "docker" with a container and the agent's own container below it, a     *)
(* thread that does everything and one that only exits.                    *)
EXTENDS CgroupWatcher

CONSTANTS t1, t2, none

MCDir == {"root", "mygroup1", "docker", "container", "agent"}
MCChildren == [d \in MCDir |->
    CASE d = "root" -> {"mygroup1", "docker"}
      [] d = "docker" -> {"container", "agent"}
      [] OTHER -> {}]
MCRules == [d \in MCDir |->
    CASE d = "root" -> {}
      [] d = "mygroup1" -> {"*"}
      [] OTHER -> {"memcached"}]
MCEvents == [t \in {t1, t2} |->
    IF t = t1 THEN {"start", "migrate", "rename", "leave", "exit"} ELSE {"exit"}]

=============================================================================
