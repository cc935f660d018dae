------------------------------- MODULE Engine -------------------------------
(***************************************************************************)
(* The life of the engine process: main (engine/main.c), init and          *)
(* read_config (init.c), the virtual ports (interface.c), main_loop of     *)
(* every lcore (switch.c) and the firewall that the coprocessor lcores     *)
(* set up, ask and tear down (coprocessor.c, nfs/firewall/firewall.c).     *)
(* The packets themselves are the subject of Dataplane.                    *)
(*                                                                         *)
(* rules, num_rules and lpm_tbl are globals that every coprocessor lcore   *)
(* writes in its own coprocessor_setup without a lock.  A step is one      *)
(* access to them, so lcores interleave between any two.  An address has   *)
(* AddrBits bits.  An access through a pointer that was never written, to  *)
(* freed memory or through NULL is undefined: the process is then in the   *)
(* state "fault", about which nothing more is said.                        *)
(***************************************************************************)
EXTENDS Integers, FiniteSets, Sequences, FiniteSetsExt

CONSTANTS
    KNI_KTHREAD,    \* number of virtual ports, and of coprocessors
    AddrBits,       \* bits of an address
    Files,          \* the contents rules.json may have
    MaxRules,       \* bound on the rules of a file
    LcoreChoices,   \* the sets of lcores EAL may be given
    MayFail,        \* the external calls that may fail
    Sources,        \* source addresses of packets; NotIpv4 for none
    NotIpv4, Missing, Garbled, NULL

Port == 0 .. KNI_KTHREAD - 1
Lcore == 0 .. KNI_KTHREAD
RxLcore == KNI_KTHREAD
Addr == 0 .. 2^AddrBits - 1

Calls == {"eal", "pool", "calloc", "kni", "lpm"}

(* An element of the file: each member may be missing, the address may not *)
(* parse.                                                                  *)
RuleText ==
    [ip : Addr \cup {Garbled, Missing}, depth : Int \cup {Missing}, action : Int \cup {Missing}]

ASSUME EngineAssumption ==
    /\ KNI_KTHREAD \in 1 .. 255
    /\ AddrBits \in 1 .. 32
    /\ MayFail \subseteq Calls
    /\ Sources \subseteq Addr \cup {NotIpv4}
    /\ NotIpv4 \notin Addr
    /\ NULL \notin Int /\ NULL \notin Port \X (1 .. MaxRules)
    /\ MaxRules \in Nat
    /\ \A f \in Files : /\ f.parsed \in BOOLEAN
                        /\ f.rules \in Seq(RuleText)
                        /\ Len(f.rules) <= MaxRules

(***************************************************************************)
(* State.  Lcore c allocates at most one array of rules, array c, and the  *)
(* rule blocks <<c, n>>.                                                   *)
(***************************************************************************)
VARIABLES
    status,     \* "running", "exit" (rte_exit), "returned", "fault" or
                \* "double_free" (undefined behaviour)
    main,       \* where main is, with the index of its loop
    file,       \* rules.json
    lcores,     \* the lcores EAL runs on
    kni_list,   \* virtual ports that are allocated
    kni_stop,
    lc,         \* where each lcore is: step, loop index, local rules pointer
    rules,      \* global: the array last allocated, or NULL
    num_rules,  \* global
    array,      \* array[c]: state and cells of the array lcore c allocated
    block,      \* block[b]: the rule block b
    lpm_tbl,    \* global: the table last created, or NULL
    lpm         \* lpm[c]: the entries of the table lcore c created

fwvars == <<rules, num_rules, array, block, lpm_tbl, lpm>>
vars == <<status, main, file, lcores, kni_list, kni_stop, lc, fwvars>>

Block == Port \X (1 .. MaxRules)

NoArray == [state |-> "none", cell |-> [n \in 1 .. MaxRules |-> NULL]]
NoBlock == [state |-> "none", src_ip |-> NULL, depth |-> NULL, action |-> NULL]

Init ==
    /\ status = "running"
    /\ main = [step |-> "eal", idx |-> 0]
    /\ file \in Files
    /\ lcores \in LcoreChoices
    /\ kni_list = {}
    /\ kni_stop = FALSE
    /\ lc = [l \in Lcore |-> [step |-> "idle", idx |-> 1, rules |-> NULL]]
    /\ rules = NULL
    /\ num_rules = 0
    /\ array = [c \in Port |-> NoArray]
    /\ block = [b \in Block |-> NoBlock]
    /\ lpm_tbl = NULL
    /\ lpm = [c \in Port |-> {}]

(***************************************************************************)
(* main.                                                                   *)
(***************************************************************************)
Quits(s) == status' = s

(* External calls of which one may fail, or success that moves main on.    *)
MainCall(step, calls, next) ==
    /\ main.step = step
    /\ \/ calls \cap MayFail # {} /\ Quits("exit") /\ UNCHANGED main
       \/ main' = [step |-> next, idx |-> 0] /\ UNCHANGED status

EalInit ==
    /\ MainCall("eal", {"eal"}, "init")
    /\ UNCHANGED <<file, lcores, kni_list, kni_stop, lc, fwvars>>

(* init: the mbuf pool and the packet buffers; without the buffers it      *)
(* frees what it has and main exits.                                       *)
InitPools ==
    /\ MainCall("init", {"pool", "calloc"}, "read_config")
    /\ UNCHANGED <<file, lcores, kni_list, kni_stop, lc, fwvars>>

(* The routing table and the rings it fills in are those of Dataplane.     *)
read_config ==
    /\ main.step = "read_config"
    /\ main' = [step |-> "kni", idx |-> 0]
    /\ UNCHANGED <<status, file, lcores, kni_list, kni_stop, lc, fwvars>>

(* One iteration of kni_alloc.                                             *)
kni_alloc ==
    /\ main.step = "kni"
    /\ main.idx < KNI_KTHREAD
    /\ \/ /\ kni_list' = kni_list \cup {main.idx}
          /\ main' = [main EXCEPT !.idx = @ + 1]
          /\ UNCHANGED status
       \/ /\ "kni" \in MayFail
          /\ Quits("exit")
          /\ UNCHANGED <<kni_list, main>>
    /\ UNCHANGED <<file, lcores, kni_stop, lc, fwvars>>

KniDone ==
    /\ main.step = "kni"
    /\ main.idx = KNI_KTHREAD
    /\ main' = [step |-> "lcores", idx |-> 0]
    /\ UNCHANGED <<status, file, lcores, kni_list, kni_stop, lc, fwvars>>

LcoresOk ==
    /\ Cardinality(lcores) = KNI_KTHREAD + 1
    /\ \A i \in 0 .. Cardinality(lcores) - 1 : i \in lcores

CheckLcores ==
    /\ main.step = "lcores"
    /\ IF LcoresOk THEN main' = [step |-> "launch", idx |-> 0] /\ UNCHANGED status
                   ELSE Quits("exit") /\ UNCHANGED main
    /\ UNCHANGED <<file, lcores, kni_list, kni_stop, lc, fwvars>>

(* What main_loop does first on lcore l.                                   *)
FirstStep(l) == IF l = RxLcore THEN "loop" ELSE "rules"

Launch ==
    /\ main.step = "launch"
    /\ main' = [step |-> "wait", idx |-> 0]
    /\ lc' = [l \in Lcore |-> IF l \in lcores THEN [lc[l] EXCEPT !.step = FirstStep(l)]
                                              ELSE lc[l]]
    /\ UNCHANGED <<status, file, lcores, kni_list, kni_stop, fwvars>>

(* Mutant: main waits for the Rx lcore only.                               *)
AllExitedRxOnly == lc[RxLcore].step = "exited"

(* The master lcore has left its own main_loop and rte_eal_wait_lcore has  *)
(* returned for the others.                                                *)
AllExited == \A l \in lcores : lc[l].step = "exited"

WaitLcores ==
    /\ main.step = "wait"
    /\ AllExited
    /\ main' = [step |-> "free", idx |-> 0]
    /\ UNCHANGED <<status, file, lcores, kni_list, kni_stop, lc, fwvars>>

(* One iteration of kni_free_kni, and the end of main.                     *)
kni_free_kni ==
    /\ main.step = "free"
    /\ IF main.idx < KNI_KTHREAD
       THEN /\ kni_list' = kni_list \ {main.idx}
            /\ main' = [main EXCEPT !.idx = @ + 1]
            /\ UNCHANGED status
       ELSE Quits("returned") /\ UNCHANGED <<kni_list, main>>
    /\ UNCHANGED <<file, lcores, kni_stop, lc, fwvars>>

signal_handler ==
    /\ ~kni_stop
    /\ kni_stop' = TRUE
    /\ UNCHANGED <<status, main, file, lcores, kni_list, lc, fwvars>>

(***************************************************************************)
(* The firewall.                                                           *)
(***************************************************************************)
SamePrefix(a, b, depth) ==
    a \div 2^(AddrBits - depth) = b \div 2^(AddrBits - depth)

(* rte_lpm_add and rte_lpm_lookup (external): one entry per prefix; the    *)
(* longest prefix of an address decides.                                   *)
LpmDepthOk(depth) == depth \in 1 .. AddrBits

LpmAdd(t, ip, depth, action) ==
    {e \in t : e.depth # depth \/ ~SamePrefix(e.ip, ip, depth)}
        \cup {[ip |-> ip, depth |-> depth, action |-> action]}

LpmMatches(t, a) == {e \in t : SamePrefix(e.ip, a, e.depth)}

LpmLookup(t, a) ==
    CHOOSE e \in LpmMatches(t, a) : \A f \in LpmMatches(t, a) : f.depth <= e.depth

(* Mutant: a packet that no rule matches keeps the verdict of the miss.    *)
HandlerDropsMiss(t, a) ==
    IF LpmMatches(t, a) = {} THEN "FW_DROP"
    ELSE IF LpmLookup(t, a).action = 0 THEN "FW_FORWARD" ELSE "FW_DROP"

(* The verdict on a packet.  After a miss rule still is 0, and the switch  *)
(* over rule replaces the FW_DROP that the miss has set.                   *)
fw_packet_handler(t, a) ==
    LET rule == IF LpmMatches(t, a) = {} THEN 0 ELSE LpmLookup(t, a).action IN
    IF rule = 0 THEN "FW_FORWARD" ELSE "FW_DROP"

At(c, step) == c \in Port /\ lc[c].step = step

Goto(c, step) == lc' = [lc EXCEPT ![c].step = step]
GotoIdx(c, step, idx) == lc' = [lc EXCEPT ![c].step = step, ![c].idx = idx]

Fault(kind) ==
    /\ status' = kind
    /\ UNCHANGED <<lc, fwvars>>

(* rules[n] of array p is a rule that can be read or written.              *)
Cell(p, n) == array[p].cell[n]
Valid(p, n) ==
    /\ p # NULL
    /\ array[p].state = "live"
    /\ Cell(p, n) # NULL
    /\ block[Cell(p, n)].state = "live"

outer == <<main, file, lcores, kni_list, kni_stop>>

(* setup_rules up to its loop: the file is parsed, the array allocated.    *)
SetupRules(c) ==
    /\ At(c, "rules")
    /\ IF file.parsed
       THEN /\ num_rules' = Len(file.rules)
            /\ rules' = c
            /\ array' = [array EXCEPT ![c] = [NoArray EXCEPT !.state = "live"]]
            /\ Goto(c, IF file.rules = <<>> THEN "return" ELSE "alloc")
            /\ UNCHANGED <<status, block, lpm_tbl, lpm>>
       ELSE Quits("exit") /\ UNCHANGED <<lc, fwvars>>
    /\ UNCHANGED outer

(* One iteration of its loop: the rule is allocated and stored in the      *)
(* array that rules points to at that moment, ...                          *)
AllocRule(c) ==
    /\ At(c, "alloc")
    /\ LET n == lc[c].idx
           r == file.rules[n]
       IN  IF Missing \in {r.ip, r.depth, r.action}
           THEN Quits("exit") /\ UNCHANGED <<lc, fwvars>>
           ELSE IF array[rules].state # "live" THEN Fault("fault")
           ELSE /\ array' = [array EXCEPT ![rules].cell[n] = <<c, n>>]
                /\ block' = [block EXCEPT ![<<c, n>>].state = "live"]
                /\ Goto(c, "src_ip")
                /\ UNCHANGED <<status, rules, num_rules, lpm_tbl, lpm>>
    /\ UNCHANGED outer

(* ... and its fields are written through rules, read again for each.  An  *)
(* address that does not parse leaves src_ip as malloc returned it.        *)
WriteField(c, field, values, next, idx) ==
    /\ At(c, field)
    /\ IF ~Valid(rules, lc[c].idx) THEN Fault("fault")
       ELSE /\ \E v \in values :
                  block' = [block EXCEPT ![Cell(rules, lc[c].idx)][field] = v]
            /\ GotoIdx(c, next, idx)
            /\ UNCHANGED <<status, rules, num_rules, array, lpm_tbl, lpm>>
    /\ UNCHANGED outer

WriteSrcIp(c) ==
    LET ip == file.rules[lc[c].idx].ip IN
    WriteField(c, "src_ip", IF ip \in Addr THEN {ip} ELSE Addr, "depth", lc[c].idx)

(* Mutant: depth is kept in a type wide enough for any number.             *)
WriteDepthWide(c) ==
    WriteField(c, "depth", {file.rules[lc[c].idx].depth}, "action", lc[c].idx)

(* depth and action are uint8_t.                                           *)
WriteDepth(c) ==
    WriteField(c, "depth", {file.rules[lc[c].idx].depth % 256}, "action", lc[c].idx)

WriteAction(c) ==
    LET last == lc[c].idx = Len(file.rules) IN
    WriteField(c, "action", {file.rules[lc[c].idx].action % 256},
               IF last THEN "return" ELSE "alloc", lc[c].idx + 1)

ReturnRules(c) ==
    /\ At(c, "return")
    /\ lc' = [lc EXCEPT ![c].step = "table", ![c].rules = rules]
    /\ UNCHANGED <<status, outer, fwvars>>

(* lpm_setup: a new table replaces the one in lpm_tbl, ...                 *)
LpmCreate(c) ==
    /\ At(c, "table")
    /\ lpm_tbl' \in {c} \cup (IF "lpm" \in MayFail THEN {NULL} ELSE {})
    /\ lpm' = [lpm EXCEPT ![c] = {}]
    /\ GotoIdx(c, "add", 1)
    /\ UNCHANGED <<status, outer, rules, num_rules, array, block>>

(* ... and each rule is added to the table lpm_tbl points to at that       *)
(* moment.  lpm_setup stops at a rule that cannot be added; nobody looks   *)
(* at what it returns.                                                     *)
AddRule(c) ==
    /\ At(c, "add")
    /\ LET n == lc[c].idx
           r == block[Cell(lc[c].rules, n)]
       IN  IF n > num_rules THEN Goto(c, "loop") /\ UNCHANGED <<status, fwvars>>
           ELSE IF ~Valid(lc[c].rules, n) THEN Fault("fault")
           ELSE IF NULL \in {r.src_ip, r.depth, r.action} THEN Fault("fault")
           ELSE IF lpm_tbl = NULL \/ ~LpmDepthOk(r.depth)
           THEN Goto(c, "loop") /\ UNCHANGED <<status, fwvars>>
           ELSE /\ lpm' = [lpm EXCEPT ![lpm_tbl] = LpmAdd(@, r.src_ip, r.depth, r.action)]
                /\ GotoIdx(c, "add", n + 1)
                /\ UNCHANGED <<status, rules, num_rules, array, block, lpm_tbl>>
    /\ UNCHANGED outer

(* A packet in the loop of a coprocessor lcore.  The table and the header  *)
(* of the packet are used without a test.                                  *)
Coprocess(c, a) ==
    /\ At(c, "loop")
    /\ ~kni_stop
    /\ IF lpm_tbl = NULL \/ a = NotIpv4 THEN Fault("fault")
       ELSE UNCHANGED <<status, lc, fwvars>>
    /\ UNCHANGED outer

(* The loop ends; lpm_teardown is called with what rules is now.           *)
StopCoproc(c) ==
    /\ At(c, "loop")
    /\ kni_stop
    /\ lc' = [lc EXCEPT ![c] = [step |-> "free", idx |-> 1, rules |-> rules]]
    /\ UNCHANGED <<status, outer, fwvars>>

FreeRule(c) ==
    /\ At(c, "free")
    /\ LET n == lc[c].idx
           p == lc[c].rules
           b == Cell(p, n)
       IN  IF n > num_rules THEN Goto(c, "free_array") /\ UNCHANGED <<status, fwvars>>
           ELSE IF array[p].state # "live" \/ b = NULL THEN Fault("fault")
           ELSE IF block[b].state # "live" THEN Fault("double_free")
           ELSE /\ block' = [block EXCEPT ![b].state = "freed"]
                /\ GotoIdx(c, "free", n + 1)
                /\ UNCHANGED <<status, rules, num_rules, array, lpm_tbl, lpm>>
    /\ UNCHANGED outer

FreeArray(c) ==
    /\ At(c, "free_array")
    /\ IF array[lc[c].rules].state # "live" THEN Fault("double_free")
       ELSE /\ array' = [array EXCEPT ![lc[c].rules].state = "freed"]
            /\ Goto(c, "exited")
            /\ UNCHANGED <<status, rules, num_rules, block, lpm_tbl, lpm>>
    /\ UNCHANGED outer

(* The loop of the Rx lcore ends.                                          *)
StopRx ==
    /\ lc[RxLcore].step = "loop"
    /\ kni_stop
    /\ Goto(RxLcore, "exited")
    /\ UNCHANGED <<status, outer, fwvars>>

MainStep ==
    /\ status = "running"
    /\ \/ EalInit \/ InitPools \/ read_config \/ kni_alloc \/ KniDone \/ CheckLcores
       \/ Launch \/ WaitLcores \/ kni_free_kni

CoprocStep(c) ==
    /\ status = "running"
    /\ \/ SetupRules(c) \/ AllocRule(c) \/ WriteSrcIp(c) \/ WriteDepth(c)
       \/ WriteAction(c) \/ ReturnRules(c) \/ LpmCreate(c) \/ AddRule(c)
       \/ StopCoproc(c) \/ FreeRule(c) \/ FreeArray(c)

RxStep == status = "running" /\ StopRx

Next ==
    \/ MainStep
    \/ \E c \in Port : CoprocStep(c)
    \/ \E c \in Port, a \in Sources : status = "running" /\ Coprocess(c, a)
    \/ RxStep
    \/ status = "running" /\ signal_handler

Spec == Init /\ [][Next]_vars

-----------------------------------------------------------------------------

(* The file holds only rules the table can take.                           *)
FileValid ==
    /\ file.parsed
    /\ \A n \in DOMAIN file.rules :
           LET r == file.rules[n] IN
           /\ Missing \notin {r.ip, r.depth, r.action}
           /\ r.ip \in Addr
           /\ LpmDepthOk(r.depth % 256)

Covering(a) ==
    {n \in DOMAIN file.rules : SamePrefix(file.rules[n].ip, a, file.rules[n].depth % 256)}

(* What the file says about an address: the longest prefix decides, the    *)
(* last rule among those with the same prefix.                             *)
FileVerdict(a) ==
    LET longest == {n \in Covering(a) : \A m \in Covering(a) :
                        file.rules[m].depth % 256 <= file.rules[n].depth % 256}
    IN  IF Covering(a) = {} THEN "FW_FORWARD"
        ELSE IF file.rules[Max(longest)].action % 256 = 0 THEN "FW_FORWARD" ELSE "FW_DROP"

SetUp(c) == lc[c].step \in {"loop", "free", "free_array", "exited"}

(* TableComplete: once every coprocessor lcore has left coprocessor_setup, *)
(* the table that all of them ask decides every address as the file does,  *)
(* in whatever order the lcores replaced the globals and added rules,      *)
(* unless an undefined access ended the process: the lcore that created    *)
(* the last table adds every rule to it.                                   *)
TableComplete ==
    status = "running" /\ FileValid /\ lpm_tbl # NULL /\ (\A c \in Port : SetUp(c)) =>
        \A a \in Addr : fw_packet_handler(lpm[lpm_tbl], a) = FileVerdict(a)

(* DropsOnlyByRule: at every moment, also while lcores still fill or       *)
(* replace the table, fw_packet_handler drops an address only when some    *)
(* rule of the file that rejects packets covers it.                        *)
DropsOnlyByRule ==
    status = "running" /\ FileValid /\ lpm_tbl # NULL =>
        \A a \in Addr :
            fw_packet_handler(lpm[lpm_tbl], a) = "FW_DROP" =>
                \E n \in Covering(a) : file.rules[n].action % 256 # 0

(* PortsWhileRunning: while any lcore is inside main_loop, every virtual   *)
(* port is allocated: none is missing at launch and none is released       *)
(* before the last lcore has returned.                                     *)
PortsWhileRunning ==
    status = "running" /\ (\E l \in Lcore : lc[l].step \notin {"idle", "exited"}) =>
        kni_list = Port

=============================================================================
