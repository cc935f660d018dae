---------------------------- MODULE EngineProofs ----------------------------
(***************************************************************************)
(* Proofs about Engine, for every number of ports, every width of an       *)
(* address, every file and every failure of an external call: the virtual  *)
(* ports exist while lcores run, and the firewall's table, which several   *)
(* lcores fill and replace without a lock, decides as the file says.       *)
(***************************************************************************)
EXTENDS Engine, WellFoundedInduction, TLAPS

-----------------------------------------------------------------------------
(* Least and greatest numbers.                                             *)

(* A set of natural numbers that is not empty has a least element.         *)
LEMMA LeastNat ==
  ASSUME NEW T, T \subseteq Nat, T # {}
  PROVE  \E x \in T : \A y \in T : x <= y
  <1> DEFINE R == OpToRel(<, Nat)
  <1>1. \A x, y \in Nat : y < x => <<y, x>> \in R  BY DEF OpToRel
  <1>2. IsWellFoundedOn(R, Nat)  BY NatLessThanWellFounded, Zenon
  <1> HIDE DEF R
  <1>3. PICK x \in T : \A y \in T : <<y, x>> \notin R  BY <1>2, WFMin, Zenon
  <1>4. \A y \in T : ~(y < x)  BY <1>1, <1>3, Zenon
  <1> QED  BY <1>4

(* One that is bounded has a greatest one, which is its Max.               *)
LEMMA GreatestNat ==
  ASSUME NEW T, T # {}, NEW b \in Nat, T \subseteq 0 .. b
  PROVE  Max(T) \in T /\ \A y \in T : y <= Max(T)
  <1> DEFINE D == {b - x : x \in T}
  <1>0. \A x \in T : x \in Nat /\ x <= b /\ b - x \in Nat  OBVIOUS
  <1>1. D \subseteq Nat /\ D # {}
    <2>1. \A d \in D : d \in Nat  BY <1>0
    <2>2. PICK x \in T : TRUE  BY Zenon
    <2>3. b - x \in D  BY <2>2
    <2> QED  BY <2>1, <2>3
  <1> HIDE DEF D
  <1>2. PICK d \in D : \A y \in D : d <= y  BY <1>1, LeastNat, Zenon
  <1> USE DEF D
  <1>3. PICK x \in T : d = b - x  OBVIOUS
  <1>4. \A y \in T : b - x <= b - y  BY <1>2, <1>3
  <1>5. \A y \in T : x >= y  BY <1>0, <1>4
  <1>6. Max(T) \in T /\ \A y \in T : Max(T) >= y  BY <1>5, Zenon DEF Max
  <1> QED  BY <1>6

-----------------------------------------------------------------------------
(* main and the virtual ports.                                             *)

MainSteps == {"eal", "init", "read_config", "kni", "lcores", "launch", "wait", "free"}

LcSteps == {"idle", "rules", "alloc", "src_ip", "depth", "action", "return", "table",
            "add", "loop", "free", "free_array", "exited"}

LcType == lc \in [Lcore -> [step : LcSteps, idx : Nat \ {0}, rules : Port \cup {NULL}]]

(* Where main is decides which ports are allocated and which lcores run.   *)
PortInv ==
    /\ LcType
    /\ main \in [step : MainSteps, idx : Nat]
    /\ main.step \in {"eal", "init", "read_config"} => kni_list = {}
    /\ main.step = "kni" => main.idx <= KNI_KTHREAD /\ kni_list = 0 .. main.idx - 1
    /\ main.step \in {"lcores", "launch", "wait"} => kni_list = Port
    /\ main.step \notin {"wait", "free"} => \A l \in Lcore : lc[l].step = "idle"
    /\ main.step \in {"launch", "wait", "free"} => Lcore \subseteq lcores
    /\ main.step = "free" => \A l \in Lcore : lc[l].step = "exited"

(* What a step of an lcore does to lc: one lcore that is neither idle nor  *)
(* exited moves, and does not become idle.                                 *)
Moves(l) ==
    /\ lc[l].step \notin {"idle", "exited"}
    /\ \E r \in [step : LcSteps \ {"idle"}, idx : Nat \ {0}, rules : Port \cup {NULL}] :
           lc' = [lc EXCEPT ![l] = r]

(* The coprocessors' lcores and the Rx lcore are different lcores.         *)
LEMMA PortTypes == Port \subseteq Lcore /\ RxLcore \in Lcore /\ RxLcore \notin Port /\ NULL \notin Port
  BY EngineAssumption DEF Port, Lcore, RxLcore

(* main starts without ports and without lcores.                           *)
LEMMA InitPort == Init => PortInv
  BY EngineAssumption DEF Init, PortInv, LcType, MainSteps, LcSteps

(* A step that leaves main and the ports alone and moves one running lcore *)
(* at most keeps the invariant.                                            *)
LEMMA MovesPort ==
  ASSUME PortInv, NEW l \in Lcore, Moves(l) \/ UNCHANGED lc,
         UNCHANGED <<main, lcores, kni_list>>
  PROVE  PortInv'
  BY DEF PortInv, LcType, Moves, MainSteps, LcSteps

(* Every step of a coprocessor lcore is such a step.                       *)
LEMMA CoprocMoves ==
  ASSUME LcType, rules \in Port \cup {NULL}, NEW c \in Port, CoprocStep(c)
  PROVE  (Moves(c) \/ UNCHANGED lc) /\ UNCHANGED <<main, file, lcores, kni_list, kni_stop>>
  <1> DEFINE Rec == [step : LcSteps \ {"idle"}, idx : Nat \ {0}, rules : Port \cup {NULL}]
  <1> USE PortTypes DEF LcType, LcSteps
  <1>1. ASSUME NEW from, NEW to \in LcSteps \ {"idle"}, At(c, from),
               from \notin {"idle", "exited"}, Goto(c, to)
        PROVE  Moves(c)
    <2>1. [lc[c] EXCEPT !.step = to] \in Rec  OBVIOUS
    <2>2. lc' = [lc EXCEPT ![c] = [lc[c] EXCEPT !.step = to]]  BY <1>1 DEF Goto
    <2> QED  BY <1>1, <2>1, <2>2, Zenon DEF Moves, At
  <1>2. ASSUME NEW from, NEW to \in LcSteps \ {"idle"}, At(c, from), NEW n \in Nat \ {0},
               from \notin {"idle", "exited"}, GotoIdx(c, to, n)
        PROVE  Moves(c)
    <2>1. [lc[c] EXCEPT !.step = to, !.idx = n] \in Rec  BY Zenon
    <2>2. lc' = [lc EXCEPT ![c] = [lc[c] EXCEPT !.step = to, !.idx = n]]  BY <1>2, Zenon DEF GotoIdx
    <2> QED  BY <1>2, <2>1, <2>2, Zenon DEF Moves, At
  <1>3. lc[c].idx \in Nat \ {0} /\ lc[c].idx + 1 \in Nat \ {0} /\ 1 \in Nat \ {0}  OBVIOUS
  <1>4. CASE SetupRules(c)
    <2>1. CASE file.parsed
      <3>1. CASE file.rules = << >>
        BY <1>1, <1>4, <2>1, <3>1 DEF SetupRules, outer
      <3>2. CASE file.rules # << >>
        BY <1>1, <1>4, <2>1, <3>2 DEF SetupRules, outer
      <3> QED  BY <3>1, <3>2
    <2>2. CASE ~file.parsed
      BY <1>4, <2>2 DEF SetupRules, outer
    <2> QED  BY <2>1, <2>2
  <1>5. CASE AllocRule(c)  BY <1>1, <1>5 DEF AllocRule, Fault, outer
  <1>6. CASE WriteSrcIp(c)
    BY <1>2, <1>3, <1>6 DEF WriteSrcIp, WriteField, Fault, outer
  <1>7. CASE WriteDepth(c)
    BY <1>2, <1>3, <1>7 DEF WriteDepth, WriteField, Fault, outer
  <1>8. CASE WriteAction(c)
    <2>1. CASE lc[c].idx = Len(file.rules)
      BY <1>2, <1>3, <1>8, <2>1 DEF WriteAction, WriteField, Fault, outer
    <2>2. CASE lc[c].idx # Len(file.rules)
      BY <1>2, <1>3, <1>8, <2>2 DEF WriteAction, WriteField, Fault, outer
    <2> QED  BY <2>1, <2>2
  <1>9. CASE ReturnRules(c)
    <2>1. [lc[c] EXCEPT !.step = "table", !.rules = rules] \in Rec  BY Zenon
    <2>2. lc' = [lc EXCEPT ![c] = [lc[c] EXCEPT !.step = "table", !.rules = rules]]
      BY <1>9, Zenon DEF ReturnRules
    <2> QED  BY <1>9, <2>1, <2>2, Zenon DEF ReturnRules, Moves, At, outer
  <1>10. CASE LpmCreate(c)  BY <1>2, <1>3, <1>10 DEF LpmCreate, outer
  <1>11. CASE AddRule(c)
    BY <1>1, <1>2, <1>3, <1>11 DEF AddRule, Fault, outer
  <1>12. CASE StopCoproc(c)
    <2>1. [step |-> "free", idx |-> 1, rules |-> rules] \in Rec  OBVIOUS
    <2> QED  BY <1>12, <2>1, Zenon DEF StopCoproc, Moves, At, outer
  <1>13. CASE FreeRule(c)
    BY <1>1, <1>2, <1>3, <1>13 DEF FreeRule, Fault, outer
  <1>14. CASE FreeArray(c)  BY <1>1, <1>14 DEF FreeArray, Fault, outer
  <1> QED
    BY <1>4, <1>5, <1>6, <1>7, <1>8, <1>9, <1>10, <1>11, <1>12, <1>13, <1>14 DEF CoprocStep

(* Every step of main keeps the invariant: ports are allocated before the  *)
(* launch, and released when every lcore has returned.                     *)
LEMMA MainPort ==
  ASSUME PortInv, MainStep
  PROVE  PortInv'
  <1> USE EngineAssumption DEF PortInv, LcType, MainSteps
  <1>1. CASE EalInit \/ InitPools
    BY <1>1 DEF EalInit, InitPools, MainCall
  <1>2. CASE read_config  BY <1>2 DEF read_config
  <1>3. CASE kni_alloc
    <2>1. CASE UNCHANGED <<kni_list, main>>  BY <1>3, <2>1 DEF kni_alloc
    <2>2. CASE kni_list' = kni_list \cup {main.idx} /\ main' = [main EXCEPT !.idx = @ + 1]
      <3>1. main.step = "kni" /\ main.idx \in Nat /\ main.idx < KNI_KTHREAD
        BY <1>3 DEF kni_alloc
      <3>2. (0 .. main.idx - 1) \cup {main.idx} = 0 .. main.idx  BY <3>1
      <3>3. main'.step = "kni" /\ main'.idx = main.idx + 1 /\ main'.idx - 1 = main.idx
        BY <2>2, <3>1
      <3>4. main' \in [step : MainSteps, idx : Nat]  BY <2>2
      <3>5. kni_list' = 0 .. main'.idx - 1  BY <2>2, <3>1, <3>2, <3>3
      <3>6. main'.idx <= KNI_KTHREAD
        <4> HIDE DEF PortInv
        <4>1. KNI_KTHREAD \in Nat  OBVIOUS
        <4> QED  BY <3>1, <3>3, <4>1
      <3>7. UNCHANGED <<lc, lcores>>  BY <1>3 DEF kni_alloc
      <3> QED  BY <3>1, <3>3, <3>4, <3>5, <3>6, <3>7
    <2> QED  BY <1>3, <2>1, <2>2 DEF kni_alloc
  <1>4. CASE KniDone  BY <1>4 DEF KniDone, Port
  <1>5. CASE CheckLcores
    <2>1. LcoresOk => Lcore \subseteq lcores  BY DEF LcoresOk, Lcore
    <2> QED  BY <1>5, <2>1 DEF CheckLcores
  <1>6. CASE Launch
    <2>1. \A l \in Lcore : FirstStep(l) \in LcSteps  BY DEF FirstStep, LcSteps
    <2> QED  BY <1>6, <2>1 DEF Launch
  <1>7. CASE WaitLcores  BY <1>7 DEF WaitLcores, AllExited
  <1>8. CASE kni_free_kni  BY <1>8 DEF kni_free_kni
  <1> QED
    BY <1>1, <1>2, <1>3, <1>4, <1>5, <1>6, <1>7, <1>8 DEF MainStep

-----------------------------------------------------------------------------
(* The firewall.                                                           *)

HeapState == {"none", "live", "freed"}

CellValue == Block \cup {NULL}
FieldValue(f) == {NULL} \cup (IF f = "src_ip" THEN Addr ELSE 0 .. 255)

ArrayRec == [state : HeapState, cell : [1 .. MaxRules -> CellValue]]
BlockRec ==
    [state : HeapState, src_ip : FieldValue("src_ip"), depth : FieldValue("depth"),
     action : FieldValue("action")]

TableEntry == [ip : Addr, depth : 0 .. 255, action : 0 .. 255]

FwType ==
    /\ file \in Files
    /\ rules \in Port \cup {NULL}
    /\ num_rules \in Nat
    /\ array \in [Port -> ArrayRec]
    /\ block \in [Block -> BlockRec]
    /\ lpm_tbl \in Port \cup {NULL}
    /\ lpm \in [Port -> SUBSET TableEntry]

(* An lcore that has read the file has set the globals, and every lcore    *)
(* sets num_rules to the same value; in the loop of setup_rules the index  *)
(* is that of a rule, and all members of the rule have been found.         *)
(* lpm_teardown gets an array.                                             *)
ReadAt(c) ==
    /\ lc[c].step \in {"idle", "rules"} => lc[c].idx = 1
    /\ lc[c].step \notin {"idle", "rules"} => rules \in Port /\ num_rules = Len(file.rules)
    /\ lc[c].step \in {"alloc", "src_ip", "depth", "action"} => lc[c].idx \in DOMAIN file.rules
    /\ lc[c].step \in {"free", "free_array"} => lc[c].rules \in Port
    /\ lc[c].step \in {"src_ip", "depth", "action"} =>
           LET r == file.rules[lc[c].idx] IN Missing \notin {r.ip, r.depth, r.action}

ReadInv == \A c \in Port : ReadAt(c)

(* Whoever allocated it, the block that cell n of an array points to is    *)
(* one for rule n, ...                                                     *)
CellInv == \A p \in Port, n \in 1 .. MaxRules : Cell(p, n) # NULL => Cell(p, n)[2] = n

(* ... and what has been written to it is what the file says.              *)
Text(n) ==
    [ip |-> file.rules[n].ip, depth |-> file.rules[n].depth % 256,
     action |-> file.rules[n].action % 256]

BlockInv ==
    FileValid => \A b \in Block : b[2] \in DOMAIN file.rules =>
        /\ block[b].src_ip # NULL => block[b].src_ip = Text(b[2]).ip
        /\ block[b].depth # NULL => block[b].depth = Text(b[2]).depth
        /\ block[b].action # NULL => block[b].action = Text(b[2]).action

(* A table has only rules of the file, and one entry for a prefix.         *)
SameEntry(e, f) == e.depth = f.depth /\ SamePrefix(e.ip, f.ip, e.depth)

TableInv ==
    FileValid => \A p \in Port :
        /\ \A e \in lpm[p] : \E n \in DOMAIN file.rules : e = Text(n)
        /\ \A e, f \in lpm[p] : SameEntry(e, f) => e = f

(* The last rule for a prefix is in the current table, or some lcore has   *)
(* still to add it.                                                        *)
LastForPrefix(n) == \A k \in DOMAIN file.rules : k > n => ~SameEntry(Text(k), Text(n))

Adding(c, n) == lc[c].step = "add" /\ lc[c].idx <= n

LastInv ==
    status = "running" /\ FileValid /\ lpm_tbl # NULL =>
        \A n \in DOMAIN file.rules : LastForPrefix(n) =>
            Text(n) \in lpm[lpm_tbl] \/ \E c \in Port : Adding(c, n)

FwInv == FwType /\ ReadInv /\ CellInv /\ BlockInv /\ TableInv /\ LastInv

IInv == PortInv /\ FwInv

(* A write to a cell of an array, to the state of a block, and to one of   *)
(* its fields.                                                             *)
CellTo(p, k, v) == [array EXCEPT ![p].cell[k] = v]

(* It changes that cell of that array only.                                *)
LEMMA CellWrite ==
  ASSUME FwType, NEW p \in Port, NEW k \in 1 .. MaxRules, NEW v \in CellValue
  PROVE  /\ CellTo(p, k, v) \in [Port -> ArrayRec]
         /\ \A q \in Port, m \in 1 .. MaxRules :
               CellTo(p, k, v)[q].cell[m] = IF q = p /\ m = k THEN v ELSE array[q].cell[m]
  <1> DEFINE r == [array[p] EXCEPT !.cell[k] = v]
             K == 1 .. MaxRules
             b == CellTo(p, k, v)
  <1> HIDE DEF K
  <1>0. k \in K /\ ArrayRec = [state : HeapState, cell : [K -> CellValue]]
    BY DEF K, ArrayRec
  <1>1. b = [array EXCEPT ![p] = r]  BY DEF CellTo
  <1>2. array \in [Port -> ArrayRec]  BY DEF FwType
  <1>3. r.state = array[p].state /\ r.cell = [array[p].cell EXCEPT ![k] = v]  BY <1>0, <1>2
  <1>4. r \in ArrayRec  BY <1>0, <1>2
  <1> HIDE DEF r, b
  <1>5. \A q \in Port : b[q] = IF q = p THEN r ELSE array[q]  BY <1>1, <1>2
  <1>6. \A q \in Port, m \in K :
           b[q].cell[m] = IF q = p /\ m = k THEN v ELSE array[q].cell[m]
    BY <1>0, <1>2, <1>3, <1>5
  <1> QED  BY <1>1, <1>2, <1>4, <1>6 DEF K, b

StateTo(b, v) == [block EXCEPT ![b].state = v]

(* It leaves the fields of every block alone.                              *)
LEMMA StateWrite ==
  ASSUME FwType, NEW b \in Block, NEW v \in HeapState
  PROVE  /\ StateTo(b, v) \in [Block -> BlockRec]
         /\ \A c \in Block : /\ StateTo(b, v)[c].src_ip = block[c].src_ip
                             /\ StateTo(b, v)[c].depth = block[c].depth
                             /\ StateTo(b, v)[c].action = block[c].action
  BY DEF FwType, BlockRec, StateTo

FieldTo(b, field, v) == [block EXCEPT ![b][field] = v]

(* It changes that field of that block only.                               *)
LEMMA FieldWrite ==
  ASSUME FwType, NEW b \in Block, NEW field \in {"src_ip", "depth", "action"},
         NEW v \in FieldValue(field)
  PROVE  /\ FieldTo(b, field, v) \in [Block -> BlockRec]
         /\ \A c \in Block :
              LET d == FieldTo(b, field, v)[c] IN
              /\ d.src_ip = IF c = b /\ field = "src_ip" THEN v ELSE block[c].src_ip
              /\ d.depth = IF c = b /\ field = "depth" THEN v ELSE block[c].depth
              /\ d.action = IF c = b /\ field = "action" THEN v ELSE block[c].action
  <1> DEFINE g == FieldTo(b, field, v)
  <1> USE DEF FwType, BlockRec
  <1>1. CASE field = "src_ip"
    <2>1. g = [block EXCEPT ![b] = [block[b] EXCEPT !.src_ip = v]]  BY <1>1, Zenon DEF FieldTo
    <2>2. [block[b] EXCEPT !.src_ip = v] \in BlockRec  BY <1>1
    <2> QED  BY <1>1, <2>1, <2>2
  <1>2. CASE field = "depth"
    <2>1. g = [block EXCEPT ![b] = [block[b] EXCEPT !.depth = v]]  BY <1>2, Zenon DEF FieldTo
    <2>2. [block[b] EXCEPT !.depth = v] \in BlockRec  BY <1>2
    <2> QED  BY <1>2, <2>1, <2>2
  <1>3. CASE field = "action"
    <2>1. g = [block EXCEPT ![b] = [block[b] EXCEPT !.action = v]]  BY <1>3, Zenon DEF FieldTo
    <2>2. [block[b] EXCEPT !.action = v] \in BlockRec  BY <1>3
    <2> QED  BY <1>3, <2>1, <2>2
  <1> QED  BY <1>1, <1>2, <1>3

(* The rules of a file.                                                    *)
LEMMA FileRules ==
  ASSUME FwType
  PROVE  /\ file.rules \in Seq(RuleText)
         /\ DOMAIN file.rules = 1 .. Len(file.rules)
         /\ Len(file.rules) \in Nat
         /\ Len(file.rules) <= MaxRules
         /\ \A n \in DOMAIN file.rules : file.rules[n] \in RuleText /\ n \in 1 .. MaxRules
  BY EngineAssumption DEF FwType

(* With a valid file the text of a rule is a table entry.                  *)
LEMMA TextType ==
  ASSUME FwType, FileValid, NEW n \in DOMAIN file.rules
  PROVE  Text(n) \in TableEntry /\ LpmDepthOk(Text(n).depth)
  <1>1. file.rules[n] \in RuleText  BY FileRules
  <1>2. /\ file.rules[n].ip \in Addr
        /\ file.rules[n].depth \in Int /\ file.rules[n].action \in Int
        /\ LpmDepthOk(file.rules[n].depth % 256)
    BY <1>1 DEF FileValid, RuleText
  <1>3. file.rules[n].depth % 256 \in 0 .. 255 /\ file.rules[n].action % 256 \in 0 .. 255
    BY <1>2
  <1> QED  BY <1>2, <1>3, Zenon DEF Text, TableEntry

(* At the start nothing has been read, allocated or added.                 *)
LEMMA InitFw == Init => FwInv
  <1> SUFFICES ASSUME Init PROVE FwInv  OBVIOUS
  <1>1. FwType
    BY EngineAssumption DEF Init, FwType, NoArray, NoBlock, HeapState, BlockRec, ArrayRec,
       CellValue, FieldValue
  <1>2. ReadInv  BY PortTypes DEF Init, ReadInv, ReadAt
  <1>3. CellInv  BY Zenon DEF Init, CellInv, Cell, NoArray
  <1>4. BlockInv /\ TableInv /\ LastInv  BY DEF Init, BlockInv, TableInv, LastInv, NoBlock
  <1> QED  BY <1>1, <1>2, <1>3, <1>4 DEF FwInv

(* Steps that leave the firewall's data alone, and lcores that stay where  *)
(* they are or go on without adding anything.                              *)
LEMMA OutsideFw ==
  ASSUME FwInv, UNCHANGED <<file, fwvars>>, status' = "running" => status = "running",
         \A c \in Port :
            \/ lc'[c] = lc[c]
            \/ /\ lc'[c].step \in {"rules", "table", "free", "free_array", "exited"}
               /\ lc[c].step # "add"
               /\ lc'[c].step = "rules" => lc[c].step = "idle" /\ lc'[c].idx = lc[c].idx
               /\ lc[c].step \in {"idle", "rules"} => lc'[c].step = "rules"
               /\ lc'[c].step \in {"free", "free_array"} => lc'[c].rules \in Port
  PROVE  FwInv'
  <1>1. FwType' /\ CellInv'  BY DEF FwInv, FwType, fwvars, CellInv, Cell
  <1>2. ReadInv'
    <2> SUFFICES ASSUME NEW c \in Port PROVE ReadAt(c)'  BY DEF ReadInv
    <2>1. ReadAt(c) /\ UNCHANGED <<file, rules, num_rules>>  BY DEF FwInv, ReadInv, fwvars
    <2>2. CASE lc'[c] = lc[c]  BY <2>1, <2>2 DEF ReadAt
    <2>3. CASE lc'[c] # lc[c]  BY <2>1, <2>3 DEF ReadAt
    <2> QED  BY <2>2, <2>3
  <1>3. FileValid' = FileValid /\ \A n : Text(n)' = Text(n) /\ LastForPrefix(n)' = LastForPrefix(n)
    BY DEF FileValid, Text, LastForPrefix
  <1>4. BlockInv' /\ TableInv'  BY <1>3 DEF FwInv, BlockInv, TableInv, fwvars
  <1>5. LastInv'
    <2>1. \A c \in Port : \A n : Adding(c, n) => Adding(c, n)'  BY DEF Adding
    <2> QED  BY <1>3, <2>1 DEF FwInv, LastInv, fwvars
  <1> QED  BY <1>1, <1>2, <1>4, <1>5 DEF FwInv

(* The same for steps that change other parts of the firewall's data.      *)
LEMMA SameFile ==
  ASSUME UNCHANGED file
  PROVE  /\ FileValid' = FileValid
         /\ \A n : Text(n)' = Text(n)
         /\ \A n : LastForPrefix(n)' = LastForPrefix(n)
  BY DEF FileValid, Text, LastForPrefix

(* A step of lcore c into a step with other demands on what was read.      *)
LEMMA ReadStep ==
  ASSUME ReadInv, NEW c \in Port, UNCHANGED <<file, rules, num_rules>>,
         \A d \in Port \ {c} : lc'[d] = lc[d], ReadAt(c)'
  PROVE  ReadInv'
  BY DEF ReadInv, ReadAt

(* A step that leaves the tables alone.                                    *)
LEMMA TableStep ==
  ASSUME TableInv, UNCHANGED <<file, lpm>>
  PROVE  TableInv'
  BY SameFile, Zenon DEF TableInv

(* A step that does not, if what the tables have after it is right.        *)
LEMMA TableChange ==
  ASSUME UNCHANGED file,
         FileValid => \A p \in Port :
             /\ \A e \in lpm'[p] : \E n \in DOMAIN file.rules : e = Text(n)
             /\ \A e, f \in lpm'[p] : SameEntry(e, f) => e = f
  PROVE  TableInv'
  <1> SUFFICES ASSUME FileValid', NEW p \in Port
               PROVE  /\ \A e \in lpm'[p] : \E n \in DOMAIN file'.rules : e = Text(n)'
                      /\ \A e, f \in lpm'[p] : SameEntry(e, f) => e = f
    BY DEF TableInv
  <1> QED  BY SameFile, Zenon

(* A step of lcore c that leaves the tables alone and adds nothing.        *)
LEMMA LastStep ==
  ASSUME LastInv, NEW c \in Port, UNCHANGED <<file, lpm_tbl, lpm>>,
         status' = "running" => status = "running",
         \A d \in Port \ {c} : lc'[d] = lc[d], lc[c].step # "add"
  PROVE  LastInv'
  <1>1. \A d \in Port : \A n : Adding(d, n) => Adding(d, n)'  BY DEF Adding
  <1> QED  BY <1>1, SameFile, Zenon DEF LastInv

(* setup_rules up to its loop.                                             *)
LEMMA SetupRulesFw ==
  ASSUME LcType, FwInv, NEW c \in Port, status = "running", SetupRules(c)
  PROVE  FwInv'
  <1> USE DEF FwInv
  <1>1. CASE ~file.parsed
    BY <1>1, OutsideFw DEF SetupRules, Quits, outer
  <1>2. CASE file.parsed
    <2>1. /\ num_rules' = Len(file.rules) /\ rules' = c
          /\ array' = [array EXCEPT ![c] = [NoArray EXCEPT !.state = "live"]]
          /\ lc' = [lc EXCEPT ![c].step = IF file.rules = << >> THEN "return" ELSE "alloc"]
          /\ UNCHANGED <<status, block, lpm_tbl, lpm, file>>
          /\ lc[c].step = "rules"
      BY <1>2 DEF SetupRules, Goto, At, outer
    <2>2. FwType'
      BY <2>1, FileRules DEF FwType, NoArray, HeapState, ArrayRec, CellValue
    <2>3. ReadInv'
      <3>1. lc[c].idx = 1  BY <2>1 DEF ReadInv, ReadAt
      <3> QED  BY <2>1, <3>1, PortTypes, FileRules DEF ReadInv, ReadAt, LcType
    <2>4. CellInv'  BY <2>1 DEF CellInv, Cell, NoArray, FwType
    <2>5. BlockInv' /\ TableInv'  BY <2>1, SameFile DEF BlockInv, TableInv
    <2>6. LastInv'
      BY <2>1, LastStep, PortTypes DEF LcType
    <2> QED  BY <2>2, <2>3, <2>4, <2>5, <2>6
  <1> QED  BY <1>1, <1>2

(* One iteration of its loop up to the allocation.                         *)
LEMMA AllocRuleFw ==
  ASSUME LcType, FwInv, NEW c \in Port, status = "running", AllocRule(c)
  PROVE  FwInv'
  <1> USE DEF FwInv
  <1> DEFINE n == lc[c].idx
             r == file.rules[n]
  <1>1. CASE Missing \in {r.ip, r.depth, r.action} \/ array[rules].state # "live"
    BY <1>1, OutsideFw DEF AllocRule, Quits, Fault, outer
  <1>2. CASE ~(Missing \in {r.ip, r.depth, r.action} \/ array[rules].state # "live")
    <2>1. /\ array' = [array EXCEPT ![rules].cell[n] = <<c, n>>]
          /\ block' = [block EXCEPT ![<<c, n>>].state = "live"]
          /\ lc' = [lc EXCEPT ![c].step = "src_ip"]
          /\ UNCHANGED <<status, rules, num_rules, lpm_tbl, lpm, file>>
          /\ lc[c].step = "alloc"
      BY <1>2 DEF AllocRule, Goto, At, outer
    <2>2. n \in DOMAIN file.rules /\ n \in 1 .. MaxRules /\ rules \in Port
      BY <2>1, FileRules DEF ReadInv, ReadAt
    <2>3. <<c, n>> \in Block  BY <2>2 DEF Block
    <2>4. /\ array' \in [Port -> ArrayRec]
          /\ \A p \in Port, k \in 1 .. MaxRules :
                array'[p].cell[k] = IF p = rules /\ k = n THEN <<c, n>> ELSE array[p].cell[k]
      <3> DEFINE d == <<c, n>>
      <3>1. d \in CellValue  BY <2>3 DEF CellValue
      <3>2. array' = CellTo(rules, n, d)  BY <2>1 DEF CellTo
      <3> HIDE DEF n, d
      <3>3. /\ array' \in [Port -> ArrayRec]
            /\ \A p \in Port, k \in 1 .. MaxRules :
                  array'[p].cell[k] = IF p = rules /\ k = n THEN d ELSE array[p].cell[k]
        BY <2>2, <3>1, <3>2, CellWrite
      <3> QED  BY <3>3 DEF d
    <2>5. /\ block' \in [Block -> BlockRec]
           /\ \A b \in Block : /\ block'[b].src_ip = block[b].src_ip
                               /\ block'[b].depth = block[b].depth
                               /\ block'[b].action = block[b].action
      <3> DEFINE d == <<c, n>>
      <3> HIDE DEF d
      <3>1. block' = StateTo(d, "live") /\ d \in Block  BY <2>1, <2>3 DEF d, StateTo
      <3>2. "live" \in HeapState  BY DEF HeapState
      <3> QED  BY <3>1, <3>2, StateWrite
    <2>6. FwType'  BY <2>1, <2>4, <2>5 DEF FwType
    <2>7. ReadInv'
      <3>1. ReadAt(c)'  BY <1>2, <2>1, <2>2, PortTypes DEF ReadInv, ReadAt, LcType
      <3> QED  BY <2>1, <3>1, ReadStep, PortTypes DEF LcType
    <2>8. CellInv'  BY <2>2, <2>4 DEF CellInv, Cell
    <2>9. BlockInv'
      <3> SUFFICES ASSUME FileValid, NEW a \in Block, a[2] \in DOMAIN file.rules
                   PROVE  /\ block'[a].src_ip # NULL => block'[a].src_ip = Text(a[2]).ip
                          /\ block'[a].depth # NULL => block'[a].depth = Text(a[2]).depth
                          /\ block'[a].action # NULL => block'[a].action = Text(a[2]).action
        BY <2>1, SameFile, Zenon DEF BlockInv
      <3> QED  BY <2>5 DEF BlockInv
    <2>10. TableInv'  BY <2>1, TableStep
    <2>11. LastInv'  BY <2>1, LastStep, PortTypes DEF LcType
    <2> QED  BY <2>6, <2>7, <2>8, <2>9, <2>10, <2>11
  <1> QED  BY <1>1, <1>2

(* A step that writes fields of one block with the text of its rule.       *)
LEMMA WriteFw ==
  ASSUME LcType, FwInv, NEW c \in Port, status = "running",
         NEW field \in {"src_ip", "depth", "action"}, NEW values, NEW next \in LcSteps, NEW idx,
         WriteField(c, field, values, next, idx),
         \A v \in values :
             /\ field = "src_ip" => v \in Addr /\ (FileValid => v = Text(lc[c].idx).ip)
             /\ field = "depth" => v \in 0 .. 255 /\ v = Text(lc[c].idx).depth
             /\ field = "action" => v \in 0 .. 255 /\ v = Text(lc[c].idx).action,
         lc' = [lc EXCEPT ![c].step = next, ![c].idx = idx] => ReadAt(c)'
  PROVE  FwInv'
  <1> USE DEF FwInv
  <1>1. CASE ~Valid(rules, lc[c].idx)
    BY <1>1, OutsideFw DEF WriteField, Fault, outer
  <1>2. CASE Valid(rules, lc[c].idx)
    <2> DEFINE n == lc[c].idx
               b == Cell(rules, n)
    <2>1. PICK v \in values : block' = [block EXCEPT ![Cell(rules, n)][field] = v]
      BY <1>2 DEF WriteField
    <2>2. /\ lc' = [lc EXCEPT ![c].step = next, ![c].idx = idx]
          /\ UNCHANGED <<status, rules, num_rules, array, lpm_tbl, lpm, file>>
          /\ lc[c].step = field
      BY <1>2 DEF WriteField, GotoIdx, At, outer
    <2>3. n \in DOMAIN file.rules /\ n \in 1 .. MaxRules /\ rules \in Port
      BY <2>2, FileRules DEF ReadInv, ReadAt
    <2>4. b \in Block /\ b[2] = n
      <3>1. b # NULL  BY <1>2 DEF Valid
      <3>2. array[rules] \in ArrayRec  BY <2>3 DEF FwType
      <3>3. b \in CellValue  BY <2>3, <3>2, Zenon DEF Cell, ArrayRec
      <3> QED  BY <2>3, <3>1, <3>3 DEF CellInv, CellValue
    <2> HIDE DEF b
    <2>5. block' = FieldTo(b, field, v)  BY <2>1 DEF b, FieldTo
    <2>6. v \in FieldValue(field)  BY <2>1 DEF FieldValue
    <2>7. /\ block' \in [Block -> BlockRec]
          /\ \A a \in Block :
              /\ block'[a].src_ip = IF a = b /\ field = "src_ip" THEN v ELSE block[a].src_ip
              /\ block'[a].depth = IF a = b /\ field = "depth" THEN v ELSE block[a].depth
              /\ block'[a].action = IF a = b /\ field = "action" THEN v ELSE block[a].action
      BY <2>5, <2>4, <2>6, FieldWrite
    <2>8. FwType'  BY <2>2, <2>7 DEF FwType
    <2>9. ReadInv'  BY <2>2, ReadStep, PortTypes DEF LcType
    <2>10. CellInv'  BY <2>2 DEF CellInv, Cell
    <2>11. BlockInv'
      <3> SUFFICES ASSUME FileValid, NEW a \in Block, a[2] \in DOMAIN file.rules
                   PROVE  /\ block'[a].src_ip # NULL => block'[a].src_ip = Text(a[2]).ip
                          /\ block'[a].depth # NULL => block'[a].depth = Text(a[2]).depth
                          /\ block'[a].action # NULL => block'[a].action = Text(a[2]).action
        BY <2>2, SameFile, Zenon DEF BlockInv
      <3> QED  BY <2>1, <2>4, <2>7 DEF BlockInv
    <2>12. TableInv'  BY <2>2, TableStep
    <2>13. LastInv'  BY <2>2, LastStep, PortTypes DEF LcType
    <2> QED  BY <2>8, <2>9, <2>10, <2>11, <2>12, <2>13
  <1> QED  BY <1>1, <1>2

(* The three writes.                                                       *)
LEMMA WritesFw ==
  ASSUME LcType, FwInv, NEW c \in Port, status = "running",
         WriteSrcIp(c) \/ WriteDepth(c) \/ WriteAction(c)
  PROVE  FwInv'
  <1> DEFINE n == lc[c].idx
             r == file.rules[n]
  <1>1. /\ lc[c].step \in {"src_ip", "depth", "action"}
        /\ UNCHANGED file
    BY DEF WriteSrcIp, WriteDepth, WriteAction, WriteField, At, outer
  <1>2. /\ n \in DOMAIN file.rules /\ Missing \notin {r.ip, r.depth, r.action}
        /\ rules \in Port /\ num_rules = Len(file.rules)
    BY <1>1 DEF FwInv, ReadInv, ReadAt
  <1>3. r \in RuleText /\ n \in 1 .. Len(file.rules) /\ DOMAIN file.rules = 1 .. Len(file.rules)
        /\ Len(file.rules) \in Nat
    BY <1>2, FileRules DEF FwInv
  <1>4. r.depth \in Int /\ r.action \in Int  BY <1>2, <1>3 DEF RuleText
  <1>5. r.depth % 256 \in 0 .. 255 /\ r.action % 256 \in 0 .. 255
    <2>1. \A x \in Int : x % 256 \in 0 .. 255  OBVIOUS
    <2> QED  BY <1>4, <2>1, Zenon
  <1>6. ASSUME NEW next \in {"depth", "action"}, UNCHANGED <<rules, num_rules>>,
               lc' = [lc EXCEPT ![c].step = next, ![c].idx = n]
        PROVE  ReadAt(c)'
    <2>1. lc'[c].step = next /\ lc'[c].idx = n  BY <1>6, PortTypes DEF LcType
    <2> QED  BY <1>1, <1>2, <1>6, <2>1 DEF ReadAt
  <1>7. CASE WriteSrcIp(c)
    <2> DEFINE values == IF r.ip \in Addr THEN {r.ip} ELSE Addr
    <2>1. WriteField(c, "src_ip", values, "depth", n)  BY <1>7 DEF WriteSrcIp
    <2>2. FileValid => r.ip \in Addr /\ r.ip = Text(n).ip  BY <1>2 DEF FileValid, Text
    <2>3. \A v \in values : v \in Addr /\ (FileValid => v = Text(n).ip)  BY <2>2
    <2>4. UNCHANGED <<rules, num_rules>>  BY <2>1 DEF WriteField, Fault, fwvars
    <2>5. "depth" \in LcSteps  BY DEF LcSteps
    <2> HIDE DEF values, n
    <2>6. \A v \in values :
             /\ "src_ip" = "src_ip" => v \in Addr /\ (FileValid => v = Text(lc[c].idx).ip)
             /\ "src_ip" = "depth" => v \in 0 .. 255 /\ v = Text(lc[c].idx).depth
             /\ "src_ip" = "action" => v \in 0 .. 255 /\ v = Text(lc[c].idx).action
      BY <2>3 DEF n
    <2>7. lc' = [lc EXCEPT ![c].step = "depth", ![c].idx = n] => ReadAt(c)'
      BY <1>6, <2>4
    <2> QED  BY <2>1, <2>5, <2>6, <2>7, WriteFw, Zenon
  <1>8. CASE WriteDepth(c)
    <2> DEFINE values == {r.depth % 256}
    <2>1. WriteField(c, "depth", values, "action", n)  BY <1>8 DEF WriteDepth
    <2>2. \A v \in values : v \in 0 .. 255 /\ v = Text(n).depth  BY <1>5, Zenon DEF Text
    <2>3. UNCHANGED <<rules, num_rules>>  BY <2>1 DEF WriteField, Fault, fwvars
    <2>4. "action" \in LcSteps  BY DEF LcSteps
    <2>5. lc' = [lc EXCEPT ![c].step = "action", ![c].idx = n] => ReadAt(c)'
      BY <1>6, <2>3
    <2> HIDE DEF values, n
    <2>6. \A v \in values :
             /\ "depth" = "src_ip" => v \in Addr /\ (FileValid => v = Text(lc[c].idx).ip)
             /\ "depth" = "depth" => v \in 0 .. 255 /\ v = Text(lc[c].idx).depth
             /\ "depth" = "action" => v \in 0 .. 255 /\ v = Text(lc[c].idx).action
      BY <2>2 DEF n
    <2> QED  BY <2>1, <2>4, <2>5, <2>6, WriteFw, Zenon
  <1>9. CASE WriteAction(c)
    <2> DEFINE values == {r.action % 256}
               next == IF n = Len(file.rules) THEN "return" ELSE "alloc"
    <2>1. WriteField(c, "action", values, next, n + 1)  BY <1>9 DEF WriteAction
    <2>2. \A v \in values : v \in 0 .. 255 /\ v = Text(n).action  BY <1>5, Zenon DEF Text
    <2>3. UNCHANGED <<rules, num_rules>>  BY <2>1 DEF WriteField, Fault, fwvars
    <2>4. next \in LcSteps  BY DEF LcSteps
    <2>5. ASSUME lc' = [lc EXCEPT ![c].step = next, ![c].idx = n + 1]
          PROVE  ReadAt(c)'
      <3>1. lc'[c].step = next /\ lc'[c].idx = n + 1  BY <2>5, PortTypes DEF LcType
      <3>2. n # Len(file.rules) => n + 1 \in DOMAIN file.rules  BY <1>3
      <3> QED  BY <1>1, <1>2, <2>3, <3>1, <3>2 DEF ReadAt
    <2> HIDE DEF values, n, next
    <2>6. \A v \in values :
             /\ "action" = "src_ip" => v \in Addr /\ (FileValid => v = Text(lc[c].idx).ip)
             /\ "action" = "depth" => v \in 0 .. 255 /\ v = Text(lc[c].idx).depth
             /\ "action" = "action" => v \in 0 .. 255 /\ v = Text(lc[c].idx).action
      BY <2>2 DEF n
    <2> QED  BY <2>1, <2>4, <2>5, <2>6, WriteFw, Zenon
  <1> QED  BY <1>7, <1>8, <1>9

(* The steps of lpm_setup.                                                 *)
LEMMA LpmCreateFw ==
  ASSUME LcType, FwInv, NEW c \in Port, status = "running", LpmCreate(c)
  PROVE  FwInv'
  <1> USE DEF FwInv
  <1>1. /\ lc[c].step = "table"
        /\ lpm_tbl' \in {c, NULL}
        /\ lpm' = [lpm EXCEPT ![c] = {}]
        /\ lc' = [lc EXCEPT ![c].step = "add", ![c].idx = 1]
        /\ UNCHANGED <<status, file, rules, num_rules, array, block>>
    BY DEF LpmCreate, At, GotoIdx, outer
  <1>2. lc'[c].step = "add" /\ lc'[c].idx = 1 /\ \A d \in Port \ {c} : lc'[d] = lc[d]
    BY <1>1, PortTypes DEF LcType
  <1>3. FwType'  BY <1>1 DEF FwType
  <1>4. lpm'[c] = {} /\ \A p \in Port \ {c} : lpm'[p] = lpm[p]  BY <1>1 DEF FwType
  <1>5. ReadInv'
    <2>1. ReadAt(c)'  BY <1>1, <1>2 DEF ReadInv, ReadAt
    <2> QED  BY <1>1, <1>2, <2>1, ReadStep, Zenon
  <1>6. CellInv' /\ BlockInv'  BY <1>1, SameFile DEF CellInv, Cell, BlockInv
  <1>7. TableInv'
    <2>1. UNCHANGED file  BY <1>1
    <2>2. FileValid => \A p \in Port :
             /\ \A e \in lpm'[p] : \E n \in DOMAIN file.rules : e = Text(n)
             /\ \A e, f \in lpm'[p] : SameEntry(e, f) => e = f
      BY <1>4 DEF TableInv
    <2> QED  BY <2>1, <2>2, TableChange
  <1>8. LastInv'
    <2> SUFFICES ASSUME lpm_tbl' # NULL, NEW n \in DOMAIN file.rules
                 PROVE  Adding(c, n)'
      BY <1>1, SameFile DEF LastInv
    <2>1. 1 <= n  BY FileRules
    <2> QED  BY <1>2, <2>1 DEF Adding
  <1> QED  BY <1>3, <1>5, <1>6, <1>7, <1>8

(* Two entries for the same prefix: an equivalence.                        *)
LEMMA SameEntryEq ==
  ASSUME NEW e, NEW f, SameEntry(e, f)
  PROVE  /\ SameEntry(f, e)
         /\ \A g : SameEntry(e, g) => SameEntry(f, g)
  <1> DEFINE Q(x, d) == x \div 2^(AddrBits - d)
  <1>1. \A g, h : SameEntry(g, h) <=> g.depth = h.depth /\ Q(g.ip, g.depth) = Q(h.ip, g.depth)
    BY Zenon DEF SameEntry, SamePrefix
  <1> HIDE DEF Q
  <1> QED  BY <1>1

(* Adding a rule puts its text in the table and takes only other rules for *)
(* the same prefix out; lpm_setup still has to add the later ones.         *)
LEMMA AddRuleFw ==
  ASSUME LcType, FwInv, NEW c \in Port, status = "running", AddRule(c)
  PROVE  FwInv'
  <1> USE DEF FwInv
  <1> DEFINE n == lc[c].idx
             p == lc[c].rules
             r == block[Cell(p, n)]
             new == [ip |-> r.src_ip, depth |-> r.depth, action |-> r.action]
  <1>0. /\ lc[c].step = "add" /\ UNCHANGED file
        /\ rules \in Port /\ num_rules = Len(file.rules) /\ Len(file.rules) \in Nat
        /\ n \in Nat \ {0} /\ p \in Port \cup {NULL}
    BY FileRules, PortTypes DEF AddRule, At, outer, ReadInv, ReadAt, LcType
  <1>1. ASSUME n <= num_rules, Valid(p, n), NULL \notin {r.src_ip, r.depth, r.action}
        PROVE  /\ n \in DOMAIN file.rules
               /\ new \in TableEntry
               /\ FileValid => new = Text(n) /\ LpmDepthOk(r.depth)
    <2> DEFINE b == Cell(p, n)
    <2>1. n \in DOMAIN file.rules /\ n \in 1 .. MaxRules  BY <1>0, <1>1, FileRules
    <2>2. p \in Port /\ b # NULL  BY <1>0, <1>1 DEF Valid
    <2>3. array[p] \in ArrayRec  BY <2>2 DEF FwType
    <2>4. b \in CellValue  BY <2>1, <2>3, Zenon DEF Cell, ArrayRec
    <2>5. b \in Block /\ b[2] = n  BY <2>1, <2>2, <2>4 DEF CellValue, CellInv
    <2> HIDE DEF b
    <2>6. block[b] \in BlockRec  BY <2>5 DEF FwType
    <2>7. r = block[b]  BY DEF b
    <2> HIDE DEF r
    <2>8. r.src_ip \in Addr /\ r.depth \in 0 .. 255 /\ r.action \in 0 .. 255
      BY <1>1, <2>6, <2>7 DEF BlockRec, FieldValue
    <2>9. new \in TableEntry  BY <2>8 DEF TableEntry
    <2>10. ASSUME FileValid PROVE new = Text(n) /\ LpmDepthOk(r.depth)
      <3>1. r.src_ip = Text(n).ip /\ r.depth = Text(n).depth /\ r.action = Text(n).action
        BY <1>1, <2>1, <2>5, <2>7, <2>10 DEF BlockInv
      <3>2. new = Text(n)  BY <3>1 DEF Text
      <3> QED  BY <2>1, <2>10, <3>1, <3>2, TextType
    <2> QED  BY <2>1, <2>9, <2>10
  <1>2. CASE Fault("fault")
    BY <1>0, <1>2, OutsideFw DEF Fault
  <1>3. CASE /\ lc' = [lc EXCEPT ![c].step = "loop"] /\ UNCHANGED <<status, fwvars>>
             /\ FileValid => n > num_rules \/ lpm_tbl = NULL
    <2>1. lc'[c].step = "loop" /\ \A d \in Port \ {c} : lc'[d] = lc[d]
      BY <1>3, PortTypes DEF LcType
    <2>2. UNCHANGED <<status, rules, num_rules, array, block, lpm_tbl, lpm>>  BY <1>3 DEF fwvars
    <2>3. FwType' /\ CellInv' /\ BlockInv'
      BY <1>0, <2>2, SameFile DEF FwType, CellInv, Cell, BlockInv
    <2>4. ReadInv'
      <3>1. ReadAt(c)'  BY <1>0, <2>1, <2>2 DEF ReadAt
      <3> QED  BY <1>0, <2>1, <2>2, <3>1, ReadStep
    <2>5. TableInv'  BY <1>0, <2>2, TableStep
    <2>6. LastInv'
      <3> SUFFICES ASSUME FileValid, lpm_tbl # NULL, NEW m \in DOMAIN file.rules,
                          LastForPrefix(m)
                   PROVE  Text(m) \in lpm[lpm_tbl] \/ \E d \in Port : Adding(d, m)'
        BY <1>0, <2>2, SameFile, Zenon DEF LastInv
      <3>1. m <= num_rules /\ m \in Nat  BY <1>0, FileRules
      <3>2. ~Adding(c, m)  BY <1>0, <1>3, <3>1 DEF Adding
      <3>3. \A d \in Port : Adding(d, m) => Adding(d, m)'  BY <2>1, <3>2 DEF Adding
      <3> QED  BY <3>3 DEF LastInv
    <2> QED  BY <2>3, <2>4, <2>5, <2>6
  <1>4. CASE /\ n <= num_rules /\ Valid(p, n) /\ NULL \notin {r.src_ip, r.depth, r.action}
             /\ lpm_tbl # NULL /\ LpmDepthOk(r.depth)
             /\ lpm' = [lpm EXCEPT ![lpm_tbl] = LpmAdd(lpm[lpm_tbl], r.src_ip, r.depth, r.action)]
             /\ lc' = [lc EXCEPT ![c].step = "add", ![c].idx = n + 1]
             /\ UNCHANGED <<status, rules, num_rules, array, block, lpm_tbl>>
    <2>1. /\ lc'[c].step = "add" /\ lc'[c].idx = n + 1
          /\ \A d \in Port \ {c} : lc'[d] = lc[d]
      BY <1>4, PortTypes DEF LcType
    <2>2. /\ n \in DOMAIN file.rules /\ new \in TableEntry
          /\ FileValid => new = Text(n)
      BY <1>1, <1>4
    <2>3. LpmAdd(lpm[lpm_tbl], r.src_ip, r.depth, r.action)
            = {e \in lpm[lpm_tbl] : ~SameEntry(e, new)} \cup {new}
      BY DEF LpmAdd, SameEntry
    <2> HIDE DEF new
    <2>4. lpm_tbl \in Port /\ lpm \in [Port -> SUBSET TableEntry]  BY <1>4 DEF FwType
    <2>5. /\ lpm'[lpm_tbl] = {e \in lpm[lpm_tbl] : ~SameEntry(e, new)} \cup {new}
          /\ \A q \in Port \ {lpm_tbl} : lpm'[q] = lpm[q]
      BY <1>4, <2>3, <2>4
    <2>6. FwType'
      <3>1. lpm' \in [Port -> SUBSET TableEntry]  BY <1>4, <2>2, <2>3, <2>4
      <3>2. UNCHANGED <<file, rules, num_rules, array, block, lpm_tbl>>  BY <1>0, <1>4
      <3> QED  BY <3>1, <3>2 DEF FwType
    <2>7. ReadInv'
      <3>1. ReadAt(c)'  BY <1>0, <1>4, <2>1 DEF ReadAt
      <3> QED  BY <1>0, <1>4, <2>1, <3>1, ReadStep, Zenon
    <2>8. CellInv' /\ BlockInv'
      <3>1. UNCHANGED <<file, array, block>>  BY <1>0, <1>4
      <3> QED  BY <3>1, SameFile DEF CellInv, Cell, BlockInv
    <2>9. TableInv'
      <3> SUFFICES ASSUME FileValid, NEW q \in Port
                   PROVE  /\ \A e \in lpm'[q] : \E k \in DOMAIN file.rules : e = Text(k)
                          /\ \A e, f \in lpm'[q] : SameEntry(e, f) => e = f
        BY <1>0, TableChange
      <3>1. CASE q # lpm_tbl  BY <2>5, <3>1 DEF TableInv
      <3>2. CASE q = lpm_tbl
        <4>1. \A e \in lpm'[q] : e # new => e \in lpm[q] /\ ~SameEntry(e, new)
          <5>1. lpm'[q] = {e \in lpm[q] : ~SameEntry(e, new)} \cup {new}  BY <2>5, <3>2
          <5> SUFFICES ASSUME NEW e \in lpm'[q], e # new
                       PROVE  e \in lpm[q] /\ ~SameEntry(e, new)
            OBVIOUS
          <5>2. e \in {f \in lpm[q] : ~SameEntry(f, new)}  BY <5>1
          <5> QED  BY <5>2
        <4>2. \A e \in lpm'[q] : \E k \in DOMAIN file.rules : e = Text(k)
          BY <2>2, <4>1 DEF TableInv
        <4>3. \A e, f \in lpm'[q] : SameEntry(e, f) => e = f
          BY <4>1, SameEntryEq DEF TableInv
        <4> QED  BY <4>2, <4>3
      <3> QED  BY <3>1, <3>2
    <2>10. LastInv'
      <3> SUFFICES ASSUME FileValid, NEW m \in DOMAIN file.rules, LastForPrefix(m)
                   PROVE  Text(m) \in lpm'[lpm_tbl] \/ \E d \in Port : Adding(d, m)'
        BY <1>0, <1>4, SameFile, Zenon DEF LastInv
      <3>0. n \in Nat /\ m \in Nat /\ new = Text(n)  BY <1>0, <2>2, FileRules
      <3>1. CASE m = n  BY <2>5, <3>0, <3>1
      <3>2. CASE n < m
        <4>1. Adding(c, m)'  BY <2>1, <3>0, <3>2 DEF Adding
        <4> QED  BY <4>1
      <3>3. CASE m < n
        <4>1. ~SameEntry(Text(n), Text(m))  BY <2>2, <3>3 DEF LastForPrefix
        <4>2. ~SameEntry(Text(m), new)  BY <3>0, <4>1, SameEntryEq
        <4>3. ~Adding(c, m)  BY <3>0, <3>3 DEF Adding
        <4>4. \A d \in Port : Adding(d, m) => Adding(d, m)'  BY <2>1, <4>3 DEF Adding
        <4>5. Text(m) \in lpm[lpm_tbl] \/ \E d \in Port : Adding(d, m)
          BY <1>4 DEF LastInv
        <4> QED  BY <2>5, <4>2, <4>4, <4>5
      <3> QED  BY <3>0, <3>1, <3>2, <3>3
    <2> QED  BY <2>6, <2>7, <2>8, <2>9, <2>10
  <1> QED  BY <1>0, <1>1, <1>2, <1>3, <1>4 DEF AddRule, Goto, GotoIdx

(* The steps of lpm_teardown.                                              *)
LEMMA FreeFw ==
  ASSUME LcType, FwInv, NEW c \in Port, status = "running", FreeRule(c) \/ FreeArray(c)
  PROVE  FwInv'
  <1> USE DEF FwInv
  <1> DEFINE n == lc[c].idx
             p == lc[c].rules
             b == Cell(p, n)
  <1>0. /\ lc[c].step \in {"free", "free_array"} /\ UNCHANGED file
        /\ rules \in Port /\ num_rules = Len(file.rules) /\ Len(file.rules) \in Nat
        /\ n \in Nat \ {0} /\ p \in Port
    BY FileRules, PortTypes DEF FreeRule, FreeArray, At, outer, ReadInv, ReadAt, LcType
  <1>1. CASE Fault("fault") \/ Fault("double_free")
    BY <1>0, <1>1, OutsideFw DEF Fault
  <1>2. CASE lc' = [lc EXCEPT ![c].step = "free_array"] /\ UNCHANGED <<status, fwvars>>
    <2>1. lc'[c].step = "free_array" /\ \A d \in Port \ {c} : lc'[d] = lc[d]
      BY <1>2, PortTypes DEF LcType
    <2> QED  BY <1>0, <1>2, <2>1, OutsideFw
  <1>3. CASE /\ n <= num_rules /\ b # NULL
             /\ block' = [block EXCEPT ![b].state = "freed"]
             /\ lc' = [lc EXCEPT ![c].step = "free", ![c].idx = n + 1]
             /\ UNCHANGED <<status, rules, num_rules, array, lpm_tbl, lpm>>
    <2>1. /\ lc'[c].step = "free" /\ lc'[c].rules = p
          /\ \A d \in Port \ {c} : lc'[d] = lc[d]
      BY <1>3, PortTypes DEF LcType
    <2>2. b \in Block
      <3>1. n \in 1 .. MaxRules  BY <1>0, <1>3, FileRules
      <3>2. array[p] \in ArrayRec  BY <1>0 DEF FwType
      <3>3. b \in CellValue  BY <3>1, <3>2, Zenon DEF Cell, ArrayRec
      <3> QED  BY <1>3, <3>3 DEF CellValue
    <2> HIDE DEF b
    <2>3. block' = StateTo(b, "freed") /\ "freed" \in HeapState
      BY <1>3 DEF StateTo, HeapState
    <2>4. /\ block' \in [Block -> BlockRec]
          /\ \A d \in Block : /\ block'[d].src_ip = block[d].src_ip
                              /\ block'[d].depth = block[d].depth
                              /\ block'[d].action = block[d].action
      BY <2>2, <2>3, StateWrite
    <2>5. UNCHANGED <<file, rules, num_rules, array, lpm_tbl, lpm>>  BY <1>0, <1>3
    <2>6. FwType' /\ CellInv'  BY <2>4, <2>5 DEF FwType, CellInv, Cell
    <2>7. ReadInv'
      <3>1. ReadAt(c)'  BY <1>0, <2>1, <2>5 DEF ReadAt
      <3> QED  BY <2>1, <2>5, <3>1, ReadStep
    <2>8. BlockInv'
      <3> SUFFICES ASSUME FileValid, NEW a \in Block, a[2] \in DOMAIN file.rules
                   PROVE  /\ block'[a].src_ip # NULL => block'[a].src_ip = Text(a[2]).ip
                          /\ block'[a].depth # NULL => block'[a].depth = Text(a[2]).depth
                          /\ block'[a].action # NULL => block'[a].action = Text(a[2]).action
        BY <2>5, SameFile, Zenon DEF BlockInv
      <3> QED  BY <2>4 DEF BlockInv
    <2>9. TableInv' /\ LastInv'  BY <1>0, <1>3, <2>1, <2>5, TableStep, LastStep, Zenon
    <2> QED  BY <2>6, <2>7, <2>8, <2>9
  <1>4. CASE /\ array' = [array EXCEPT ![p].state = "freed"]
             /\ lc' = [lc EXCEPT ![c].step = "exited"]
             /\ UNCHANGED <<status, rules, num_rules, block, lpm_tbl, lpm>>
    <2>1. lc'[c].step = "exited" /\ \A d \in Port \ {c} : lc'[d] = lc[d]
      BY <1>4, PortTypes DEF LcType
    <2>2. UNCHANGED <<file, rules, num_rules, block, lpm_tbl, lpm>>  BY <1>0, <1>4
    <2>3. /\ array' \in [Port -> ArrayRec]
          /\ \A q \in Port : array'[q].cell = array[q].cell
      BY <1>0, <1>4 DEF FwType, ArrayRec, HeapState
    <2>4. FwType' /\ CellInv'  BY <2>2, <2>3 DEF FwType, CellInv, Cell
    <2>5. ReadInv'
      <3>1. ReadAt(c)'  BY <1>0, <2>1, <2>2 DEF ReadAt
      <3> QED  BY <2>1, <2>2, <3>1, ReadStep
    <2>6. BlockInv'  BY <2>2, SameFile, Zenon DEF BlockInv
    <2>7. TableInv' /\ LastInv'  BY <1>0, <1>4, <2>1, <2>2, TableStep, LastStep
    <2> QED  BY <2>4, <2>5, <2>6, <2>7
  <1> QED  BY <1>0, <1>1, <1>2, <1>3, <1>4 DEF FreeRule, FreeArray, Goto, GotoIdx

(* Every step keeps both parts of the invariant.                           *)
LEMMA CoprocFw ==
  ASSUME LcType, FwInv, NEW c \in Port, CoprocStep(c)
  PROVE  FwInv'
  <1>0. status = "running"  BY DEF CoprocStep
  <1>1. CASE SetupRules(c)  BY <1>0, <1>1, SetupRulesFw
  <1>2. CASE AllocRule(c)  BY <1>0, <1>2, AllocRuleFw
  <1>3. CASE WriteSrcIp(c) \/ WriteDepth(c) \/ WriteAction(c)  BY <1>0, <1>3, WritesFw
  <1>4. CASE ReturnRules(c)
    <2>1. /\ lc'[c].step = "table" /\ \A d \in Port \ {c} : lc'[d] = lc[d]
          /\ UNCHANGED <<status, file, fwvars>> /\ lc[c].step = "return"
      BY <1>4, PortTypes DEF ReturnRules, LcType, At, outer
    <2> QED  BY <2>1, OutsideFw
  <1>5. CASE LpmCreate(c)  BY <1>0, <1>5, LpmCreateFw
  <1>6. CASE AddRule(c)  BY <1>0, <1>6, AddRuleFw
  <1>7. CASE StopCoproc(c)
    <2>1. /\ lc'[c].step = "free" /\ lc'[c].rules = rules
          /\ \A d \in Port \ {c} : lc'[d] = lc[d]
          /\ UNCHANGED <<status, file, fwvars>> /\ lc[c].step = "loop"
      BY <1>7, PortTypes DEF StopCoproc, LcType, At, outer
    <2>2. rules \in Port  BY <2>1 DEF FwInv, ReadInv, ReadAt
    <2> QED  BY <2>1, <2>2, OutsideFw
  <1>8. CASE FreeRule(c) \/ FreeArray(c)  BY <1>0, <1>8, FreeFw
  <1> QED  BY <1>1, <1>2, <1>3, <1>4, <1>5, <1>6, <1>7, <1>8 DEF CoprocStep

(* main, the Rx lcore and the signal handler leave the firewall alone.     *)
LEMMA NextInv ==
  ASSUME IInv, [Next]_vars
  PROVE  IInv'
  <1> USE DEF IInv
  <1>0. LcType /\ rules \in Port \cup {NULL}  BY DEF PortInv, FwInv, FwType
  <1>1. CASE MainStep
    <2>1. PortInv'  BY <1>1, MainPort
    <2>2. CASE Launch
      <3>1. \A c \in Port : \/ lc'[c] = lc[c]
                            \/ lc'[c].step = "rules" /\ lc'[c].idx = lc[c].idx
        BY <1>0, <2>2, PortTypes DEF Launch, FirstStep, LcType
      <3>2. \A c \in Port : lc[c].step = "idle"  BY <2>2, PortTypes DEF Launch, PortInv
      <3>3. UNCHANGED <<status, file, fwvars>>  BY <2>2 DEF Launch
      <3> QED  BY <2>1, <3>1, <3>2, <3>3, OutsideFw
    <2>3. CASE ~Launch
      <3>1. UNCHANGED <<lc, file, fwvars>> /\ (status' = "running" => status = "running")
        BY <1>1, <2>3 DEF MainStep, EalInit, InitPools, MainCall, read_config, kni_alloc, KniDone,
           CheckLcores, WaitLcores, kni_free_kni
      <3> QED  BY <2>1, <3>1, OutsideFw
    <2> QED  BY <2>2, <2>3
  <1>2. ASSUME NEW c \in Port, CoprocStep(c) PROVE IInv'
    <2>1. FwInv'  BY <1>0, <1>2, CoprocFw
    <2>2. (Moves(c) \/ UNCHANGED lc) /\ UNCHANGED <<main, lcores, kni_list>>
      BY <1>0, <1>2, CoprocMoves
    <2> QED  BY <2>1, <2>2, PortTypes, MovesPort
  <1>3. ASSUME NEW c \in Port, NEW a \in Sources, status = "running", Coprocess(c, a) PROVE IInv'
    <2>1. UNCHANGED <<lc, fwvars, main, file, lcores, kni_list>>
      BY <1>3 DEF Coprocess, Fault, outer
    <2>2. PortInv'  BY <2>1, PortTypes, MovesPort
    <2> QED  BY <1>3, <2>1, <2>2, OutsideFw
  <1>4. CASE RxStep
    <2>1. /\ lc[RxLcore].step = "loop" /\ status = "running"
          /\ lc' = [lc EXCEPT ![RxLcore].step = "exited"]
          /\ UNCHANGED <<main, file, lcores, kni_list, fwvars>>
      BY <1>4 DEF RxStep, StopRx, Goto, outer
    <2>2. \A c \in Port : lc'[c] = lc[c]  BY <1>0, <2>1, PortTypes DEF LcType
    <2>3. FwInv'  BY <2>1, <2>2, OutsideFw
    <2>4. [lc[RxLcore] EXCEPT !.step = "exited"]
             \in [step : LcSteps \ {"idle"}, idx : Nat \ {0}, rules : Port \cup {NULL}]
      BY <1>0, PortTypes DEF LcType, LcSteps
    <2>5. Moves(RxLcore)  BY <2>1, <2>4, Zenon DEF Moves
    <2> QED  BY <2>1, <2>3, <2>5, PortTypes, MovesPort
  <1>5. CASE status = "running" /\ signal_handler
    <2>1. UNCHANGED <<lc, status, fwvars, main, file, lcores, kni_list>>
      BY <1>5 DEF signal_handler
    <2>2. PortInv'  BY <2>1, PortTypes, MovesPort
    <2> QED  BY <2>1, <2>2, OutsideFw
  <1>6. CASE UNCHANGED vars
    <2>1. UNCHANGED <<lc, status, fwvars, main, file, lcores, kni_list>>  BY <1>6 DEF vars
    <2>2. PortInv'  BY <2>1, PortTypes, MovesPort
    <2> QED  BY <2>1, <2>2, OutsideFw
  <1> QED  BY <1>1, <1>2, <1>3, <1>4, <1>5, <1>6 DEF Next

(* Spec keeps the invariant.                                               *)
LEMMA Invariance == Spec => []IInv
  <1>1. Init => IInv  BY InitPort, InitFw DEF IInv
  <1>2. IInv /\ [Next]_vars => IInv'  BY NextInv
  <1> QED  BY <1>1, <1>2, PTL DEF Spec

-----------------------------------------------------------------------------
(* What follows from it.                                                   *)

(* The choice of rte_lpm_lookup exists when some entry matches: a match of *)
(* the greatest depth.                                                     *)
LEMMA LookupFound ==
  ASSUME NEW t, t \subseteq TableEntry, NEW a, LpmMatches(t, a) # {}
  PROVE  /\ LpmLookup(t, a) \in LpmMatches(t, a)
         /\ \A f \in LpmMatches(t, a) : f.depth <= LpmLookup(t, a).depth
  <1> DEFINE M == LpmMatches(t, a)
             D == {e.depth : e \in M}
  <1>1. \A e \in M : e.depth \in 0 .. 255  BY DEF LpmMatches, TableEntry
  <1>2. D # {} /\ D \subseteq 0 .. 255
    <2>1. PICK e \in M : TRUE  OBVIOUS
    <2>2. e.depth \in D  BY <2>1
    <2> QED  BY <1>1, <2>2
  <1> HIDE DEF D
  <1>3. Max(D) \in D /\ \A y \in D : y <= Max(D)
    <2>1. 255 \in Nat  OBVIOUS
    <2> QED  BY <1>2, <2>1, GreatestNat, Zenon
  <1>4. PICK e \in M : e.depth = Max(D)  BY <1>3, Zenon DEF D
  <1>5. \A f \in M : f.depth \in D  BY DEF D
  <1>6. \A f \in M : f.depth <= e.depth  BY <1>3, <1>4, <1>5
  <1> HIDE DEF M
  <1>7. \E g \in M : \A f \in M : f.depth <= g.depth  BY <1>6
  <1>8. LpmLookup(t, a) = CHOOSE g \in M : \A f \in M : f.depth <= g.depth
    BY DEF LpmLookup, M
  <1>9. LpmLookup(t, a) \in M /\ \A f \in M : f.depth <= LpmLookup(t, a).depth
    BY <1>7, <1>8
  <1> QED  BY <1>9 DEF M

(* A rule of the file covers an address when its text matches it.          *)
LEMMA CoveringText ==
  ASSUME NEW n \in DOMAIN file.rules, NEW a
  PROVE  n \in Covering(a) <=> SamePrefix(Text(n).ip, a, Text(n).depth)
  <1>1. Text(n).ip = file.rules[n].ip /\ Text(n).depth = file.rules[n].depth % 256
    BY DEF Text
  <1> QED  BY <1>1 DEF Covering

(* Lcores run only while main waits for them, with every port allocated.   *)
LEMMA IInvPorts ==
  ASSUME IInv
  PROVE  PortsWhileRunning
  BY DEF IInv, PortInv, PortsWhileRunning, MainSteps

(* The entry that drops is a rule of the file, and matches the address.    *)
LEMMA IInvDrops ==
  ASSUME IInv
  PROVE  DropsOnlyByRule
  <1> SUFFICES ASSUME status = "running", FileValid, lpm_tbl # NULL, NEW a \in Addr,
                      fw_packet_handler(lpm[lpm_tbl], a) = "FW_DROP"
               PROVE  \E n \in Covering(a) : file.rules[n].action % 256 # 0
    BY DEF DropsOnlyByRule
  <1> DEFINE t == lpm[lpm_tbl]
             e == LpmLookup(t, a)
  <1>1. lpm_tbl \in Port /\ t \subseteq TableEntry  BY DEF IInv, FwInv, FwType
  <1>2. LpmMatches(t, a) # {} /\ e.action # 0  BY DEF fw_packet_handler
  <1>3. e \in LpmMatches(t, a)  BY <1>1, <1>2, LookupFound
  <1>4. e \in t /\ SamePrefix(e.ip, a, e.depth)  BY <1>3 DEF LpmMatches
  <1>5. PICK n \in DOMAIN file.rules : e = Text(n)
    BY <1>1, <1>4 DEF IInv, FwInv, TableInv
  <1>6. n \in Covering(a)  BY <1>4, <1>5, CoveringText
  <1>7. file.rules[n].action % 256 # 0  BY <1>2, <1>5 DEF Text
  <1> QED  BY <1>6, <1>7

(* Addresses with the same prefix: an equivalence.                         *)
LEMMA SamePrefixEq ==
  ASSUME NEW x, NEW y, NEW z, NEW d, SamePrefix(x, y, d)
  PROVE  SamePrefix(y, x, d) /\ (SamePrefix(y, z, d) => SamePrefix(x, z, d))
  <1> DEFINE Q(v) == v \div 2^(AddrBits - d)
  <1>1. \A v, w : SamePrefix(v, w, d) <=> Q(v) = Q(w)  BY Zenon DEF SamePrefix
  <1> HIDE DEF Q
  <1> QED  BY <1>1

(* Nobody adds any more, so the last of the longest rules that cover the   *)
(* address is in the table; the lookup can choose no other entry.          *)
LEMMA IInvTable ==
  ASSUME IInv
  PROVE  TableComplete
  <1> SUFFICES ASSUME status = "running", FileValid, lpm_tbl # NULL, \A c \in Port : SetUp(c),
                      NEW a \in Addr
               PROVE  fw_packet_handler(lpm[lpm_tbl], a) = FileVerdict(a)
    BY DEF TableComplete
  <1> DEFINE t == lpm[lpm_tbl]
             M == LpmMatches(t, a)
             e == LpmLookup(t, a)
             C == Covering(a)
             Depth(n) == Text(n).depth
             longest == {n \in C : \A m \in C : Depth(m) <= Depth(n)}
  <1>0. FwType /\ TableInv /\ LastInv  BY DEF IInv, FwInv
  <1>1. lpm_tbl \in Port /\ t \subseteq TableEntry  BY <1>0 DEF FwType
  <1>2. \A n \in DOMAIN file.rules : LastForPrefix(n) => Text(n) \in t
    BY <1>0 DEF LastInv, Adding, SetUp
  <1>3. \A f \in M : /\ f \in t /\ SamePrefix(f.ip, a, f.depth)
                     /\ \E n \in C : f = Text(n)
    <2> SUFFICES ASSUME NEW f \in M
                 PROVE  f \in t /\ SamePrefix(f.ip, a, f.depth) /\ \E n \in C : f = Text(n)
      OBVIOUS
    <2>1. f \in t /\ SamePrefix(f.ip, a, f.depth)  BY DEF LpmMatches
    <2>2. PICK n \in DOMAIN file.rules : f = Text(n)  BY <1>0, <1>1, <2>1 DEF TableInv
    <2>3. n \in C  BY <2>1, <2>2, CoveringText
    <2> QED  BY <2>1, <2>2, <2>3
  <1>4. \A n \in C : n \in DOMAIN file.rules /\ Depth(n) \in 0 .. 255
    <2> SUFFICES ASSUME NEW n \in C PROVE n \in DOMAIN file.rules /\ Depth(n) \in 0 .. 255
      OBVIOUS
    <2>1. n \in DOMAIN file.rules  BY DEF Covering
    <2>2. Text(n) \in TableEntry  BY <1>0, <2>1, TextType
    <2> QED  BY <2>1, <2>2 DEF TableEntry
  <1>5. FileVerdict(a) = IF C = {} THEN "FW_FORWARD"
                         ELSE IF Text(Max(longest)).action = 0 THEN "FW_FORWARD" ELSE "FW_DROP"
    <2>1. \A n : Depth(n) = file.rules[n].depth % 256 /\ Text(n).action = file.rules[n].action % 256
      BY DEF Text
    <2>2. longest = {n \in C : \A m \in C :
                        file.rules[m].depth % 256 <= file.rules[n].depth % 256}
      BY <2>1
    <2> HIDE DEF longest
    <2> QED  BY <2>1, <2>2, Zenon DEF FileVerdict
  <1>6. fw_packet_handler(t, a) = IF M = {} THEN "FW_FORWARD"
                                  ELSE IF e.action = 0 THEN "FW_FORWARD" ELSE "FW_DROP"
    BY DEF fw_packet_handler
  <1>7. CASE C = {}  BY <1>3, <1>5, <1>6, <1>7
  <1>8. CASE C # {}
    <2> DEFINE N == Max(longest)
    <2>1. N \in longest /\ \A n \in longest : n <= N
      <3> DEFINE D == {Depth(n) : n \in C}
      <3>1. D # {} /\ D \subseteq 0 .. 255
        <4>1. PICK n \in C : TRUE  BY <1>8
        <4>2. Depth(n) \in D  BY <4>1
        <4> QED  BY <1>4, <4>2
      <3>2. Max(D) \in D /\ \A y \in D : y <= Max(D)
        <4> HIDE DEF D
        <4>1. 255 \in Nat  OBVIOUS
        <4> QED  BY <3>1, <4>1, GreatestNat, Zenon
      <3>3. PICK n \in C : Depth(n) = Max(D)  BY <3>2, Zenon
      <3>4. \A m \in C : Depth(m) \in D  OBVIOUS
      <3>5. n \in longest  BY <3>2, <3>3, <3>4
      <3>6. longest \subseteq 0 .. Len(file.rules) /\ Len(file.rules) \in Nat
        BY <1>0, <1>4, FileRules
      <3> HIDE DEF longest
      <3> QED  BY <3>5, <3>6, GreatestNat, Zenon
    <2>2. N \in C /\ \A m \in C : Depth(m) <= Depth(N)  BY <2>1
    <2>3. \A m \in C : Depth(m) = Depth(N) => m <= N
      <3> SUFFICES ASSUME NEW m \in C, Depth(m) = Depth(N) PROVE m <= N  OBVIOUS
      <3>1. m \in longest  BY <2>2
      <3> QED  BY <2>1, <3>1
    <2> HIDE DEF N, longest
    <2>4. N \in DOMAIN file.rules /\ SamePrefix(Text(N).ip, a, Depth(N))
      BY <1>4, <2>2, CoveringText
    <2>5. LastForPrefix(N)
      <3> SUFFICES ASSUME NEW k \in DOMAIN file.rules, k > N, SameEntry(Text(k), Text(N))
                   PROVE  FALSE
        BY DEF LastForPrefix
      <3>1. Depth(k) = Depth(N) /\ SamePrefix(Text(k).ip, Text(N).ip, Depth(k))
        BY DEF SameEntry
      <3>2. SamePrefix(Text(k).ip, a, Depth(k))  BY <2>4, <3>1, SamePrefixEq
      <3>3. k \in C  BY <3>2, CoveringText
      <3>4. k <= N  BY <2>3, <3>1, <3>3
      <3>5. k \in Nat /\ N \in Nat  BY <1>0, <2>4, FileRules
      <3> QED  BY <3>4, <3>5
    <2>6. Text(N) \in M  BY <1>2, <2>4, <2>5 DEF LpmMatches
    <2>7. e \in M /\ Depth(N) <= e.depth  BY <1>1, <2>6, LookupFound
    <2>8. PICK m \in C : e = Text(m)  BY <1>3, <2>7
    <2>9. e.depth = Depth(N)
      <3>1. Depth(m) <= Depth(N) /\ Depth(N) <= Depth(m)  BY <2>2, <2>7, <2>8
      <3>2. Depth(m) \in Nat /\ Depth(N) \in Nat  BY <1>4, <2>2
      <3> HIDE DEF Depth
      <3>3. Depth(m) = Depth(N)  BY <3>1, <3>2
      <3> QED  BY <2>8, <3>3 DEF Depth
    <2>10. SameEntry(e, Text(N))
      <3>1. SamePrefix(e.ip, a, e.depth) /\ SamePrefix(a, Text(N).ip, e.depth)
        BY <1>3, <2>4, <2>7, <2>9, SamePrefixEq
      <3>2. SamePrefix(e.ip, Text(N).ip, e.depth)  BY <3>1, SamePrefixEq
      <3> QED  BY <2>9, <3>2 DEF SameEntry
    <2>11. e = Text(N)  BY <1>0, <1>1, <1>3, <2>6, <2>7, <2>10 DEF TableInv
    <2> QED  BY <1>5, <1>6, <1>8, <2>6, <2>11 DEF N
  <1> QED  BY <1>7, <1>8

(* Ports: no lcore is inside main_loop without all virtual ports, for      *)
(* every number of ports and every outcome of the calls of main.           *)
THEOREM PortsThroughout == Spec => []PortsWhileRunning
  BY Invariance, IInvPorts, PTL

(* Drops: whatever the lcores do to the globals, the table drops only what *)
(* some rule of a valid file rejects.                                      *)
THEOREM DropsAsTheFileSays == Spec => []DropsOnlyByRule
  BY Invariance, IInvDrops, PTL

(* The table: when the coprocessors are set up, it decides every address   *)
(* as the file does: the longest prefix, the last rule for it.             *)
THEOREM TableIsTheFile == Spec => []TableComplete
  BY Invariance, IInvTable, PTL

=============================================================================
