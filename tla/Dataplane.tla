----------------------------- MODULE Dataplane -----------------------------
(***************************************************************************)
(* The packet pipeline of the engine (engine/switch.c): containers send    *)
(* and receive packets through KNI virtual ports; one Rx lcore runs the    *)
(* fast path; one coprocessor lcore per virtual port runs the network      *)
(* function.  A packet for virtual port c travels                          *)
(*                                                                         *)
(*   kni_rx -> pkts_burst(Rx) -> nf_rx -> rx_q -> pkts_burst(c) -> nf_tx   *)
(*          -> tx_q -> pkts_burst(Rx) -> tx -> kni_tx                      *)
(*                                                                         *)
(* where nf_rx, nf_tx and tx are the packet_buf arrays in which a thread   *)
(* gathers a batch, and rx_q and tx_q are the rings of coprocessor c.      *)
(* Every place that can hold packet descriptors is a component of the one  *)
(* variable q, so that moving a descriptor is one update of q.             *)
(*                                                                         *)
(* Each loop iteration that touches one packet, one port or one            *)
(* coprocessor is a step, so the threads interleave between them.  The     *)
(* packet counters (kni_stats, nf_stats) are not part of this module.      *)
(***************************************************************************)
EXTENDS Naturals, Sequences, Functions

CONSTANTS
    KNI_KTHREAD,    \* number of virtual ports, and of coprocessors
    PKT_BURST_SZ,   \* entries of a packet_buf and of a burst
    RingCap,        \* usable entries of a ring (NF_QUEUE_RINGSIZE - 1)
    KniFifo,        \* entries of a KNI fifo
    Mbuf,           \* the descriptors of pktmbuf_pool
    Hdr,            \* the packet headers containers may send
    NoHdr,          \* the header of a descriptor that is in the pool
    DISABLE_NF      \* the compile-time switch of coprocessor.h

UNKNOWN_PORT == 65535

Port == 0 .. KNI_KTHREAD - 1

(* Lcore c in Port runs coprocessor c, lcore KNI_KTHREAD runs the Rx loop. *)
RxLcore == KNI_KTHREAD

ASSUME SizeAssumption ==
    /\ KNI_KTHREAD \in Nat \ {0}
    /\ KNI_KTHREAD < UNKNOWN_PORT
    /\ PKT_BURST_SZ \in Nat \ {0}
    /\ RingCap \in Nat
    /\ KniFifo \in Nat

ASSUME HdrAssumption ==
    /\ NoHdr \notin Hdr
    /\ DISABLE_NF \in BOOLEAN
    /\ \A h \in Hdr : /\ h.ipv4 \in BOOLEAN
                      /\ h.accept \in BOOLEAN
                      /\ h.dst \in Nat

(***************************************************************************)
(* Routing.  A header has ipv4 (the ether type is IPv4), dst (the low 16   *)
(* bits of the destination address) and accept (what process_packet        *)
(* decides about the packet).                                              *)
(***************************************************************************)

(* The low 16 bits of 192.167.10.(i + 1), the address of virtual port i.   *)
KniIp(i) == 10 * 256 + i + 1

(* read_config gives the first KNI_KTHREAD entries the value UINT16_MAX,   *)
(* then writes one entry per virtual port; tx_mgr is a global, so every    *)
(* other entry keeps its initial 0.                                        *)
routing_table(d) ==
    IF \E i \in Port : d = KniIp(i) THEN d - KniIp(0)
    ELSE IF d < KNI_KTHREAD THEN UNKNOWN_PORT ELSE 0

get_next_hop(h) == IF h.ipv4 THEN routing_table(h.dst) ELSE UNKNOWN_PORT

(***************************************************************************)
(* State.                                                                  *)
(***************************************************************************)
VARIABLES
    q,          \* the sequence of descriptors at each place
    hdr,        \* the header of each descriptor, NoHdr when it is free
    rx,         \* where the Rx lcore is: step, port index, flush_all round
    cp,         \* where each coprocessor lcore is
    kni_stop,   \* set by the signal handler
    released    \* kni_free_kni has released the virtual ports

vars == <<q, hdr, rx, cp, kni_stop, released>>

Place == ({"kni_rx", "nf_rx", "rx_q", "nf_tx", "tx_q", "tx", "kni_tx"} \X Port)
            \cup ({"pkts_burst"} \X (Port \cup {RxLcore}))

kni_rx(k) == <<"kni_rx", k>>
nf_rx(c)  == <<"nf_rx", c>>
rx_q(c)   == <<"rx_q", c>>
nf_tx(c)  == <<"nf_tx", c>>
tx_q(c)   == <<"tx_q", c>>
tx(k)     == <<"tx", k>>
kni_tx(k) == <<"kni_tx", k>>
burst(l)  == <<"pkts_burst", l>>

RxSteps == {"loop", "kni", "route", "flush_port", "flush_nf", "coproc",
            "forward", "exited"}
CpSteps == {"loop", "process", "exited"}

(* Buffers are empty after init; with DISABLE_NF a coprocessor lcore       *)
(* returns from main_loop at once.                                         *)
Init ==
    /\ q = [p \in Place |-> << >>]
    /\ hdr = [m \in Mbuf |-> NoHdr]
    /\ rx = [step |-> "loop", idx |-> 0, round |-> 1]
    /\ cp = [c \in Port |-> IF DISABLE_NF THEN "exited" ELSE "loop"]
    /\ kni_stop = FALSE
    /\ released = FALSE

(***************************************************************************)
(* Moving descriptors.  The operators take the places s and return the     *)
(* places after the move; the descriptors a flush could not hand on are    *)
(* the ones it frees.                                                      *)
(***************************************************************************)
Least(a, b) == IF a <= b THEN a ELSE b

Take(s, n) == SubSeq(s, 1, n)
Skip(s, n) == SubSeq(s, n + 1, Len(s))

(* The first n descriptors of place a move to the end of place b.          *)
Shift(s, a, b, n) ==
    [s EXCEPT ![a] = Skip(s[a], n), ![b] = s[b] \o Take(s[a], n)]

(* The first n descriptors of place a are taken out.                       *)
Cut(s, a, n) == [s EXCEPT ![a] = Skip(s[a], n)]

(* A burst receive: at most PKT_BURST_SZ descriptors move from place a to  *)
(* the (empty) array at place b.                                           *)
RecvBurst(s, a, b) == Shift(s, a, b, Least(Len(s[a]), PKT_BURST_SZ))

(* buffer[count++] = pkt, for the first packet of place a.                 *)
MoveHead(s, a, b) == Shift(s, a, b, 1)

(* rte_ring_enqueue_bulk hands over the whole batch or nothing; in the     *)
(* second case the batch is freed.                                         *)
BulkFits(s, buf, ring) == Len(s[ring]) + Len(s[buf]) <= RingCap

(* Mutation of FlushRing: count is not reset after a successful enqueue. *)
FlushRingKeeps(s, buf, ring) ==
    IF BulkFits(s, buf, ring) THEN [s EXCEPT ![ring] = @ \o s[buf]]
                              ELSE Cut(s, buf, Len(s[buf]))

FlushRing(s, buf, ring) ==
    IF BulkFits(s, buf, ring) THEN Shift(s, buf, ring, Len(s[buf]))
                              ELSE Cut(s, buf, Len(s[buf]))

(* Mutation of FreedByRing: the batch the ring refuses is not freed. *)
FreedByRingNever(s, buf, ring) == {}

FreedByRing(s, buf, ring) ==
    IF BulkFits(s, buf, ring) THEN {} ELSE Range(s[buf])

(* rte_kni_tx_burst sends as many packets as the kernel's fifo has room    *)
(* for; flush_port_queue frees the others.                                 *)
KniSent(s, k) == Least(Len(s[tx(k)]), KniFifo - Len(s[kni_tx(k)]))

FlushKni(s, k) ==
    Cut(Shift(s, tx(k), kni_tx(k), KniSent(s, k)),
        tx(k), Len(s[tx(k)]) - KniSent(s, k))

FreedByKni(s, k) == Range(Skip(s[tx(k)], KniSent(s, k)))

Free(S) == [m \in Mbuf |-> IF m \in S THEN NoHdr ELSE hdr[m]]

flush_port_queue(s, k) ==
    /\ q' = FlushKni(s, k)
    /\ hdr' = Free(FreedByKni(s, k))

flush_nf_rx_queue(s, c) ==
    /\ q' = FlushRing(s, nf_rx(c), rx_q(c))
    /\ hdr' = Free(FreedByRing(s, nf_rx(c), rx_q(c)))

flush_nf_tx_queue(s, c) ==
    /\ q' = FlushRing(s, nf_tx(c), tx_q(c))
    /\ hdr' = Free(FreedByRing(s, nf_tx(c), tx_q(c)))

(* The enqueue operations take the first packet of the burst of lcore l.   *)
(* An index that is no port makes them return at once: the packet leaves   *)
(* the burst, enters no buffer and is not freed.                           *)
Forget(l) ==
    /\ q' = Cut(q, burst(l), 1)
    /\ UNCHANGED hdr

(* Mutation of enqueue_port: the packet is stored at the front of tx. *)
enqueue_port_front(l, k) ==
    IF k \notin Port THEN Forget(l)
    ELSE LET s == [Cut(q, burst(l), 1) EXCEPT ![tx(k)] = <<Head(q[burst(l)])>> \o @]
         IN  IF Len(s[tx(k)]) = PKT_BURST_SZ
             THEN flush_port_queue(s, k)
             ELSE q' = s /\ UNCHANGED hdr

enqueue_port(l, k) ==
    IF k \notin Port THEN Forget(l)
    ELSE LET s == MoveHead(q, burst(l), tx(k))
         IN  IF Len(s[tx(k)]) = PKT_BURST_SZ
             THEN flush_port_queue(s, k)
             ELSE q' = s /\ UNCHANGED hdr

(* Mutation of enqueue_nf_rx: the batch is flushed one packet too late. *)
enqueue_nf_rx_late(l, c) ==
    IF c \notin Port THEN Forget(l)
    ELSE LET s == MoveHead(q, burst(l), nf_rx(c))
         IN  IF Len(s[nf_rx(c)]) > PKT_BURST_SZ
             THEN flush_nf_rx_queue(s, c)
             ELSE q' = s /\ UNCHANGED hdr

enqueue_nf_rx(l, c) ==
    IF c \notin Port THEN Forget(l)
    ELSE LET s == MoveHead(q, burst(l), nf_rx(c))
         IN  IF Len(s[nf_rx(c)]) = PKT_BURST_SZ
             THEN flush_nf_rx_queue(s, c)
             ELSE q' = s /\ UNCHANGED hdr

enqueue_nf_tx(l, c) ==
    IF c \notin Port THEN Forget(l)
    ELSE LET s == MoveHead(q, burst(l), nf_tx(c))
         IN  IF Len(s[nf_tx(c)]) = PKT_BURST_SZ
             THEN flush_nf_tx_queue(s, c)
             ELSE q' = s /\ UNCHANGED hdr

(* rte_pktmbuf_free of the first packet of the burst of lcore l.           *)
FreeHead(l) ==
    /\ q' = Cut(q, burst(l), 1)
    /\ hdr' = Free({Head(q[burst(l)])})

(***************************************************************************)
(* The containers, on the kernel's side of the virtual ports (external).   *)
(***************************************************************************)
ContainerSend(k, m, h) ==
    /\ ~released
    /\ hdr[m] = NoHdr
    /\ Len(q[kni_rx(k)]) < KniFifo
    /\ q' = [q EXCEPT ![kni_rx(k)] = Append(q[kni_rx(k)], m)]
    /\ hdr' = [hdr EXCEPT ![m] = h]
    /\ UNCHANGED <<rx, cp, kni_stop, released>>

ContainerRecv(k) ==
    /\ ~released
    /\ q[kni_tx(k)] # << >>
    /\ q' = Cut(q, kni_tx(k), 1)
    /\ hdr' = Free({Head(q[kni_tx(k)])})
    /\ UNCHANGED <<rx, cp, kni_stop, released>>

(***************************************************************************)
(* The Rx lcore: main_loop around fastpath.                                *)
(***************************************************************************)
RxAt(step, idx, round) == rx' = [step |-> step, idx |-> idx, round |-> round]

(* for (i = 0; i < KNI_KTHREAD; i++) with body `step', then `after'.       *)
NextIdx(step, after, afterRound) ==
    IF rx.idx + 1 < KNI_KTHREAD THEN RxAt(step, rx.idx + 1, rx.round)
                                ELSE RxAt(after, 0, afterRound)

RxLoop ==
    /\ rx.step = "loop"
    /\ RxAt(IF kni_stop THEN "exited" ELSE "kni", 0, 1)
    /\ UNCHANGED <<q, hdr, cp, kni_stop, released>>

RxKniBurst ==
    /\ rx.step = "kni"
    /\ q' = RecvBurst(q, kni_rx(rx.idx), burst(RxLcore))
    /\ RxAt("route", rx.idx, 1)
    /\ UNCHANGED <<hdr, cp, kni_stop, released>>

RxRoute ==
    /\ rx.step = "route"
    /\ q[burst(RxLcore)] # << >>
    /\ LET port == get_next_hop(hdr[Head(q[burst(RxLcore)])])
       IN  IF port = UNKNOWN_PORT THEN FreeHead(RxLcore)
           ELSE IF DISABLE_NF THEN enqueue_port(RxLcore, port)
                              ELSE enqueue_nf_rx(RxLcore, port)
    /\ UNCHANGED <<rx, cp, kni_stop, released>>

RxKniDone ==
    /\ rx.step = "route"
    /\ q[burst(RxLcore)] = << >>
    /\ NextIdx("kni", "flush_port", 1)
    /\ UNCHANGED <<q, hdr, cp, kni_stop, released>>

RxFlushPort ==
    /\ rx.step = "flush_port"
    /\ flush_port_queue(q, rx.idx)
    /\ NextIdx("flush_port", "flush_nf", rx.round)
    /\ UNCHANGED <<cp, kni_stop, released>>

(* Mutation of RxFlushNf: flush_all leaves partial batches where they are. *)
RxFlushNfSkips ==
    /\ rx.step = "flush_nf"
    /\ UNCHANGED <<q, hdr>>
    /\ IF rx.round = 1 /\ ~DISABLE_NF THEN NextIdx("flush_nf", "coproc", 2)
                                      ELSE NextIdx("flush_nf", "loop", 1)
    /\ UNCHANGED <<cp, kni_stop, released>>

(* The second loop of flush_all; after the first round come the            *)
(* coprocessors' Tx rings, after the second main_loop starts over.         *)
RxFlushNf ==
    /\ rx.step = "flush_nf"
    /\ flush_nf_rx_queue(q, rx.idx)
    /\ IF rx.round = 1 /\ ~DISABLE_NF THEN NextIdx("flush_nf", "coproc", 2)
                                      ELSE NextIdx("flush_nf", "loop", 1)
    /\ UNCHANGED <<cp, kni_stop, released>>

RxCoprocBurst ==
    /\ rx.step = "coproc"
    /\ q' = RecvBurst(q, tx_q(rx.idx), burst(RxLcore))
    /\ RxAt("forward", rx.idx, 2)
    /\ UNCHANGED <<hdr, cp, kni_stop, released>>

RxForward ==
    /\ rx.step = "forward"
    /\ q[burst(RxLcore)] # << >>
    /\ enqueue_port(RxLcore, rx.idx)
    /\ UNCHANGED <<rx, cp, kni_stop, released>>

RxCoprocDone ==
    /\ rx.step = "forward"
    /\ q[burst(RxLcore)] = << >>
    /\ NextIdx("coproc", "flush_port", 2)
    /\ UNCHANGED <<q, hdr, cp, kni_stop, released>>

(***************************************************************************)
(* Coprocessor lcore c: main_loop around coprocessor().                    *)
(***************************************************************************)
CpExit(c) ==
    /\ cp[c] = "loop"
    /\ kni_stop
    /\ cp' = [cp EXCEPT ![c] = "exited"]
    /\ UNCHANGED <<q, hdr, rx, kni_stop, released>>

(* Mutation of CpBurst: the loop does not look at kni_stop. *)
CpBurstNoStop(c) ==
    /\ cp[c] = "loop"
    /\ q' = RecvBurst(q, rx_q(c), burst(c))
    /\ cp' = [cp EXCEPT ![c] = "process"]
    /\ UNCHANGED <<hdr, rx, kni_stop, released>>

CpBurst(c) ==
    /\ cp[c] = "loop"
    /\ ~kni_stop
    /\ q' = RecvBurst(q, rx_q(c), burst(c))
    /\ cp' = [cp EXCEPT ![c] = "process"]
    /\ UNCHANGED <<hdr, rx, kni_stop, released>>

(* Mutation of CpProcess: the verdict of process_packet is ignored. *)
CpProcessNoVerdict(c) ==
    /\ cp[c] = "process"
    /\ q[burst(c)] # << >>
    /\ enqueue_nf_tx(c, c)
    /\ UNCHANGED <<rx, cp, kni_stop, released>>

CpProcess(c) ==
    /\ cp[c] = "process"
    /\ q[burst(c)] # << >>
    /\ IF hdr[Head(q[burst(c)])].accept THEN enqueue_nf_tx(c, c) ELSE FreeHead(c)
    /\ UNCHANGED <<rx, cp, kni_stop, released>>

CpFlush(c) ==
    /\ cp[c] = "process"
    /\ q[burst(c)] = << >>
    /\ flush_nf_tx_queue(q, c)
    /\ cp' = [cp EXCEPT ![c] = "loop"]
    /\ UNCHANGED <<rx, kni_stop, released>>

(***************************************************************************)
(* main: the signal handler, and the end of the program.  The master       *)
(* lcore returns from its own main_loop and waits for every other lcore    *)
(* before kni_free_kni.                                                    *)
(***************************************************************************)
SignalHandler ==
    /\ ~kni_stop
    /\ kni_stop' = TRUE
    /\ UNCHANGED <<q, hdr, rx, cp, released>>

(* Mutation of AllExited: main does not wait for the coprocessor lcores. *)
AllExitedRxOnly == rx.step = "exited"

AllExited == rx.step = "exited" /\ \A c \in Port : cp[c] = "exited"

KniFree ==
    /\ ~released
    /\ AllExited
    /\ released' = TRUE
    /\ UNCHANGED <<q, hdr, rx, cp, kni_stop>>

RxStep == \/ RxLoop \/ RxKniBurst \/ RxRoute \/ RxKniDone \/ RxFlushPort
          \/ RxFlushNf \/ RxCoprocBurst \/ RxForward \/ RxCoprocDone

CpStep(c) == CpExit(c) \/ CpBurst(c) \/ CpProcess(c) \/ CpFlush(c)

Next ==
    \/ \E k \in Port, m \in Mbuf, h \in Hdr : ContainerSend(k, m, h)
    \/ \E k \in Port : ContainerRecv(k)
    \/ RxStep
    \/ \E c \in Port : CpStep(c)
    \/ SignalHandler
    \/ KniFree

Spec == Init /\ [][Next]_vars

(* Every lcore is a pinned thread that spins, so it always takes its next  *)
(* step; main waits in rte_eal_wait_lcore and goes on when it returns.     *)
(* Nothing is assumed about the containers or about signals.               *)
FairSpec ==
    /\ Spec
    /\ WF_vars(RxStep)
    /\ \A c \in Port : WF_vars(CpStep(c))
    /\ WF_vars(KniFree)

(***************************************************************************)
(* Properties.                                                             *)
(***************************************************************************)

(* TypeOK: every variable keeps its type; the index of the Rx lcore's loops *)
(* over ports is always a port.                                            *)
TypeOK ==
    /\ q \in [Place -> Seq(Mbuf)]
    /\ hdr \in [Mbuf -> Hdr \cup {NoHdr}]
    /\ rx \in [step : RxSteps, idx : Port, round : {1, 2}]
    /\ cp \in [Port -> CpSteps]
    /\ kni_stop \in BOOLEAN
    /\ released \in BOOLEAN

(* No write past the end of an array: between two operations a packet_buf  *)
(* has room for one more packet (enqueue_* stores at buffer[count++] before *)
(* it compares count with PKT_BURST_SZ), a pkts_burst array never holds    *)
(* more than PKT_BURST_SZ descriptors, and no ring or fifo is overfilled.  *)
CapacityOK ==
    /\ \A k \in Port :
          /\ Len(q[nf_rx(k)]) < PKT_BURST_SZ
          /\ Len(q[nf_tx(k)]) < PKT_BURST_SZ
          /\ Len(q[tx(k)]) < PKT_BURST_SZ
          /\ Len(q[rx_q(k)]) <= RingCap
          /\ Len(q[tx_q(k)]) <= RingCap
          /\ Len(q[kni_rx(k)]) <= KniFifo
          /\ Len(q[kni_tx(k)]) <= KniFifo
    /\ \A l \in Port \cup {RxLcore} : Len(q[burst(l)]) <= PKT_BURST_SZ

(* Each descriptor has one owner: no descriptor is at two places or twice  *)
(* at one place, so none is freed twice or sent twice.                     *)
OneOwner ==
    /\ \A p \in Place : IsInjective(q[p])
    /\ \A p1, p2 \in Place : p1 # p2 => Range(q[p1]) \cap Range(q[p2]) = {}

(* No leak and no use after free: a descriptor is allocated exactly when   *)
(* some place holds it.  The silent returns of enqueue_port, enqueue_nf_rx *)
(* and enqueue_nf_tx would leak the packet if they were ever taken.        *)
NoLeak ==
    \A m \in Mbuf :
        (hdr[m] # NoHdr) <=> (\E p \in Place : m \in Range(q[p]))

(* Packets are where their destination and the firewall put them: on the   *)
(* way to port k only packets routed to k, and behind coprocessor k only   *)
(* packets that process_packet accepted.  MayHold says which headers place *)
(* p may hold when the Rx lcore is at r.                                   *)
MayHold(p, r, h) ==
    /\ p[1] \in {"nf_rx", "rx_q"} => get_next_hop(h) = p[2]
    /\ p[1] \in {"nf_tx", "tx_q"} => get_next_hop(h) = p[2] /\ h.accept
    /\ p[1] \in {"tx", "kni_tx"} =>
            get_next_hop(h) = p[2] /\ (DISABLE_NF \/ h.accept)
    /\ p[1] = "pkts_burst" /\ p[2] # RxLcore => get_next_hop(h) = p[2]
    /\ p = burst(RxLcore) /\ r.step = "forward" =>
            get_next_hop(h) = r.idx /\ h.accept

EgressOK == \A p \in Place : \A m \in Range(q[p]) : MayHold(p, rx, hdr[m])

(* The engine implements a lossy FIFO channel per virtual port: in transit *)
(* to port k is everything between the routing decision and the kernel's   *)
(* fifo, oldest first, across both threads, both rings and all buffers.    *)
InTransit(k) ==
    q[tx(k)] \o (IF rx.step = "forward" /\ rx.idx = k THEN q[burst(RxLcore)]
                                                     ELSE << >>)
      \o q[tx_q(k)] \o q[nf_tx(k)] \o q[burst(k)] \o q[rx_q(k)] \o q[nf_rx(k)]

Fifo == INSTANCE LossyFifo WITH
            Pkt  <- Mbuf,
            chan <- [k \in Port |-> InTransit(k)],
            out  <- [k \in Port |-> q[kni_tx(k)]]

ImplementsFifo == Fifo!Spec

(* The virtual ports are released only when no lcore can touch them again: *)
(* after KniFree no step of a lcore changes the state.                     *)
ReleasedIsFinal == [][released => UNCHANGED vars]_vars

(* No packet is kept for ever: unless the engine is told to stop, every    *)
(* packet the fast path has taken from a port is handed to a port's kernel *)
(* fifo or freed, even if no other packet ever comes to fill its batch.    *)
InEngine(m) ==
    \E p \in Place : /\ p[1] \notin {"kni_rx", "kni_tx"}
                     /\ m \in Range(q[p])

EveryPacketLeaves == \A m \in Mbuf : InEngine(m) ~> (~InEngine(m) \/ kni_stop)

(* What init.c:50 says of the routing table ("Set the default KNI egress   *)
(* port. Packets destined to UINT16_MAX are dropped."): a packet for an    *)
(* address that no virtual port has is dropped by the fast path, so none   *)
(* is ever in transit or delivered.  The loop below that comment covers    *)
(* only the first KNI_KTHREAD entries of the table.                        *)
UnroutedDropped ==
    \A p \in Place :
        p[1] \in {"nf_rx", "rx_q", "nf_tx", "tx_q", "tx", "kni_tx"} =>
            \A m \in Range(q[p]) : \E k \in Port : hdr[m].dst = KniIp(k)

(* A signal ends the program: every lcore leaves its loop and the virtual  *)
(* ports are released.                                                     *)
StopReleases == kni_stop ~> released

=============================================================================
