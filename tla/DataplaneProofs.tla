-------------------------- MODULE DataplaneProofs --------------------------
(***************************************************************************)
(* Proofs about Dataplane: the packet buffers never overflow, every packet *)
(* descriptor always has exactly one owner and none is leaked, packets     *)
(* only travel to the port they are routed to, past the firewall, and the  *)
(* pipeline is a lossy FIFO channel per port, for every number of ports    *)
(* and every size of the buffers.                                          *)
(***************************************************************************)
EXTENDS Dataplane, SequenceTheorems, TLAPS

(***************************************************************************)
(* Facts about sequences without repetitions: what cutting, concatenating  *)
(* and appending do to the set of elements, and that they introduce no     *)
(* repetition.                                                             *)
(***************************************************************************)

(* A prefix and a suffix of a sequence.                                    *)
LEMMA SubSeqIndices ==
    ASSUME NEW S, NEW s \in Seq(S), NEW n \in 0 .. Len(s)
    PROVE  /\ SubSeq(s, 1, n) \in Seq(S)
           /\ Len(SubSeq(s, 1, n)) = n
           /\ DOMAIN SubSeq(s, 1, n) = 1 .. n
           /\ \A i \in 1 .. n : SubSeq(s, 1, n)[i] = s[i]
           /\ SubSeq(s, n + 1, Len(s)) \in Seq(S)
           /\ Len(SubSeq(s, n + 1, Len(s))) = Len(s) - n
           /\ DOMAIN SubSeq(s, n + 1, Len(s)) = 1 .. Len(s) - n
           /\ \A i \in 1 .. Len(s) - n : SubSeq(s, n + 1, Len(s))[i] = s[i + n]
  <1>1. /\ Len(s) \in Nat
        /\ \A i \in 1 .. Len(s) : s[i] \in S
    BY LenProperties
  <1>2. /\ SubSeq(s, 1, n) \in Seq(S)
        /\ Len(SubSeq(s, 1, n)) = n
        /\ \A i \in 1 .. n : SubSeq(s, 1, n)[i] = s[i]
    BY <1>1, SubSeqProperties
  <1>3. /\ SubSeq(s, n + 1, Len(s)) \in Seq(S)
        /\ Len(SubSeq(s, n + 1, Len(s))) =
             IF n + 1 <= Len(s) THEN Len(s) - (n + 1) + 1 ELSE 0
        /\ \A i \in 1 .. Len(s) - (n + 1) + 1 :
             SubSeq(s, n + 1, Len(s))[i] = s[n + 1 + i - 1]
    <2>1. \A i \in n + 1 .. Len(s) : s[i] \in S
      BY <1>1
    <2> QED BY <1>1, <2>1, SubSeqProperties
  <1>4. /\ Len(SubSeq(s, n + 1, Len(s))) = Len(s) - n
        /\ \A i \in 1 .. Len(s) - n : SubSeq(s, n + 1, Len(s))[i] = s[i + n]
    BY <1>1, <1>3
  <1>5. /\ DOMAIN SubSeq(s, 1, n) = 1 .. n
        /\ DOMAIN SubSeq(s, n + 1, Len(s)) = 1 .. Len(s) - n
    BY <1>2, <1>3, <1>4, LenProperties
  <1> QED BY <1>2, <1>3, <1>4, <1>5

(* Splitting a sequence splits its elements.                               *)
LEMMA SplitRange ==
    ASSUME NEW S, NEW s \in Seq(S), NEW n \in 0 .. Len(s)
    PROVE  Range(SubSeq(s, 1, n)) \cup Range(SubSeq(s, n + 1, Len(s))) = Range(s)
  <1> DEFINE a == SubSeq(s, 1, n)
             b == SubSeq(s, n + 1, Len(s))
  <1>1. /\ Len(s) \in Nat /\ DOMAIN s = 1 .. Len(s)
    BY LenProperties
  <1>2. /\ DOMAIN a = 1 .. n /\ \A i \in 1 .. n : a[i] = s[i]
        /\ DOMAIN b = 1 .. Len(s) - n /\ \A i \in 1 .. Len(s) - n : b[i] = s[i + n]
    BY SubSeqIndices
  <1> HIDE DEF a, b
  <1>3. Range(a) \subseteq Range(s) /\ Range(b) \subseteq Range(s)
    <2>1. \A i \in 1 .. n : i \in DOMAIN s
      BY <1>1
    <2>2. \A i \in 1 .. Len(s) - n : i + n \in DOMAIN s
      BY <1>1
    <2> QED BY <1>2, <2>1, <2>2 DEF Range
  <1>4. ASSUME NEW i \in 1 .. Len(s) PROVE s[i] \in Range(a) \cup Range(b)
    <2>1. CASE i <= n
      BY <1>1, <1>2, <2>1 DEF Range
    <2>2. CASE i > n
      <3>1. i - n \in 1 .. Len(s) - n /\ b[i - n] = s[i]
        BY <1>1, <1>2, <2>2
      <3> QED BY <1>2, <3>1 DEF Range
    <2> QED BY <1>1, <2>1, <2>2
  <1>5. Range(s) \subseteq Range(a) \cup Range(b)
    BY <1>1, <1>4 DEF Range
  <1> QED BY <1>3, <1>5 DEF a, b

(* The parts of a sequence without repetitions have none, and share        *)
(* nothing.                                                                *)
LEMMA SplitInjective ==
    ASSUME NEW S, NEW s \in Seq(S), NEW n \in 0 .. Len(s), IsInjective(s)
    PROVE  /\ IsInjective(SubSeq(s, 1, n))
           /\ IsInjective(SubSeq(s, n + 1, Len(s)))
           /\ Range(SubSeq(s, 1, n)) \cap Range(SubSeq(s, n + 1, Len(s))) = {}
  <1> DEFINE a == SubSeq(s, 1, n)
             b == SubSeq(s, n + 1, Len(s))
  <1>1. /\ Len(s) \in Nat /\ DOMAIN s = 1 .. Len(s)
    BY LenProperties
  <1>2. /\ DOMAIN a = 1 .. n /\ \A i \in 1 .. n : a[i] = s[i]
        /\ DOMAIN b = 1 .. Len(s) - n /\ \A i \in 1 .. Len(s) - n : b[i] = s[i + n]
    BY SubSeqIndices
  <1> HIDE DEF a, b
  <1>3. IsInjective(a)
    BY <1>1, <1>2 DEF IsInjective
  <1>4. IsInjective(b)
    <2> SUFFICES ASSUME NEW i \in 1 .. Len(s) - n, NEW j \in 1 .. Len(s) - n,
                        b[i] = b[j]
                 PROVE  i = j
      BY <1>2 DEF IsInjective
    <2>1. i + n \in 1 .. Len(s) /\ j + n \in 1 .. Len(s) /\ s[i + n] = s[j + n]
      BY <1>1, <1>2
    <2>2. i + n = j + n
      BY <1>1, <2>1 DEF IsInjective
    <2> QED BY <2>2
  <1>5. ASSUME NEW i \in 1 .. n, NEW j \in 1 .. Len(s) - n PROVE a[i] # b[j]
    <2>1. i \in 1 .. Len(s) /\ j + n \in 1 .. Len(s) /\ i # j + n
      BY <1>1
    <2>2. s[i] # s[j + n]
      BY <1>1, <2>1 DEF IsInjective
    <2> QED BY <1>2, <2>2
  <1>6. Range(a) \cap Range(b) = {}
    BY <1>2, <1>5 DEF Range
  <1> QED BY <1>3, <1>4, <1>6 DEF a, b

(* Concatenation joins the elements.                                       *)
LEMMA ConcatRange ==
    ASSUME NEW S, NEW a \in Seq(S), NEW b \in Seq(S)
    PROVE  Range(a \o b) = Range(a) \cup Range(b)
  <1> DEFINE c == a \o b
  <1>1. /\ Len(a) \in Nat /\ DOMAIN a = 1 .. Len(a)
        /\ Len(b) \in Nat /\ DOMAIN b = 1 .. Len(b)
    BY LenProperties
  <1>2. /\ c \in Seq(S) /\ Len(c) = Len(a) + Len(b)
        /\ \A i \in 1 .. Len(a) + Len(b) :
              c[i] = IF i <= Len(a) THEN a[i] ELSE b[i - Len(a)]
    BY ConcatProperties
  <1>3. DOMAIN c = 1 .. Len(a) + Len(b)
    BY <1>2, LenProperties
  <1> HIDE DEF c
  <1>4. ASSUME NEW i \in 1 .. Len(a) + Len(b) PROVE c[i] \in Range(a) \cup Range(b)
    <2>1. CASE i <= Len(a)
      BY <1>1, <1>2, <2>1 DEF Range
    <2>2. CASE i > Len(a)
      <3>1. i - Len(a) \in DOMAIN b /\ c[i] = b[i - Len(a)]
        BY <1>1, <1>2, <2>2
      <3> QED BY <3>1 DEF Range
    <2> QED BY <1>1, <2>1, <2>2
  <1>5. ASSUME NEW i \in 1 .. Len(a) PROVE a[i] \in Range(c)
    BY <1>1, <1>2, <1>3 DEF Range
  <1>6. ASSUME NEW i \in 1 .. Len(b) PROVE b[i] \in Range(c)
    <2>1. i + Len(a) \in 1 .. Len(a) + Len(b) /\ c[i + Len(a)] = b[i]
      BY <1>1, <1>2
    <2> QED BY <1>3, <2>1 DEF Range
  <1>7. Range(c) \subseteq Range(a) \cup Range(b)
    BY <1>3, <1>4 DEF Range
  <1>8. Range(a) \subseteq Range(c) /\ Range(b) \subseteq Range(c)
    BY <1>1, <1>5, <1>6 DEF Range
  <1> QED BY <1>7, <1>8 DEF c

(* Concatenating sequences that have no repetition and share nothing       *)
(* gives a sequence without repetition.                                    *)
LEMMA ConcatInjective ==
    ASSUME NEW S, NEW a \in Seq(S), NEW b \in Seq(S),
           IsInjective(a), IsInjective(b), Range(a) \cap Range(b) = {}
    PROVE  IsInjective(a \o b)
  <1> DEFINE c == a \o b
  <1>1. /\ Len(a) \in Nat /\ DOMAIN a = 1 .. Len(a)
        /\ Len(b) \in Nat /\ DOMAIN b = 1 .. Len(b)
    BY LenProperties
  <1>2. /\ c \in Seq(S) /\ Len(c) = Len(a) + Len(b)
        /\ \A i \in 1 .. Len(a) + Len(b) :
              c[i] = IF i <= Len(a) THEN a[i] ELSE b[i - Len(a)]
    BY ConcatProperties
  <1>3. DOMAIN c = 1 .. Len(a) + Len(b)
    BY <1>2, LenProperties
  <1> HIDE DEF c
  <1> SUFFICES ASSUME NEW i \in 1 .. Len(a) + Len(b), NEW j \in 1 .. Len(a) + Len(b),
                      c[i] = c[j]
               PROVE  i = j
    BY <1>3 DEF IsInjective, c
  <1>4. CASE i <= Len(a) /\ j <= Len(a)
    BY <1>1, <1>2, <1>4 DEF IsInjective
  <1>5. CASE i > Len(a) /\ j > Len(a)
    <2>1. /\ i - Len(a) \in DOMAIN b /\ j - Len(a) \in DOMAIN b
          /\ b[i - Len(a)] = b[j - Len(a)]
      BY <1>1, <1>2, <1>5
    <2>2. i - Len(a) = j - Len(a)
      BY <2>1 DEF IsInjective
    <2> QED BY <1>1, <2>2
  <1>6. CASE i <= Len(a) /\ j > Len(a)
    <2>1. /\ i \in DOMAIN a /\ c[i] = a[i]
          /\ j - Len(a) \in DOMAIN b /\ c[j] = b[j - Len(a)]
      BY <1>1, <1>2, <1>6
    <2> QED BY <2>1, Zenon DEF Range
  <1>7. CASE i > Len(a) /\ j <= Len(a)
    <2>1. /\ j \in DOMAIN a /\ c[j] = a[j]
          /\ i - Len(a) \in DOMAIN b /\ c[i] = b[i - Len(a)]
      BY <1>1, <1>2, <1>7
    <2> QED BY <2>1, Zenon DEF Range
  <1> QED BY <1>1, <1>4, <1>5, <1>6, <1>7

(* Appending an element a sequence does not have keeps it injective.       *)
LEMMA AppendFresh ==
    ASSUME NEW S, NEW s \in Seq(S), NEW e \in S, e \notin Range(s), IsInjective(s)
    PROVE  Range(Append(s, e)) = Range(s) \cup {e} /\ IsInjective(Append(s, e))
  <1>1. <<e>> \in Seq(S) /\ Len(<<e>>) = 1 /\ <<e>>[1] = e /\ DOMAIN <<e>> = 1 .. 1
    OBVIOUS
  <1>2. Range(<<e>>) = {e} /\ IsInjective(<<e>>)
    BY <1>1 DEF Range, IsInjective
  <1> DEFINE u == <<e>>
  <1>3. Append(s, e) = s \o u
    BY AppendIsConcat
  <1>4. u \in Seq(S) /\ Range(u) = {e} /\ IsInjective(u) /\ Range(s) \cap Range(u) = {}
    BY <1>1, <1>2
  <1> HIDE DEF u
  <1>5. Range(s \o u) = Range(s) \cup Range(u)
    BY <1>4, ConcatRange
  <1>6. IsInjective(s \o u)
    BY <1>4, ConcatInjective
  <1> QED BY <1>3, <1>4, <1>5, <1>6

(***************************************************************************)
(* The places of the packets.                                              *)
(***************************************************************************)

Places == [Place -> Seq(Mbuf)]

Held(s) == UNION {Range(s[p]) : p \in Place}

Own(s) ==
    /\ \A p \in Place : IsInjective(s[p])
    /\ \A p1, p2 \in Place : p1 # p2 => Range(s[p1]) \cap Range(s[p2]) = {}

(* What is known of a place as a sequence. *)
LEMMA PlaceSeq ==
    ASSUME NEW s \in Places, NEW p \in Place
    PROVE  s[p] \in Seq(Mbuf) /\ Len(s[p]) \in Nat /\ Range(s[p]) \subseteq Mbuf
  <1>1. s[p] \in Seq(Mbuf)
    BY DEF Places
  <1> QED BY <1>1, LenProperties DEF Range

Shifted(s, t, a, b, n) ==
    /\ t \in Places
    /\ Own(t)
    /\ Held(t) = Held(s)
    /\ \A p \in Place : p # a /\ p # b => t[p] = s[p]
    /\ t[a] = Skip(s[a], n)
    /\ Len(t[a]) = Len(s[a]) - n
    /\ Len(t[b]) = Len(s[b]) + n
    /\ Range(t[a]) \subseteq Range(s[a])
    /\ Range(t[b]) = Range(s[b]) \cup Range(Take(s[a], n))
    /\ Range(Take(s[a], n)) \subseteq Range(s[a])

(* Shift moves the first n descriptors of place a behind those of place b  *)
(* and changes nothing else.                                               *)
LEMMA ShiftLemma ==
    ASSUME NEW s \in Places, NEW a \in Place, NEW b \in Place, a # b,
           NEW n \in 0 .. Len(s[a]), Own(s)
    PROVE  Shifted(s, Shift(s, a, b, n), a, b, n)
  <1> DEFINE t == Shift(s, a, b, n)
             u == Take(s[a], n)
             v == Skip(s[a], n)
  <1>1. /\ s[a] \in Seq(Mbuf) /\ s[b] \in Seq(Mbuf)
        /\ Len(s[a]) \in Nat /\ Len(s[b]) \in Nat
    BY PlaceSeq
  <1>2. /\ u \in Seq(Mbuf) /\ v \in Seq(Mbuf)
        /\ Len(u) = n /\ Len(v) = Len(s[a]) - n
    BY <1>1, SubSeqIndices DEF Take, Skip
  <1>3. Range(u) \cup Range(v) = Range(s[a])
    BY <1>1, SplitRange DEF Take, Skip
  <1>4. IsInjective(u) /\ IsInjective(v) /\ Range(u) \cap Range(v) = {}
    BY <1>1, SplitInjective DEF Take, Skip, Own
  <1> HIDE DEF u, v
  <1>5. /\ s[b] \o u \in Seq(Mbuf) /\ Len(s[b] \o u) = Len(s[b]) + n
        /\ Range(s[b] \o u) = Range(s[b]) \cup Range(u)
    <2>1. s[b] \o u \in Seq(Mbuf) /\ Len(s[b] \o u) = Len(s[b]) + Len(u)
      BY <1>1, <1>2, ConcatProperties, Zenon
    <2>2. Range(s[b] \o u) = Range(s[b]) \cup Range(u)
      BY <1>1, <1>2, ConcatRange
    <2> QED BY <1>2, <2>1, <2>2
  <1>6. Range(s[a]) \cap Range(s[b]) = {} /\ IsInjective(s[b])
    BY DEF Own
  <1>7. IsInjective(s[b] \o u)
    BY <1>1, <1>2, <1>3, <1>4, <1>6, ConcatInjective
  <1>8. /\ t \in Places /\ t[a] = v /\ t[b] = s[b] \o u
        /\ \A p \in Place : p # a /\ p # b => t[p] = s[p]
    BY <1>2, <1>5, Zenon DEF Shift, Places, u, v
  <1> HIDE DEF t
  <1>9. Own(t)
    <2>1. \A p \in Place : IsInjective(t[p])
      BY <1>4, <1>7, <1>8, Zenon DEF Own
    <2>2. ASSUME NEW p1 \in Place, NEW p2 \in Place, p1 # p2
          PROVE  Range(t[p1]) \cap Range(t[p2]) = {}
      <3>1. \A p \in Place : p # a /\ p # b => /\ Range(s[p]) \cap Range(s[a]) = {}
                                               /\ Range(s[p]) \cap Range(s[b]) = {}
        BY Zenon DEF Own
      <3>2. CASE p1 \in {a, b} /\ p2 \in {a, b}
        <4>1. Range(t[a]) \cap Range(t[b]) = {}
          BY <1>3, <1>4, <1>5, <1>6, <1>8
        <4> QED BY <2>2, <3>2, <4>1
      <3>3. CASE p1 \in {a, b} /\ p2 \notin {a, b}
        BY <1>3, <1>5, <1>8, <3>1, <3>3, Zenon
      <3>4. CASE p1 \notin {a, b} /\ p2 \in {a, b}
        BY <1>3, <1>5, <1>8, <3>1, <3>4, Zenon
      <3>5. CASE p1 \notin {a, b} /\ p2 \notin {a, b}
        BY <1>8, <2>2, <3>5 DEF Own
      <3> QED BY <3>2, <3>3, <3>4, <3>5
    <2> QED BY <2>1, <2>2 DEF Own
  <1>10. Held(t) = Held(s)
    <2>1. \A m : m \in Held(s) => m \in Held(t)
      BY <1>3, <1>5, <1>8, Zenon DEF Held
    <2>2. \A m : m \in Held(t) => m \in Held(s)
      BY <1>3, <1>5, <1>8, Zenon DEF Held
    <2> QED BY <2>1, <2>2, Zenon
  <1> QED BY <1>2, <1>3, <1>5, <1>8, <1>9, <1>10, Zenon DEF Shifted, t, u, v

Removed(s, t, a, n) ==
    /\ t \in Places
    /\ Own(t)
    /\ Held(t) = Held(s) \ Range(Take(s[a], n))
    /\ \A p \in Place : p # a => t[p] = s[p]
    /\ Len(t[a]) = Len(s[a]) - n
    /\ \A p \in Place : Range(t[p]) \subseteq Range(s[p])

(* Cut takes the first n descriptors of place a out.                       *)
LEMMA CutLemma ==
    ASSUME NEW s \in Places, NEW a \in Place, NEW n \in 0 .. Len(s[a]), Own(s)
    PROVE  Removed(s, Cut(s, a, n), a, n)
  <1> DEFINE t == Cut(s, a, n)
             u == Take(s[a], n)
             v == Skip(s[a], n)
  <1>1. s[a] \in Seq(Mbuf) /\ Len(s[a]) \in Nat
    BY PlaceSeq
  <1>2. v \in Seq(Mbuf) /\ Len(v) = Len(s[a]) - n
    BY <1>1, SubSeqIndices DEF Skip
  <1>3. Range(u) \cup Range(v) = Range(s[a])
    BY <1>1, SplitRange DEF Take, Skip
  <1>4. IsInjective(v) /\ Range(u) \cap Range(v) = {}
    BY <1>1, SplitInjective DEF Take, Skip, Own
  <1> HIDE DEF u, v
  <1>5. /\ t \in Places /\ t[a] = v
        /\ \A p \in Place : p # a => t[p] = s[p]
    BY <1>2 DEF Cut, Places, v
  <1> HIDE DEF t
  <1>6. \A p \in Place : Range(t[p]) \subseteq Range(s[p])
    BY <1>3, <1>5
  <1>7. Own(t)
    BY <1>4, <1>5, <1>6, Zenon DEF Own
  <1>8. \A p \in Place : p # a => Range(s[p]) \cap Range(s[a]) = {}
    BY DEF Own
  <1>9. Held(t) = Held(s) \ Range(u)
    <2>1. \A m : m \in Held(t) => m \in Held(s) \ Range(u)
      BY <1>3, <1>4, <1>5, <1>8 DEF Held
    <2>2. \A m : m \in Held(s) \ Range(u) => m \in Held(t)
      BY <1>3, <1>5 DEF Held
    <2> QED BY <2>1, <2>2
  <1> QED BY <1>2, <1>5, <1>6, <1>7, <1>9 DEF Removed, t, u

(* The first n = 1 descriptors of a place are its head.                    *)
LEMMA TakeHead ==
    ASSUME NEW s \in Seq(Mbuf), s # << >>
    PROVE  Len(s) >= 1 /\ 1 \in 0 .. Len(s) /\ Range(Take(s, 1)) = {Head(s)}
  <1>1. Len(s) \in Nat /\ Len(s) >= 1 /\ Head(s) = s[1]
    BY HeadTailProperties, LenProperties, EmptySeq
  <1>2. DOMAIN Take(s, 1) = 1 .. 1 /\ Take(s, 1)[1] = s[1]
    BY <1>1, SubSeqIndices DEF Take
  <1>3. Range(Take(s, 1)) = {s[1]}
    BY <1>2 DEF Range
  <1> QED BY <1>1, <1>3

(* All of a place is taken: nothing stays.                                 *)
LEMMA TakeAll ==
    ASSUME NEW s \in Seq(Mbuf)
    PROVE  Take(s, Len(s)) = s
  <1>1. Len(s) \in Nat /\ Len(s) \in 0 .. Len(s)
    BY LenProperties
  <1>2. /\ Take(s, Len(s)) \in Seq(Mbuf) /\ Len(Take(s, Len(s))) = Len(s)
        /\ \A i \in 1 .. Len(s) : Take(s, Len(s))[i] = s[i]
    BY <1>1, SubSeqIndices DEF Take
  <1> QED BY <1>1, <1>2, SeqEqual

(***************************************************************************)
(* The invariant, for places s, headers h and the Rx lcore at r.           *)
(***************************************************************************)
Freed(h, S) == [m \in Mbuf |-> IF m \in S THEN NoHdr ELSE h[m]]

Good(s, h) ==
    /\ s \in Places
    /\ h \in [Mbuf -> Hdr \cup {NoHdr}]
    /\ Own(s)
    /\ \A m \in Mbuf : (h[m] # NoHdr) <=> (m \in Held(s))

Lcore == Port \cup {RxLcore}

Cap(s) ==
    /\ \A k \in Port :
          /\ Len(s[nf_rx(k)]) < PKT_BURST_SZ
          /\ Len(s[nf_tx(k)]) < PKT_BURST_SZ
          /\ Len(s[tx(k)]) < PKT_BURST_SZ
          /\ Len(s[rx_q(k)]) <= RingCap
          /\ Len(s[tx_q(k)]) <= RingCap
          /\ Len(s[kni_rx(k)]) <= KniFifo
          /\ Len(s[kni_tx(k)]) <= KniFifo
    /\ \A l \in Lcore : Len(s[burst(l)]) <= PKT_BURST_SZ

Egress(s, h, r) == \A p \in Place : \A m \in Range(s[p]) : MayHold(p, r, h[m])

Core(s, h, r) == Good(s, h) /\ Cap(s) /\ Egress(s, h, r)

(* The packets F that leave the places are freed, and the others keep      *)
(* their headers.                                                          *)
LEMMA FreeGood ==
    ASSUME NEW s, NEW h, Good(s, h), NEW t \in Places, NEW F,
           Own(t), Held(t) = Held(s) \ F
    PROVE  /\ Good(t, Freed(h, F))
           /\ \A p \in Place : \A m \in Range(t[p]) : Freed(h, F)[m] = h[m]
  <1>1. \A p \in Place : \A m \in Range(t[p]) : m \in Held(t) /\ m \in Mbuf
    BY PlaceSeq DEF Held
  <1>2. Freed(h, F) \in [Mbuf -> Hdr \cup {NoHdr}]
    BY DEF Good, Freed
  <1>3. \A m \in Mbuf : Freed(h, F)[m] = IF m \in F THEN NoHdr ELSE h[m]
    BY DEF Freed
  <1>4. \A m \in Mbuf : (Freed(h, F)[m] # NoHdr) <=> (m \in Held(t))
    BY <1>3 DEF Good
  <1> QED BY <1>1, <1>2, <1>3, <1>4 DEF Good

(***************************************************************************)
(* The two ways a batch is handed over: all or nothing to a ring, as much  *)
(* as fits to a KNI fifo.  In both the rest of the batch is freed and the  *)
(* packet_buf is empty afterwards.                                         *)
(***************************************************************************)
Handover(s, t, F, buf, dst, cap) ==
    /\ t \in Places
    /\ Own(t)
    /\ Held(t) = Held(s) \ F
    /\ \A p \in Place : p # buf /\ p # dst => t[p] = s[p]
    /\ Len(t[buf]) = 0
    /\ Range(t[buf]) \subseteq Range(s[buf])
    /\ Len(t[dst]) <= cap
    /\ Range(t[dst]) \subseteq Range(s[dst]) \cup Range(s[buf])

(* FlushRing is a handover to a ring. *)
LEMMA FlushRingHandover ==
    ASSUME NEW s \in Places, Own(s), NEW buf \in Place, NEW dst \in Place,
           buf # dst, Len(s[dst]) <= RingCap
    PROVE  Handover(s, FlushRing(s, buf, dst), FreedByRing(s, buf, dst),
                    buf, dst, RingCap)
  <1>1. /\ s[buf] \in Seq(Mbuf) /\ Len(s[buf]) \in Nat /\ Len(s[dst]) \in Nat
        /\ Len(s[buf]) \in 0 .. Len(s[buf])
    BY PlaceSeq
  <1>2. Take(s[buf], Len(s[buf])) = s[buf]
    BY <1>1, TakeAll
  <1>3. CASE BulkFits(s, buf, dst)
    <2> DEFINE t == Shift(s, buf, dst, Len(s[buf]))
    <2>1. Shifted(s, t, buf, dst, Len(s[buf]))
      BY <1>1, ShiftLemma
    <2> HIDE DEF t
    <2>2. Len(t[buf]) = 0 /\ Len(t[dst]) <= RingCap
      <3>1. /\ Len(t[buf]) = Len(s[buf]) - Len(s[buf])
            /\ Len(t[dst]) = Len(s[dst]) + Len(s[buf])
        BY <2>1 DEF Shifted
      <3>2. Len(s[buf]) \in Nat /\ Len(s[dst]) \in Nat
        BY <1>1
      <3>3. Len(s[dst]) + Len(s[buf]) <= RingCap
        BY <1>3, Zenon DEF BulkFits
      <3>4. Len(t[buf]) = 0
        BY <3>1, <3>2
      <3>5. Len(t[dst]) <= RingCap
        BY <3>1, <3>2, <3>3, Zenon
      <3> QED BY <3>4, <3>5
    <2>3. Handover(s, t, {}, buf, dst, RingCap)
      BY <1>2, <2>1, <2>2, Zenon DEF Handover, Shifted
    <2> QED BY <1>3, <2>3 DEF FlushRing, FreedByRing, t
  <1>4. CASE ~BulkFits(s, buf, dst)
    <2> DEFINE t == Cut(s, buf, Len(s[buf]))
    <2>1. Removed(s, t, buf, Len(s[buf]))
      BY <1>1, CutLemma
    <2> HIDE DEF t
    <2>2. Len(t[buf]) = 0
      BY <1>1, <2>1 DEF Removed
    <2>3. Handover(s, t, Range(s[buf]), buf, dst, RingCap)
      BY <1>2, <2>1, <2>2 DEF Handover, Removed
    <2> QED BY <1>4, <2>3 DEF FlushRing, FreedByRing, t
  <1> QED BY <1>3, <1>4

(* The number of packets a burst operation moves.                          *)
LEMMA LeastLemma ==
    ASSUME NEW x \in Nat, NEW y \in Nat, NEW c \in Nat, y <= c
    PROVE  /\ Least(x, c - y) \in Nat
           /\ Least(x, c - y) <= x
           /\ Least(x, c - y) + y <= c
  BY DEF Least

(* FlushKni is a handover to a KNI fifo. *)
LEMMA FlushKniHandover ==
    ASSUME NEW s \in Places, Own(s), NEW k \in Port,
           Len(s[kni_tx(k)]) <= KniFifo
    PROVE  Handover(s, FlushKni(s, k), FreedByKni(s, k),
                    tx(k), kni_tx(k), KniFifo)
  <1> DEFINE a == tx(k)
             b == kni_tx(k)
             n == KniSent(s, k)
             u == Shift(s, a, b, n)
             w == Len(s[a]) - n
             t == Cut(u, a, w)
  <1>1. a \in Place /\ b \in Place /\ a # b
    BY DEF Place, tx, kni_tx
  <1>2. Len(s[a]) \in Nat /\ Len(s[b]) \in Nat
    BY <1>1, PlaceSeq
  <1>3. /\ n \in Nat /\ n <= Len(s[a]) /\ n + Len(s[b]) <= KniFifo
    <2>1. KniFifo \in Nat
      BY SizeAssumption
    <2>2. Len(s[b]) <= KniFifo
      OBVIOUS
    <2> QED BY <1>2, <2>1, <2>2, LeastLemma, Zenon DEF KniSent
  <1>4. n \in 0 .. Len(s[a]) /\ w \in Nat
    BY <1>2, <1>3
  <1>5. n = KniSent(s, k)
    OBVIOUS
  <1> HIDE DEF a, b, n
  <1>6. Shifted(s, u, a, b, n)
    BY <1>1, <1>4, ShiftLemma
  <1> HIDE DEF u, w
  <1>7. u \in Places /\ Own(u) /\ Len(u[a]) = w
    BY <1>6 DEF Shifted, w
  <1>8. u[a] \in Seq(Mbuf) /\ Take(u[a], w) = u[a] /\ w \in 0 .. Len(u[a])
    BY <1>1, <1>4, <1>7, PlaceSeq, TakeAll
  <1>9. Removed(u, t, a, w)
    BY <1>1, <1>7, <1>8, CutLemma
  <1> HIDE DEF t
  <1>10. Len(t[a]) = 0 /\ Len(t[b]) <= KniFifo
    BY <1>1, <1>2, <1>3, <1>4, <1>6, <1>7, <1>9 DEF Shifted, Removed
  <1>11. Handover(s, t, Range(Skip(s[a], n)), a, b, KniFifo)
    BY <1>1, <1>6, <1>8, <1>9, <1>10 DEF Handover, Shifted, Removed
  <1> QED BY <1>5, <1>11 DEF FlushKni, FreedByKni, t, u, w, a, b

(***************************************************************************)
(* The operations on the engine's buffers preserve Core.                   *)
(***************************************************************************)

(* The packet_buf, the destination and its capacity of each flush.         *)
Hop(k, buf, dst, cap) ==
    \/ buf = nf_rx(k) /\ dst = rx_q(k) /\ cap = RingCap
    \/ buf = nf_tx(k) /\ dst = tx_q(k) /\ cap = RingCap
    \/ buf = tx(k) /\ dst = kni_tx(k) /\ cap = KniFifo

(* The places of a hop differ from each other and from every burst.        *)
LEMMA HopPlaces ==
    ASSUME NEW k \in Port, NEW buf, NEW dst, NEW cap, Hop(k, buf, dst, cap)
    PROVE  /\ buf \in Place /\ dst \in Place /\ buf # dst
           /\ \A l \in Lcore : burst(l) \in Place /\ burst(l) # buf /\ burst(l) # dst
  BY DEF Hop, Place, Lcore, nf_rx, rx_q, nf_tx, tx_q, tx, kni_tx, burst

(* What fits the packet_buf of a hop fits its destination.                 *)
LEMMA HopMayHold ==
    ASSUME NEW k \in Port, NEW buf, NEW dst, NEW cap, Hop(k, buf, dst, cap),
           NEW r, NEW h, MayHold(buf, r, h)
    PROVE  MayHold(dst, r, h)
  BY DEF Hop, MayHold, nf_rx, rx_q, nf_tx, tx_q, tx, kni_tx, burst

(* A change of one packet_buf, one destination and a burst that respects   *)
(* their capacities respects all capacities.                               *)
LEMMA HopCap ==
    ASSUME NEW k \in Port, NEW buf, NEW dst, NEW cap, Hop(k, buf, dst, cap),
           NEW s, Cap(s), NEW t, NEW l \in Lcore,
           \A p \in Place : p # buf /\ p # dst /\ p # burst(l) => t[p] = s[p],
           Len(t[buf]) < PKT_BURST_SZ, Len(t[dst]) <= cap,
           Len(t[burst(l)]) <= PKT_BURST_SZ
    PROVE  Cap(t)
  <1>1. ASSUME NEW j \in Port
        PROVE  /\ Len(t[nf_rx(j)]) < PKT_BURST_SZ
               /\ Len(t[nf_tx(j)]) < PKT_BURST_SZ
               /\ Len(t[tx(j)]) < PKT_BURST_SZ
               /\ Len(t[rx_q(j)]) <= RingCap
               /\ Len(t[tx_q(j)]) <= RingCap
               /\ Len(t[kni_rx(j)]) <= KniFifo
               /\ Len(t[kni_tx(j)]) <= KniFifo
    <2>1. /\ Len(s[nf_rx(j)]) < PKT_BURST_SZ
          /\ Len(s[nf_tx(j)]) < PKT_BURST_SZ
          /\ Len(s[tx(j)]) < PKT_BURST_SZ
          /\ Len(s[rx_q(j)]) <= RingCap
          /\ Len(s[tx_q(j)]) <= RingCap
          /\ Len(s[kni_rx(j)]) <= KniFifo
          /\ Len(s[kni_tx(j)]) <= KniFifo
      BY DEF Cap
    <2>2. /\ nf_rx(j) \in Place /\ nf_tx(j) \in Place /\ tx(j) \in Place
          /\ rx_q(j) \in Place /\ tx_q(j) \in Place
          /\ kni_rx(j) \in Place /\ kni_tx(j) \in Place
      BY DEF Place, nf_rx, rx_q, nf_tx, tx_q, tx, kni_tx, kni_rx
    <2>3. Len(t[nf_rx(j)]) < PKT_BURST_SZ
      BY <2>1, <2>2 DEF Hop, nf_rx, rx_q, nf_tx, tx_q, tx, kni_tx, burst
    <2>4. Len(t[nf_tx(j)]) < PKT_BURST_SZ
      BY <2>1, <2>2 DEF Hop, nf_rx, rx_q, nf_tx, tx_q, tx, kni_tx, burst
    <2>5. Len(t[tx(j)]) < PKT_BURST_SZ
      BY <2>1, <2>2 DEF Hop, nf_rx, rx_q, nf_tx, tx_q, tx, kni_tx, burst
    <2>6. Len(t[rx_q(j)]) <= RingCap
      BY <2>1, <2>2 DEF Hop, nf_rx, rx_q, nf_tx, tx_q, tx, kni_tx, burst
    <2>7. Len(t[tx_q(j)]) <= RingCap
      BY <2>1, <2>2 DEF Hop, nf_rx, rx_q, nf_tx, tx_q, tx, kni_tx, burst
    <2>8. Len(t[kni_rx(j)]) <= KniFifo
      BY <2>1, <2>2 DEF Hop, nf_rx, rx_q, nf_tx, tx_q, tx, kni_tx, burst, kni_rx
    <2>9. Len(t[kni_tx(j)]) <= KniFifo
      BY <2>1, <2>2 DEF Hop, nf_rx, rx_q, nf_tx, tx_q, tx, kni_tx, burst
    <2> QED BY <2>3, <2>4, <2>5, <2>6, <2>7, <2>8, <2>9
  <1>2. ASSUME NEW j \in Lcore
        PROVE  Len(t[burst(j)]) <= PKT_BURST_SZ
    BY HopPlaces DEF Cap
  <1> QED BY <1>1, <1>2 DEF Cap

(* A handover frees what it does not hand over and keeps every packet on   *)
(* its path.                                                               *)
LEMMA HandoverGood ==
    ASSUME NEW k \in Port, NEW buf, NEW dst, NEW cap, Hop(k, buf, dst, cap),
           NEW s, NEW h, NEW r, Good(s, h), Egress(s, h, r),
           NEW t, NEW F, Handover(s, t, F, buf, dst, cap)
    PROVE  Good(t, Freed(h, F)) /\ Egress(t, Freed(h, F), r)
  <1>1. /\ Good(t, Freed(h, F))
        /\ \A p \in Place : \A m \in Range(t[p]) : Freed(h, F)[m] = h[m]
    <2>1. t \in Places /\ Own(t) /\ Held(t) = Held(s) \ F
      BY DEF Handover
    <2> QED BY <2>1, FreeGood
  <1>2. Egress(t, Freed(h, F), r)
    <2> SUFFICES ASSUME NEW p \in Place, NEW m \in Range(t[p])
                 PROVE  MayHold(p, r, h[m])
      BY <1>1 DEF Egress
    <2>1. \A x \in Place : \A y \in Range(s[x]) : MayHold(x, r, h[y])
      BY DEF Egress
    <2>2. CASE p # dst
      <3>1. m \in Range(s[p])
        BY <2>2 DEF Handover
      <3> QED BY <2>1, <3>1
    <2>3. CASE p = dst
      <3>1. m \in Range(s[dst]) \/ m \in Range(s[buf])
        BY <2>3 DEF Handover
      <3> QED BY <2>1, <2>3, <3>1, HopPlaces, HopMayHold
    <2> QED BY <2>2, <2>3
  <1> QED BY <1>1, <1>2

(* flush_port_queue, flush_nf_rx_queue, flush_nf_tx_queue preserve Core.   *)
LEMMA FlushCore ==
    ASSUME NEW k \in Port, NEW buf, NEW dst, NEW cap, Hop(k, buf, dst, cap),
           NEW s, NEW h, NEW r, Core(s, h, r),
           NEW t, NEW F, Handover(s, t, F, buf, dst, cap)
    PROVE  /\ Core(t, Freed(h, F), r)
           /\ \A l \in Lcore : t[burst(l)] = s[burst(l)]
  <1>1. \A l \in Lcore : t[burst(l)] = s[burst(l)]
    BY HopPlaces DEF Handover
  <1>2. Good(t, Freed(h, F)) /\ Egress(t, Freed(h, F), r)
    BY HandoverGood DEF Core
  <1>3. RxLcore \in Lcore
    BY DEF Lcore
  <1>4. /\ Cap(s) /\ Len(s[burst(RxLcore)]) <= PKT_BURST_SZ
        /\ Len(t[buf]) = 0 /\ Len(t[dst]) <= cap
        /\ \A p \in Place : p # buf /\ p # dst => t[p] = s[p]
    BY <1>3 DEF Core, Cap, Handover
  <1>5. Len(t[buf]) < PKT_BURST_SZ
    BY <1>4, SizeAssumption
  <1>6. Len(t[burst(RxLcore)]) <= PKT_BURST_SZ
    BY <1>1, <1>3, <1>4
  <1>7. Cap(t)
    BY <1>3, <1>4, <1>5, <1>6, HopCap
  <1> QED BY <1>1, <1>2, <1>7 DEF Core

(* After the store of an enqueue operation, u: a full packet_buf is handed *)
(* over at once, one that is not full is left alone.                       *)
FlushIfFull(u, t, h, g, F, buf, dst, cap) ==
    IF Len(u[buf]) = PKT_BURST_SZ
    THEN Handover(u, t, F, buf, dst, cap) /\ g = Freed(h, F)
    ELSE t = u /\ g = h

(* An enqueue operation as a whole: the first packet of core l's burst is  *)
(* stored in the packet_buf, which is flushed if that made it full.        *)
Enqueued(s, t, h, g, F, l, buf, dst, cap) ==
    FlushIfFull(MoveHead(s, burst(l), buf), t, h, g, F, buf, dst, cap)

(* The bursts of the cores other than l are untouched.                     *)
OthersKept(s, t, l) ==
    \A j \in Lcore : j # l => t[burst(j)] = s[burst(j)]

(* enqueue_port, enqueue_nf_rx and enqueue_nf_tx preserve Core: the first  *)
(* packet of a burst is stored in the packet_buf of a hop that it fits,    *)
(* and a full packet_buf is flushed at once.                               *)
LEMMA EnqueueCore ==
    ASSUME NEW k \in Port, NEW buf, NEW dst, NEW cap, Hop(k, buf, dst, cap),
           NEW s, NEW h, NEW r, Core(s, h, r), NEW l \in Lcore,
           s[burst(l)] # << >>, MayHold(buf, r, h[Head(s[burst(l)])]),
           NEW t, NEW g, NEW F, Enqueued(s, t, h, g, F, l, buf, dst, cap)
    PROVE  Core(t, g, r) /\ OthersKept(s, t, l)
  <1> DEFINE b == burst(l)
             u == MoveHead(s, b, buf)
  <1> IF Len(u[buf]) = PKT_BURST_SZ
      THEN Handover(u, t, F, buf, dst, cap) /\ g = Freed(h, F)
      ELSE t = u /\ g = h
    BY DEF Enqueued, FlushIfFull
  <1>1. b \in Place /\ buf \in Place /\ dst \in Place /\ b # buf /\ b # dst /\ buf # dst
    BY HopPlaces
  <1>2. s \in Places /\ Own(s) /\ s[b] \in Seq(Mbuf) /\ Len(s[b]) \in Nat /\ Len(s[buf]) \in Nat
    BY <1>1, PlaceSeq DEF Core, Good
  <1>3. 1 \in 0 .. Len(s[b]) /\ Len(s[b]) >= 1 /\ Range(Take(s[b], 1)) = {Head(s[b])}
    BY <1>2, TakeHead
  <1>4. \A j \in Lcore : j # l => burst(j) \in Place /\ burst(j) # b /\ burst(j) # buf /\ burst(j) # dst
    BY HopPlaces DEF burst
  <1>5. /\ \A p \in Place : \A m \in Range(s[p]) : MayHold(p, r, h[m])
        /\ MayHold(buf, r, h[Head(s[b])])
    BY DEF Core, Egress
  <1>6. Shifted(s, u, b, buf, 1)
    BY <1>1, <1>2, <1>3, ShiftLemma DEF MoveHead
  <1> HIDE DEF b, u
  <1>7. Good(u, h)
    BY <1>6 DEF Shifted, Core, Good
  <1>8. Egress(u, h, r)
    <2> SUFFICES ASSUME NEW p \in Place, NEW m \in Range(u[p])
                 PROVE  MayHold(p, r, h[m])
      BY DEF Egress
    <2>1. m \in Range(s[p]) \/ (p = buf /\ m = Head(s[b]))
      BY <1>3, <1>6 DEF Shifted
    <2> QED BY <1>5, <2>1
  <1>9. Good(t, g) /\ Egress(t, g, r)
    <2>1. CASE Len(u[buf]) = PKT_BURST_SZ
      BY <1>7, <1>8, <2>1, HandoverGood
    <2>2. CASE Len(u[buf]) # PKT_BURST_SZ
      BY <1>7, <1>8, <2>2
    <2> QED BY <2>1, <2>2
  <1>10. \A p \in Place : p # buf /\ p # dst => t[p] = u[p]
    BY DEF Handover
  <1>11. \A p \in Place : p # buf /\ p # dst /\ p # b => t[p] = s[p]
    BY <1>6, <1>10 DEF Shifted
  <1>12. Len(u[buf]) = Len(s[buf]) + 1 /\ Len(u[b]) = Len(s[b]) - 1 /\ u[dst] = s[dst]
    BY <1>1, <1>6 DEF Shifted
  <1>13. /\ Cap(s) /\ Len(s[buf]) < PKT_BURST_SZ /\ Len(s[dst]) <= cap
         /\ Len(s[b]) <= PKT_BURST_SZ
    BY DEF Core, Cap, Hop, b
  <1>14. Len(t[b]) <= PKT_BURST_SZ
    <2>1. Len(t[b]) = Len(s[b]) - 1
      BY <1>1, <1>10, <1>12
    <2> QED BY <1>2, <1>13, <2>1, SizeAssumption
  <1>15. Len(t[buf]) < PKT_BURST_SZ /\ Len(t[dst]) <= cap
    <2>1. CASE Len(u[buf]) = PKT_BURST_SZ
      <3>1. Len(t[buf]) = 0 /\ Len(t[dst]) <= cap
        BY <2>1 DEF Handover
      <3> QED BY <3>1, SizeAssumption
    <2>2. CASE Len(u[buf]) # PKT_BURST_SZ
      <3>1. t = u
        BY <2>2
      <3>2. Len(s[buf]) + 1 # PKT_BURST_SZ
        BY <1>12, <2>2
      <3>3. Len(s[buf]) + 1 < PKT_BURST_SZ
        BY <1>2, <1>13, <3>2, SizeAssumption
      <3> QED BY <1>12, <1>13, <3>1, <3>3
    <2> QED BY <2>1, <2>2
  <1>16. Cap(t)
    BY <1>11, <1>13, <1>14, <1>15, HopCap DEF b
  <1>17. OthersKept(s, t, l)
    BY <1>4, <1>11 DEF OthersKept
  <1> QED BY <1>9, <1>16, <1>17 DEF Core

(* A change after which no place but a burst is longer than before         *)
(* respects the capacities.                                                *)
LEMMA ShrinkCap ==
    ASSUME NEW s \in Places, Cap(s), NEW t \in Places, NEW l \in Lcore,
           \A p \in Place : p # burst(l) => Len(t[p]) <= Len(s[p]),
           Len(t[burst(l)]) <= PKT_BURST_SZ
    PROVE  Cap(t)
  <1>1. \A p \in Place : Len(s[p]) \in Nat /\ Len(t[p]) \in Nat
    BY PlaceSeq
  <1>2. PKT_BURST_SZ \in Nat /\ RingCap \in Nat /\ KniFifo \in Nat
    BY SizeAssumption
  <1>3. ASSUME NEW p \in Place, p # burst(l), NEW c \in Nat
        PROVE  /\ Len(s[p]) <= c => Len(t[p]) <= c
               /\ Len(s[p]) < c => Len(t[p]) < c
    <2>1. Len(s[p]) \in Nat /\ Len(t[p]) \in Nat /\ Len(t[p]) <= Len(s[p])
      BY <1>1, <1>3
    <2> QED BY <2>1
  <1>4. ASSUME NEW j \in Port
        PROVE  /\ nf_rx(j) \in Place \ {burst(l)} /\ nf_tx(j) \in Place \ {burst(l)}
               /\ tx(j) \in Place \ {burst(l)} /\ rx_q(j) \in Place \ {burst(l)}
               /\ tx_q(j) \in Place \ {burst(l)} /\ kni_rx(j) \in Place \ {burst(l)}
               /\ kni_tx(j) \in Place \ {burst(l)}
    BY DEF Place, nf_rx, rx_q, nf_tx, tx_q, tx, kni_tx, kni_rx, burst
  <1>5. \A j \in Lcore : burst(j) \in Place
    BY DEF Lcore, Place, burst
  <1> QED BY <1>2, <1>3, <1>4, <1>5 DEF Cap

(* Only what the Rx burst may hold depends on where the Rx lcore is.       *)
LEMMA MayHoldElsewhere ==
    ASSUME NEW p, p # burst(RxLcore), NEW r, NEW r2, NEW h, MayHold(p, r, h)
    PROVE  MayHold(p, r2, h)
  BY Zenon DEF MayHold

(* A burst receive into an empty pkts_burst preserves Core, when what the  *)
(* source may hold, the burst may hold for the lcores' next positions r2.  *)
LEMMA RecvCore ==
    ASSUME NEW s, NEW h, NEW r, Core(s, h, r), NEW r2, NEW l \in Lcore,
           NEW a \in Place, a # burst(l), s[burst(l)] = << >>,
           r2 = r \/ l = RxLcore,
           \A x : MayHold(a, r, x) => MayHold(burst(l), r2, x)
    PROVE  LET t == RecvBurst(s, a, burst(l))
           IN  /\ Core(t, h, r2)
               /\ \A p \in Place : p # a /\ p # burst(l) => t[p] = s[p]
  <1> DEFINE b == burst(l)
             n == Least(Len(s[a]), PKT_BURST_SZ)
             t == RecvBurst(s, a, b)
  <1>1. b \in Place
    BY DEF Lcore, Place, burst
  <1>2. s \in Places /\ Own(s) /\ Len(s[a]) \in Nat /\ Len(s[b]) = 0 /\ PKT_BURST_SZ \in Nat
    BY <1>1, PlaceSeq, SizeAssumption, EmptySeq DEF Core, Good
  <1>3. n \in Nat /\ n <= Len(s[a]) /\ n <= PKT_BURST_SZ
    <2> DEFINE x == Len(s[a])
    <2>1. x \in Nat
      BY <1>2
    <2> HIDE DEF x
    <2>2. Least(x, PKT_BURST_SZ) \in Nat /\ Least(x, PKT_BURST_SZ) <= x
          /\ Least(x, PKT_BURST_SZ) <= PKT_BURST_SZ
      BY <1>2, <2>1 DEF Least
    <2> QED BY <2>2 DEF x
  <1>4. n \in 0 .. Len(s[a])
    BY <1>2, <1>3
  <1>5. b = burst(l) /\ t = Shift(s, a, b, n)
    BY DEF RecvBurst
  <1> HIDE DEF b, n, t
  <1>6. Shifted(s, t, a, b, n)
    BY <1>1, <1>2, <1>4, <1>5, ShiftLemma
  <1>7. t \in Places /\ Good(t, h)
    BY <1>6 DEF Shifted, Core, Good
  <1>8. Cap(t)
    <2>1. /\ Len(t[a]) = Len(s[a]) - n /\ Len(t[b]) = Len(s[b]) + n
          /\ \A p \in Place : p # a /\ p # b => t[p] = s[p]
      BY <1>6 DEF Shifted
    <2>2. Len(t[a]) <= Len(s[a]) /\ Len(t[b]) <= PKT_BURST_SZ
      BY <1>2, <1>3, <2>1
    <2>3. \A p \in Place : Len(s[p]) \in Nat
      BY <1>2, PlaceSeq
    <2>4. \A p \in Place : p # b => Len(t[p]) <= Len(s[p])
      BY <2>1, <2>2, <2>3
    <2> QED BY <1>2, <1>5, <1>7, <2>2, <2>4, ShrinkCap DEF Core
  <1>9. Egress(t, h, r2)
    <2> SUFFICES ASSUME NEW p \in Place, NEW m \in Range(t[p])
                 PROVE  MayHold(p, r2, h[m])
      BY DEF Egress
    <2>1. \A x \in Place : \A y \in Range(s[x]) : MayHold(x, r, h[y])
      BY DEF Core, Egress
    <2>2. CASE p = b
      <3>1. Range(s[b]) = {}
        BY <1>5, EmptySeq DEF Range
      <3>2. m \in Range(s[a])
        BY <1>6, <2>2, <3>1 DEF Shifted
      <3> QED BY <1>5, <2>1, <2>2, <3>2
    <2>3. CASE p # b
      <3>1. m \in Range(s[p])
        BY <1>6, <2>3 DEF Shifted
      <3>2. MayHold(p, r, h[m])
        BY <2>1, <3>1
      <3>3. CASE r2 = r
        BY <3>2, <3>3
      <3>4. CASE l = RxLcore
        <4>1. p # burst(RxLcore)
          BY <1>5, <2>3, <3>4
        <4> QED BY <3>2, <4>1, MayHoldElsewhere
      <3> QED BY <3>3, <3>4
    <2> QED BY <2>2, <2>3
  <1>10. Core(t, h, r2) /\ \A p \in Place : p # a /\ p # b => t[p] = s[p]
    BY <1>6, <1>7, <1>8, <1>9 DEF Core, Shifted
  <1> QED BY <1>10 DEF t, b

(* Taking the first packet of a place out and freeing it preserves Core.   *)
LEMMA DropCore ==
    ASSUME NEW s, NEW h, NEW r, Core(s, h, r), NEW a \in Place, s[a] # << >>
    PROVE  LET t == Cut(s, a, 1)
           IN  /\ Core(t, Freed(h, {Head(s[a])}), r)
               /\ \A p \in Place : p # a => t[p] = s[p]
  <1> DEFINE t == Cut(s, a, 1)
             g == Freed(h, {Head(s[a])})
  <1>1. s \in Places /\ Own(s) /\ s[a] \in Seq(Mbuf) /\ Len(s[a]) \in Nat
    BY PlaceSeq DEF Core, Good
  <1>2. 1 \in 0 .. Len(s[a]) /\ Range(Take(s[a], 1)) = {Head(s[a])}
    BY <1>1, TakeHead
  <1>3. Removed(s, t, a, 1)
    BY <1>1, <1>2, CutLemma
  <1> HIDE DEF t, g
  <1>4. Good(t, g) /\ \A p \in Place : \A m \in Range(t[p]) : g[m] = h[m]
    BY <1>2, <1>3, FreeGood DEF Core, Removed, g
  <1>5. Cap(t)
    <2>1. t \in Places /\ Len(t[a]) = Len(s[a]) - 1 /\ \A p \in Place : p # a => t[p] = s[p]
      BY <1>3 DEF Removed
    <2>2. Len(t[a]) <= Len(s[a])
      BY <1>1, <2>1
    <2>3. \A p \in Place : Len(s[p]) \in Nat
      BY <1>1, PlaceSeq
    <2>4. \A p \in Place : Len(t[p]) <= Len(s[p])
      BY <2>1, <2>2, <2>3
    <2>5. RxLcore \in Lcore /\ burst(RxLcore) \in Place
      BY DEF Lcore, Place, burst
    <2>6. Len(s[burst(RxLcore)]) <= PKT_BURST_SZ /\ PKT_BURST_SZ \in Nat
      BY <2>5, SizeAssumption DEF Core, Cap
    <2>7. Len(t[burst(RxLcore)]) \in Nat
      BY <2>1, <2>5, PlaceSeq
    <2>8. Len(t[burst(RxLcore)]) <= PKT_BURST_SZ
      BY <2>3, <2>4, <2>5, <2>6, <2>7
    <2> QED BY <1>1, <2>1, <2>4, <2>5, <2>8, ShrinkCap DEF Core
  <1>6. Egress(t, g, r)
    BY <1>3, <1>4 DEF Core, Egress, Removed
  <1> QED BY <1>3, <1>4, <1>5, <1>6 DEF Core, Removed, t, g

(* A container's new packet preserves Core.                                *)
LEMMA SendCore ==
    ASSUME NEW s, NEW h, NEW r, Core(s, h, r), NEW k \in Port, NEW m \in Mbuf,
           NEW x \in Hdr, h[m] = NoHdr, Len(s[kni_rx(k)]) < KniFifo
    PROVE  LET a == kni_rx(k)
               t == [s EXCEPT ![a] = Append(s[a], m)]
           IN  /\ Core(t, [h EXCEPT ![m] = x], r)
               /\ \A p \in Place : p # a => t[p] = s[p]
  <1> DEFINE a == kni_rx(k)
             t == [s EXCEPT ![a] = Append(s[a], m)]
             g == [h EXCEPT ![m] = x]
  <1>1. a \in Place
    BY DEF Place, kni_rx
  <1>2. /\ s \in Places /\ Own(s) /\ s[a] \in Seq(Mbuf) /\ Len(s[a]) \in Nat
        /\ h \in [Mbuf -> Hdr \cup {NoHdr}]
        /\ \A y \in Mbuf : (h[y] # NoHdr) <=> (y \in Held(s))
    BY <1>1, PlaceSeq DEF Core, Good
  <1>3. Append(s[a], m) \in Seq(Mbuf) /\ Len(Append(s[a], m)) = Len(s[a]) + 1
    BY <1>2, AppendProperties
  <1>4. /\ t \in Places /\ t[a] = Append(s[a], m)
        /\ \A p \in Place : p # a => t[p] = s[p]
    BY <1>1, <1>2, <1>3 DEF Places
  <1>5. m \notin Held(s)
    BY <1>2
  <1>6. Range(t[a]) = Range(s[a]) \cup {m} /\ IsInjective(t[a])
    <2>1. m \notin Range(s[a]) /\ IsInjective(s[a])
      BY <1>1, <1>2, <1>5 DEF Held, Own
    <2> QED BY <1>2, <1>4, <2>1, AppendFresh
  <1> HIDE DEF a, t
  <1>7. Own(t)
    <2>1. \A p \in Place : m \notin Range(s[p])
      BY <1>5 DEF Held
    <2>2. \A p \in Place : IsInjective(t[p])
      BY <1>2, <1>4, <1>6, Zenon DEF Own
    <2>3. ASSUME NEW p1 \in Place, NEW p2 \in Place, p1 # p2
          PROVE  Range(t[p1]) \cap Range(t[p2]) = {}
      <3>1. Range(s[p1]) \cap Range(s[p2]) = {}
        BY <1>2, <2>3, Zenon DEF Own
      <3> QED BY <1>4, <1>6, <2>1, <2>3, <3>1, Zenon
    <2> QED BY <2>2, <2>3 DEF Own
  <1>8. Held(t) = Held(s) \cup {m}
    <2>1. \A y : y \in Held(t) => y \in Held(s) \cup {m}
      BY <1>4, <1>6, Zenon DEF Held
    <2>2. \A y : y \in Held(s) \cup {m} => y \in Held(t)
      BY <1>1, <1>4, <1>6, Zenon DEF Held
    <2> QED BY <2>1, <2>2
  <1>9. Good(t, g)
    <2>1. g \in [Mbuf -> Hdr \cup {NoHdr}] /\ g[m] = x /\ \A y \in Mbuf : y # m => g[y] = h[y]
      BY <1>2
    <2>2. x # NoHdr
      BY HdrAssumption
    <2>3. \A y \in Mbuf : (g[y] # NoHdr) <=> (y \in Held(t))
      BY <1>2, <1>8, <2>1, <2>2
    <2> QED BY <1>4, <1>7, <2>1, <2>3 DEF Good
  <1>10. Cap(t)
    <2>1. Len(t[a]) <= KniFifo
      <3>1. Len(t[a]) = Len(s[a]) + 1
        BY <1>3, <1>4
      <3>2. Len(s[a]) < KniFifo /\ KniFifo \in Nat
        BY SizeAssumption DEF a
      <3> QED BY <1>2, <3>1, <3>2
    <2>2. ASSUME NEW j \in Port
          PROVE  /\ nf_rx(j) \in Place \ {a} /\ nf_tx(j) \in Place \ {a}
                 /\ tx(j) \in Place \ {a} /\ rx_q(j) \in Place \ {a}
                 /\ tx_q(j) \in Place \ {a} /\ kni_rx(j) \in Place
                 /\ kni_tx(j) \in Place \ {a}
      BY DEF Place, nf_rx, rx_q, nf_tx, tx_q, tx, kni_tx, kni_rx, a
    <2>3. \A j \in Lcore : burst(j) \in Place \ {a}
      BY DEF Lcore, Place, burst, kni_rx, a
    <2>4. \A p \in Place : Len(t[p]) = Len(s[p]) \/ (p = a /\ Len(t[p]) <= KniFifo)
      BY <1>4, <2>1
    <2> QED BY <2>2, <2>3, <2>4, Zenon DEF Core, Cap
  <1>11. Egress(t, g, r)
    <2> SUFFICES ASSUME NEW p \in Place, NEW y \in Range(t[p])
                 PROVE  MayHold(p, r, g[y])
      BY DEF Egress
    <2>1. CASE p = a
      BY <2>1, Zenon DEF MayHold, a, kni_rx, burst
    <2>2. CASE p # a
      <3>1. y \in Range(s[p]) /\ y \in Mbuf /\ y # m
        BY <1>2, <1>4, <1>5, <2>2, PlaceSeq DEF Held
      <3>2. g[y] = h[y]
        BY <1>2, <3>1
      <3> QED BY <3>1, <3>2 DEF Core, Egress
    <2> QED BY <2>1, <2>2
  <1> QED BY <1>4, <1>9, <1>10, <1>11 DEF Core, t, a

(* While its burst is empty the Rx lcore may move on.                      *)
LEMMA RxMoves ==
    ASSUME NEW s, NEW h, NEW r, Core(s, h, r), s[burst(RxLcore)] = << >>, NEW r2
    PROVE  Core(s, h, r2)
  <1>1. Range(s[burst(RxLcore)]) = {}
    BY EmptySeq DEF Range
  <1>2. Egress(s, h, r2)
    BY <1>1, MayHoldElsewhere DEF Core, Egress
  <1> QED BY <1>2 DEF Core

(* Every packet is routed to a port or to UNKNOWN_PORT.                    *)
LEMMA NextHop ==
    ASSUME NEW h \in Hdr
    PROVE  get_next_hop(h) \in Port \cup {UNKNOWN_PORT}
  <1>1. KNI_KTHREAD \in Nat /\ 0 \in Port
    BY SizeAssumption DEF Port
  <1>2. \A i \in Port : KniIp(i) - KniIp(0) = i
    BY <1>1 DEF Port, KniIp
  <1>3. routing_table(h.dst) \in Port \cup {UNKNOWN_PORT}
    BY <1>1, <1>2 DEF routing_table
  <1> QED BY <1>3 DEF get_next_hop

(***************************************************************************)
(* The inductive invariant.                                                *)
(***************************************************************************)
Control ==
    /\ rx \in [step : RxSteps, idx : Port, round : {1, 2}]
    /\ cp \in [Port -> CpSteps]
    /\ kni_stop \in BOOLEAN
    /\ released \in BOOLEAN

(* A pkts_burst array holds packets only while its lcore works on it.      *)
BurstIdle ==
    /\ rx.step \notin {"route", "forward"} => q[burst(RxLcore)] = << >>
    /\ \A c \in Port : cp[c] # "process" => q[burst(c)] = << >>

IInv == Core(q, hdr, rx) /\ Control /\ BurstIdle

(* The initial state satisfies the invariant: all places are empty.        *)
LEMMA InitIInv == Init => IInv
  <1> SUFFICES ASSUME Init
               PROVE  IInv
    OBVIOUS
  <1>1. \A p \in Place : q[p] = << >> /\ Len(q[p]) = 0 /\ Range(q[p]) = {}
    BY EmptySeq DEF Init, Range
  <1>2. q \in Places /\ Own(q)
    <2>1. q \in Places
      BY EmptySeq DEF Init, Places
    <2>2. IsInjective(<< >>)
      BY EmptySeq DEF IsInjective
    <2> QED BY <1>1, <2>1, <2>2 DEF Own
  <1>3. Held(q) = {}
    BY <1>1 DEF Held
  <1>4. Good(q, hdr)
    BY <1>2, <1>3 DEF Good, Init
  <1>5. \A k \in Port : /\ nf_rx(k) \in Place /\ nf_tx(k) \in Place
                        /\ tx(k) \in Place /\ rx_q(k) \in Place
                        /\ tx_q(k) \in Place /\ kni_rx(k) \in Place
                        /\ kni_tx(k) \in Place
    BY DEF Place, nf_rx, rx_q, nf_tx, tx_q, tx, kni_tx, kni_rx
  <1>6. \A l \in Lcore : burst(l) \in Place
    BY DEF Lcore, Place, burst
  <1>7. 0 < PKT_BURST_SZ /\ 0 <= PKT_BURST_SZ /\ 0 <= RingCap /\ 0 <= KniFifo
    BY SizeAssumption
  <1>8. Cap(q)
    BY <1>1, <1>5, <1>6, <1>7 DEF Cap
  <1>9. Egress(q, hdr, rx)
    BY <1>1 DEF Egress
  <1>10. Control
    <2>1. 0 \in Port
      BY SizeAssumption DEF Port
    <2> QED BY <2>1, Zenon DEF Init, Control, RxSteps, CpSteps
  <1>11. BurstIdle
    BY <1>1, <1>6 DEF BurstIdle, Lcore
  <1> QED BY <1>4, <1>8, <1>9, <1>10, <1>11 DEF IInv, Core

(* Every lcore's burst array is a place, and different lcores have         *)
(* different ones.                                                         *)
LEMMA Bursts ==
    /\ RxLcore \in Lcore /\ RxLcore \notin Port
    /\ \A c \in Port : c \in Lcore
    /\ \A l \in Lcore : burst(l) \in Place
    /\ \A l, j \in Lcore : l # j => burst(l) # burst(j)
  BY SizeAssumption DEF Lcore, Port, RxLcore, Place, burst

(* Where the Rx lcore is after the body of a loop over the ports.          *)
LEMMA NextIdxType ==
    ASSUME rx \in [step : RxSteps, idx : Port, round : {1, 2}],
           NEW step \in RxSteps, NEW after \in RxSteps, NEW round \in {1, 2},
           NextIdx(step, after, round)
    PROVE  /\ rx' \in [step : RxSteps, idx : Port, round : {1, 2}]
           /\ rx'.step \in {step, after}
  <1>1. 0 \in Port /\ rx.idx \in Port /\ rx.round \in {1, 2}
    BY SizeAssumption DEF Port
  <1>2. rx.idx + 1 < KNI_KTHREAD => rx.idx + 1 \in Port
    BY <1>1, SizeAssumption DEF Port
  <1> QED BY <1>1, <1>2 DEF NextIdx, RxAt

(* The three flushes, as steps of the state.                               *)
LEMMA FlushStep ==
    ASSUME Core(q, hdr, rx), NEW k \in Port,
           flush_port_queue(q, k) \/ flush_nf_rx_queue(q, k) \/ flush_nf_tx_queue(q, k)
    PROVE  /\ Core(q', hdr', rx)
           /\ \A l \in Lcore : q'[burst(l)] = q[burst(l)]
  <1>1. q \in Places /\ Own(q) /\ Cap(q)
    BY DEF Core, Good
  <1>2. CASE flush_port_queue(q, k)
    <2>1. Hop(k, tx(k), kni_tx(k), KniFifo)
      BY DEF Hop
    <2>2. Handover(q, q', FreedByKni(q, k), tx(k), kni_tx(k), KniFifo)
      BY <1>1, <1>2, FlushKniHandover DEF Cap, flush_port_queue
    <2>3. hdr' = Freed(hdr, FreedByKni(q, k))
      BY <1>2 DEF flush_port_queue, Free, Freed
    <2> QED BY <2>1, <2>2, <2>3, FlushCore
  <1>3. CASE flush_nf_rx_queue(q, k)
    <2>1. Hop(k, nf_rx(k), rx_q(k), RingCap)
      BY DEF Hop
    <2>2. Handover(q, q', FreedByRing(q, nf_rx(k), rx_q(k)), nf_rx(k), rx_q(k), RingCap)
      BY <1>1, <1>3, <2>1, HopPlaces, FlushRingHandover DEF Cap, flush_nf_rx_queue
    <2>3. hdr' = Freed(hdr, FreedByRing(q, nf_rx(k), rx_q(k)))
      BY <1>3 DEF flush_nf_rx_queue, Free, Freed
    <2> QED BY <2>1, <2>2, <2>3, FlushCore
  <1>4. CASE flush_nf_tx_queue(q, k)
    <2>1. Hop(k, nf_tx(k), tx_q(k), RingCap)
      BY DEF Hop
    <2>2. Handover(q, q', FreedByRing(q, nf_tx(k), tx_q(k)), nf_tx(k), tx_q(k), RingCap)
      BY <1>1, <1>4, <2>1, HopPlaces, FlushRingHandover DEF Cap, flush_nf_tx_queue
    <2>3. hdr' = Freed(hdr, FreedByRing(q, nf_tx(k), tx_q(k)))
      BY <1>4 DEF flush_nf_tx_queue, Free, Freed
    <2> QED BY <2>1, <2>2, <2>3, FlushCore
  <1> QED BY <1>2, <1>3, <1>4

(* Storing the first packet of a burst in the packet_buf of a hop leaves   *)
(* the destination of the hop as it was.                                   *)
LEMMA StoreHead ==
    ASSUME Core(q, hdr, rx), NEW l \in Lcore, q[burst(l)] # << >>, NEW k \in Port,
           NEW buf, NEW dst, NEW cap, Hop(k, buf, dst, cap)
    PROVE  LET u == MoveHead(q, burst(l), buf)
           IN  u \in Places /\ Own(u) /\ Len(u[dst]) <= cap
  <1> DEFINE b == burst(l)
             u == MoveHead(q, b, buf)
  <1>1. b \in Place /\ buf \in Place /\ dst \in Place /\ b # buf /\ b # dst /\ buf # dst
    BY HopPlaces
  <1>2. q \in Places /\ Own(q) /\ q[b] \in Seq(Mbuf) /\ Len(q[dst]) <= cap
    BY <1>1, PlaceSeq DEF Core, Good, Cap, Hop
  <1>3. 1 \in 0 .. Len(q[b])
    BY <1>2, TakeHead
  <1>4. Shifted(q, u, b, buf, 1)
    BY <1>1, <1>2, <1>3, ShiftLemma DEF MoveHead
  <1> HIDE DEF b, u
  <1>5. u \in Places /\ Own(u) /\ Len(u[dst]) <= cap
    BY <1>1, <1>2, <1>4 DEF Shifted
  <1> QED BY <1>5 DEF u, b

(* The three enqueue operations, as steps of the state: a packet goes to a *)
(* packet_buf that may hold it.                                            *)
LEMMA EnqueueStep ==
    ASSUME Core(q, hdr, rx), NEW l \in Lcore, q[burst(l)] # << >>, NEW k \in Port,
           \/ enqueue_port(l, k) /\ MayHold(tx(k), rx, hdr[Head(q[burst(l)])])
           \/ enqueue_nf_rx(l, k) /\ MayHold(nf_rx(k), rx, hdr[Head(q[burst(l)])])
           \/ enqueue_nf_tx(l, k) /\ MayHold(nf_tx(k), rx, hdr[Head(q[burst(l)])])
    PROVE  /\ Core(q', hdr', rx)
           /\ \A j \in Lcore : j # l => q'[burst(j)] = q[burst(j)]
  <1>1. CASE enqueue_port(l, k) /\ MayHold(tx(k), rx, hdr[Head(q[burst(l)])])
    <2> DEFINE u == MoveHead(q, burst(l), tx(k))
               F == FreedByKni(u, k)
    <2>1. Hop(k, tx(k), kni_tx(k), KniFifo)
      BY DEF Hop
    <2>2. u \in Places /\ Own(u) /\ Len(u[kni_tx(k)]) <= KniFifo
      BY <2>1, StoreHead
    <2>3. IF Len(u[tx(k)]) = PKT_BURST_SZ
          THEN q' = FlushKni(u, k) /\ hdr' = Freed(hdr, F)
          ELSE q' = u /\ hdr' = hdr
      BY <1>1 DEF enqueue_port, flush_port_queue, Free, Freed
    <2> HIDE DEF u
    <2>4. FlushIfFull(u, q', hdr, hdr', F, tx(k), kni_tx(k), KniFifo)
      BY <2>2, <2>3, FlushKniHandover DEF FlushIfFull
    <2> HIDE DEF F
    <2>5. Enqueued(q, q', hdr, hdr', F, l, tx(k), kni_tx(k), KniFifo)
      BY <2>4 DEF Enqueued, u
    <2>6. MayHold(tx(k), rx, hdr[Head(q[burst(l)])])
      BY <1>1
    <2>7. Core(q', hdr', rx) /\ OthersKept(q, q', l)
      BY <2>1, <2>5, <2>6, EnqueueCore, ZenonT(30)
    <2> QED BY <2>7 DEF OthersKept
  <1>2. CASE enqueue_nf_rx(l, k) /\ MayHold(nf_rx(k), rx, hdr[Head(q[burst(l)])])
    <2> DEFINE u == MoveHead(q, burst(l), nf_rx(k))
               F == FreedByRing(u, nf_rx(k), rx_q(k))
    <2>1. Hop(k, nf_rx(k), rx_q(k), RingCap)
      BY DEF Hop
    <2>2. u \in Places /\ Own(u) /\ Len(u[rx_q(k)]) <= RingCap
      BY <2>1, StoreHead
    <2>3. IF Len(u[nf_rx(k)]) = PKT_BURST_SZ
          THEN q' = FlushRing(u, nf_rx(k), rx_q(k)) /\ hdr' = Freed(hdr, F)
          ELSE q' = u /\ hdr' = hdr
      BY <1>2 DEF enqueue_nf_rx, flush_nf_rx_queue, Free, Freed
    <2> HIDE DEF u
    <2>4. FlushIfFull(u, q', hdr, hdr', F, nf_rx(k), rx_q(k), RingCap)
      BY <2>1, <2>2, <2>3, HopPlaces, FlushRingHandover DEF FlushIfFull
    <2> HIDE DEF F
    <2>5. Enqueued(q, q', hdr, hdr', F, l, nf_rx(k), rx_q(k), RingCap)
      BY <2>4 DEF Enqueued, u
    <2>6. MayHold(nf_rx(k), rx, hdr[Head(q[burst(l)])])
      BY <1>2
    <2>7. Core(q', hdr', rx) /\ OthersKept(q, q', l)
      BY <2>1, <2>5, <2>6, EnqueueCore, ZenonT(30)
    <2> QED BY <2>7 DEF OthersKept
  <1>3. CASE enqueue_nf_tx(l, k) /\ MayHold(nf_tx(k), rx, hdr[Head(q[burst(l)])])
    <2> DEFINE u == MoveHead(q, burst(l), nf_tx(k))
               F == FreedByRing(u, nf_tx(k), tx_q(k))
    <2>1. Hop(k, nf_tx(k), tx_q(k), RingCap)
      BY DEF Hop
    <2>2. u \in Places /\ Own(u) /\ Len(u[tx_q(k)]) <= RingCap
      BY <2>1, StoreHead
    <2>3. IF Len(u[nf_tx(k)]) = PKT_BURST_SZ
          THEN q' = FlushRing(u, nf_tx(k), tx_q(k)) /\ hdr' = Freed(hdr, F)
          ELSE q' = u /\ hdr' = hdr
      BY <1>3 DEF enqueue_nf_tx, flush_nf_tx_queue, Free, Freed
    <2> HIDE DEF u
    <2>4. FlushIfFull(u, q', hdr, hdr', F, nf_tx(k), tx_q(k), RingCap)
      BY <2>1, <2>2, <2>3, HopPlaces, FlushRingHandover DEF FlushIfFull
    <2> HIDE DEF F
    <2>5. Enqueued(q, q', hdr, hdr', F, l, nf_tx(k), tx_q(k), RingCap)
      BY <2>4, Zenon DEF Enqueued, u
    <2>6. MayHold(nf_tx(k), rx, hdr[Head(q[burst(l)])])
      BY <1>3
    <2>7. Core(q', hdr', rx) /\ OthersKept(q, q', l)
      BY <2>1, <2>5, <2>6, EnqueueCore, ZenonT(30)
    <2> QED BY <2>7 DEF OthersKept
  <1> QED BY <1>1, <1>2, <1>3

(* rte_pktmbuf_free of the first packet of a burst, as a step of the state *)
LEMMA FreeHeadStep ==
    ASSUME Core(q, hdr, rx), NEW l \in Lcore, q[burst(l)] # << >>, FreeHead(l)
    PROVE  /\ Core(q', hdr', rx)
           /\ \A j \in Lcore : j # l => q'[burst(j)] = q[burst(j)]
  <1>1. burst(l) \in Place /\ \A j \in Lcore : j # l => burst(j) \in Place /\ burst(j) # burst(l)
    BY Bursts
  <1>2. q' = Cut(q, burst(l), 1) /\ hdr' = Freed(hdr, {Head(q[burst(l)])})
    BY DEF FreeHead, Free, Freed
  <1>3. /\ Core(q', hdr', rx)
        /\ \A p \in Place : p # burst(l) => q'[p] = q[p]
    BY <1>1, <1>2, DropCore
  <1> QED BY <1>1, <1>3

(* The packet at the head of a burst has a header.                         *)
LEMMA HeadHdr ==
    ASSUME Core(q, hdr, rx), NEW l \in Lcore, q[burst(l)] # << >>
    PROVE  /\ Head(q[burst(l)]) \in Range(q[burst(l)])
           /\ hdr[Head(q[burst(l)])] \in Hdr
           /\ MayHold(burst(l), rx, hdr[Head(q[burst(l)])])
  <1> DEFINE b == burst(l)
             m == Head(q[b])
  <1>1. b \in Place
    BY Bursts
  <1>2. q \in Places /\ q[b] \in Seq(Mbuf) /\ Range(q[b]) \subseteq Mbuf
    BY <1>1, PlaceSeq DEF Core, Good
  <1>3. m \in Range(q[b])
    <2>1. Len(q[b]) \in Nat /\ Len(q[b]) >= 1 /\ DOMAIN q[b] = 1 .. Len(q[b])
      BY <1>2, TakeHead, LenProperties
    <2>2. m = q[b][1] /\ 1 \in DOMAIN q[b]
      BY <1>2, <2>1, HeadTailProperties
    <2> QED BY <2>2 DEF Range
  <1>4. m \in Mbuf /\ m \in Held(q)
    BY <1>1, <1>2, <1>3 DEF Held
  <1>5. hdr[m] \in Hdr
    BY <1>4 DEF Core, Good
  <1> QED BY <1>1, <1>3, <1>5 DEF Core, Egress

(* Every step of the Rx lcore preserves the invariant.                     *)
LEMMA RxStepIInv ==
    ASSUME IInv, RxStep
    PROVE  IInv'
  <1>1. /\ Core(q, hdr, rx) /\ rx \in [step : RxSteps, idx : Port, round : {1, 2}]
        /\ rx.idx \in Port /\ rx.round \in {1, 2}
        /\ cp \in [Port -> CpSteps] /\ kni_stop \in BOOLEAN /\ released \in BOOLEAN
        /\ rx.step \notin {"route", "forward"} => q[burst(RxLcore)] = << >>
        /\ \A c \in Port : cp[c] # "process" => q[burst(c)] = << >>
    BY DEF IInv, Control, BurstIdle
  <1>2. cp' = cp /\ kni_stop' = kni_stop /\ released' = released
    BY DEF RxStep, RxLoop, RxKniBurst, RxRoute, RxKniDone, RxFlushPort,
           RxFlushNf, RxCoprocBurst, RxForward, RxCoprocDone
  <1>3. SUFFICES /\ Core(q', hdr', rx')
                 /\ rx' \in [step : RxSteps, idx : Port, round : {1, 2}]
                 /\ rx'.step \notin {"route", "forward"} => q'[burst(RxLcore)] = << >>
                 /\ \A j \in Lcore : j # RxLcore => q'[burst(j)] = q[burst(j)]
    BY <1>1, <1>2, Bursts DEF IInv, Control, BurstIdle
  <1>4. 0 \in Port
    BY SizeAssumption DEF Port
  <1>5. CASE RxLoop
    BY <1>1, <1>4, <1>5, RxMoves DEF RxLoop, RxAt, RxSteps
  <1>6. CASE RxKniBurst
    <2> DEFINE a == kni_rx(rx.idx)
    <2>1. /\ q' = RecvBurst(q, a, burst(RxLcore)) /\ hdr' = hdr
          /\ rx' = [step |-> "route", idx |-> rx.idx, round |-> 1]
          /\ q[burst(RxLcore)] = << >>
      BY <1>1, <1>6 DEF RxKniBurst, RxAt
    <2>2. a \in Place /\ \A l \in Lcore : a # burst(l)
      BY <1>1 DEF Place, kni_rx, burst
    <2>3. \A x : MayHold(burst(RxLcore), rx', x)
      BY <2>1, Zenon DEF MayHold, burst
    <2> HIDE DEF a
    <2>4. /\ Core(q', hdr, rx')
          /\ \A p \in Place : p # a /\ p # burst(RxLcore) => q'[p] = q[p]
      BY <1>1, <2>1, <2>2, <2>3, Bursts, RecvCore
    <2>5. rx' \in [step : RxSteps, idx : Port, round : {1, 2}] /\ rx'.step = "route"
      BY <1>1, <2>1 DEF RxSteps
    <2> QED BY <2>1, <2>2, <2>4, <2>5, Bursts
  <1>7. CASE RxRoute
    <2> DEFINE h == hdr[Head(q[burst(RxLcore)])]
               port == get_next_hop(h)
    <2>1. /\ rx.step = "route" /\ q[burst(RxLcore)] # << >> /\ rx' = rx
          /\ IF port = UNKNOWN_PORT THEN FreeHead(RxLcore)
             ELSE IF DISABLE_NF THEN enqueue_port(RxLcore, port)
                                ELSE enqueue_nf_rx(RxLcore, port)
      BY <1>7 DEF RxRoute
    <2>2. h \in Hdr
      BY <1>1, <2>1, Bursts, HeadHdr
    <2>3. port \in Port \cup {UNKNOWN_PORT}
      BY <2>2, NextHop
    <2>4. /\ DISABLE_NF => MayHold(tx(port), rx, h)
          /\ MayHold(nf_rx(port), rx, h)
      BY Zenon DEF MayHold, tx, nf_rx, burst
    <2> HIDE DEF port
    <2>5. /\ Core(q', hdr', rx)
          /\ \A j \in Lcore : j # RxLcore => q'[burst(j)] = q[burst(j)]
      <3>1. CASE port = UNKNOWN_PORT
        BY <1>1, <2>1, <3>1, Bursts, FreeHeadStep
      <3>2. CASE port # UNKNOWN_PORT /\ DISABLE_NF
        <4>1. port \in Port /\ enqueue_port(RxLcore, port)
          BY <2>1, <2>3, <3>2
        <4> QED BY <1>1, <2>1, <2>4, <3>2, <4>1, Bursts, EnqueueStep
      <3>3. CASE port # UNKNOWN_PORT /\ ~DISABLE_NF
        <4>1. port \in Port /\ enqueue_nf_rx(RxLcore, port)
          BY <2>1, <2>3, <3>3
        <4> QED BY <1>1, <2>1, <2>4, <4>1, Bursts, EnqueueStep
      <3> QED BY <3>1, <3>2, <3>3
    <2> QED BY <1>1, <2>1, <2>5
  <1>8. CASE RxKniDone
    <2>1. /\ q' = q /\ hdr' = hdr /\ q[burst(RxLcore)] = << >>
          /\ rx' \in [step : RxSteps, idx : Port, round : {1, 2}]
      BY <1>1, <1>8, NextIdxType DEF RxKniDone, RxSteps
    <2> QED BY <1>1, <2>1, RxMoves
  <1>9. CASE RxFlushPort
    <2>1. /\ flush_port_queue(q, rx.idx) /\ q[burst(RxLcore)] = << >>
          /\ rx' \in [step : RxSteps, idx : Port, round : {1, 2}]
      BY <1>1, <1>9, NextIdxType DEF RxFlushPort, RxSteps
    <2>2. /\ Core(q', hdr', rx)
          /\ \A l \in Lcore : q'[burst(l)] = q[burst(l)]
      BY <1>1, <2>1, FlushStep
    <2>3. q'[burst(RxLcore)] = << >>
      BY <2>1, <2>2, Bursts
    <2> QED BY <2>1, <2>2, <2>3, RxMoves
  <1>10. CASE RxFlushNf
    <2>1. /\ flush_nf_rx_queue(q, rx.idx) /\ q[burst(RxLcore)] = << >>
          /\ rx' \in [step : RxSteps, idx : Port, round : {1, 2}]
      <3>1. NextIdx("flush_nf", "coproc", 2) \/ NextIdx("flush_nf", "loop", 1)
        BY <1>10 DEF RxFlushNf
      <3> QED BY <1>1, <1>10, <3>1, NextIdxType DEF RxFlushNf, RxSteps
    <2>2. /\ Core(q', hdr', rx)
          /\ \A l \in Lcore : q'[burst(l)] = q[burst(l)]
      BY <1>1, <2>1, FlushStep
    <2>3. q'[burst(RxLcore)] = << >>
      BY <2>1, <2>2, Bursts
    <2> QED BY <2>1, <2>2, <2>3, RxMoves
  <1>11. CASE RxCoprocBurst
    <2> DEFINE a == tx_q(rx.idx)
    <2>1. /\ q' = RecvBurst(q, a, burst(RxLcore)) /\ hdr' = hdr
          /\ rx' = [step |-> "forward", idx |-> rx.idx, round |-> 2]
          /\ q[burst(RxLcore)] = << >>
      BY <1>1, <1>11 DEF RxCoprocBurst, RxAt
    <2>2. a \in Place /\ \A l \in Lcore : a # burst(l)
      BY <1>1 DEF Place, tx_q, burst
    <2>3. \A x : MayHold(a, rx, x) => MayHold(burst(RxLcore), rx', x)
      <3>1. rx'.step = "forward" /\ rx'.idx = rx.idx
        BY <2>1
      <3>2. burst(RxLcore)[1] = "pkts_burst" /\ burst(RxLcore)[2] = RxLcore
            /\ a[1] = "tx_q" /\ a[2] = rx.idx
        BY DEF burst, tx_q
      <3> HIDE DEF a
      <3> QED BY <3>1, <3>2, Zenon DEF MayHold
    <2> HIDE DEF a
    <2>4. /\ Core(q', hdr, rx')
          /\ \A p \in Place : p # a /\ p # burst(RxLcore) => q'[p] = q[p]
      <3>1. /\ Core(q, hdr, rx) /\ RxLcore \in Lcore /\ a \in Place
            /\ a # burst(RxLcore) /\ q[burst(RxLcore)] = << >>
        BY <1>1, <2>1, <2>2, Bursts
      <3> QED BY <2>1, <2>3, <3>1, RecvCore
    <2>5. rx' \in [step : RxSteps, idx : Port, round : {1, 2}] /\ rx'.step = "forward"
      BY <1>1, <2>1 DEF RxSteps
    <2> QED BY <2>1, <2>2, <2>4, <2>5, Bursts
  <1>12. CASE RxForward
    <2> DEFINE h == hdr[Head(q[burst(RxLcore)])]
    <2>1. /\ rx.step = "forward" /\ q[burst(RxLcore)] # << >> /\ rx' = rx
          /\ enqueue_port(RxLcore, rx.idx)
      BY <1>12 DEF RxForward
    <2>2. MayHold(burst(RxLcore), rx, h)
      BY <1>1, <2>1, Bursts, HeadHdr
    <2>3. MayHold(tx(rx.idx), rx, h)
      <3>1. get_next_hop(h) = rx.idx /\ h.accept
        BY <2>1, <2>2, Zenon DEF MayHold
      <3> QED BY <3>1, Zenon DEF MayHold, tx, burst
    <2> HIDE DEF h
    <2>4. /\ Core(q', hdr', rx)
          /\ \A j \in Lcore : j # RxLcore => q'[burst(j)] = q[burst(j)]
      BY <1>1, <2>1, <2>3, Bursts, EnqueueStep DEF h
    <2> QED BY <1>1, <2>1, <2>4
  <1>13. CASE RxCoprocDone
    <2>1. /\ q' = q /\ hdr' = hdr /\ q[burst(RxLcore)] = << >>
          /\ rx' \in [step : RxSteps, idx : Port, round : {1, 2}]
      BY <1>1, <1>13, NextIdxType DEF RxCoprocDone, RxSteps
    <2> QED BY <1>1, <2>1, RxMoves
  <1> QED BY <1>5, <1>6, <1>7, <1>8, <1>9, <1>10, <1>11, <1>12, <1>13 DEF RxStep

(* Every step of a coprocessor lcore preserves the invariant.              *)
LEMMA CpStepIInv ==
    ASSUME IInv, NEW c \in Port, CpStep(c)
    PROVE  IInv'
  <1>1. /\ Core(q, hdr, rx) /\ cp \in [Port -> CpSteps]
        /\ rx.step \notin {"route", "forward"} => q[burst(RxLcore)] = << >>
        /\ \A j \in Port : cp[j] # "process" => q[burst(j)] = << >>
    BY DEF IInv, Control, BurstIdle
  <1>2. rx' = rx /\ kni_stop' = kni_stop /\ released' = released
    BY DEF CpStep, CpExit, CpBurst, CpProcess, CpFlush
  <1>3. c \in Lcore /\ c # RxLcore /\ burst(c) \in Place
    BY Bursts
  <1>4. SUFFICES /\ Core(q', hdr', rx)
                 /\ cp' \in [Port -> CpSteps]
                 /\ cp'[c] # "process" => q'[burst(c)] = << >>
                 /\ \A j \in Port : j # c => cp'[j] = cp[j]
                 /\ \A j \in Lcore : j # c => q'[burst(j)] = q[burst(j)]
    BY <1>1, <1>2, <1>3, Bursts DEF IInv, Control, BurstIdle
  <1>5. CASE CpExit(c)
    BY <1>1, <1>5 DEF CpExit, CpSteps
  <1>6. CASE CpBurst(c)
    <2> DEFINE a == rx_q(c)
    <2>1. /\ q' = RecvBurst(q, a, burst(c)) /\ hdr' = hdr
          /\ cp' = [cp EXCEPT ![c] = "process"] /\ q[burst(c)] = << >>
      BY <1>1, <1>6 DEF CpBurst
    <2>2. a \in Place /\ \A l \in Lcore : a # burst(l)
      BY DEF Place, rx_q, burst
    <2>3. \A x : MayHold(a, rx, x) => MayHold(burst(c), rx, x)
      <3>1. /\ burst(c)[1] = "pkts_burst" /\ burst(c)[2] = c
            /\ a[1] = "rx_q" /\ a[2] = c /\ burst(c) # burst(RxLcore)
        BY <1>3, Bursts DEF burst, rx_q
      <3> HIDE DEF a
      <3> QED BY <3>1, Zenon DEF MayHold
    <2> HIDE DEF a
    <2>4. /\ Core(q', hdr, rx)
          /\ \A p \in Place : p # a /\ p # burst(c) => q'[p] = q[p]
      <3>1. a # burst(c)
        BY <1>3, <2>2
      <3> QED BY <1>1, <1>3, <2>1, <2>2, <2>3, <3>1, RecvCore
    <2>5. cp' \in [Port -> CpSteps] /\ cp'[c] = "process" /\ \A j \in Port : j # c => cp'[j] = cp[j]
      BY <1>1, <2>1 DEF CpSteps
    <2> QED BY <1>3, <2>1, <2>2, <2>4, <2>5, Bursts
  <1>7. CASE CpProcess(c)
    <2> DEFINE h == hdr[Head(q[burst(c)])]
    <2>1. /\ cp[c] = "process" /\ q[burst(c)] # << >> /\ cp' = cp
          /\ IF h.accept THEN enqueue_nf_tx(c, c) ELSE FreeHead(c)
      BY <1>7 DEF CpProcess
    <2>2. MayHold(burst(c), rx, h)
      BY <1>1, <1>3, <2>1, HeadHdr
    <2>3. h.accept => MayHold(nf_tx(c), rx, h)
      <3>1. get_next_hop(h) = c
        <4>1. burst(c)[1] = "pkts_burst" /\ burst(c)[2] = c
          BY DEF burst
        <4> QED BY <1>3, <2>2, <4>1, Zenon DEF MayHold
      <3>2. nf_tx(c)[1] = "nf_tx" /\ nf_tx(c)[2] = c /\ nf_tx(c) # burst(RxLcore)
        BY DEF nf_tx, burst
      <3> HIDE DEF h
      <3> QED BY <3>1, <3>2, Zenon DEF MayHold
    <2>4. /\ Core(q', hdr', rx)
          /\ \A j \in Lcore : j # c => q'[burst(j)] = q[burst(j)]
      <3>1. CASE h.accept
        BY <1>1, <1>3, <2>1, <2>3, <3>1, EnqueueStep
      <3>2. CASE ~h.accept
        BY <1>1, <1>3, <2>1, <3>2, FreeHeadStep
      <3> QED BY <3>1, <3>2
    <2> QED BY <1>1, <2>1, <2>4
  <1>8. CASE CpFlush(c)
    <2>1. /\ flush_nf_tx_queue(q, c) /\ q[burst(c)] = << >>
          /\ cp' = [cp EXCEPT ![c] = "loop"]
      BY <1>8 DEF CpFlush
    <2>2. /\ Core(q', hdr', rx)
          /\ \A l \in Lcore : q'[burst(l)] = q[burst(l)]
      BY <1>1, <2>1, FlushStep
    <2>3. cp' \in [Port -> CpSteps] /\ \A j \in Port : j # c => cp'[j] = cp[j]
      BY <1>1, <2>1 DEF CpSteps
    <2> QED BY <1>3, <2>1, <2>2, <2>3
  <1> QED BY <1>5, <1>6, <1>7, <1>8 DEF CpStep

(* What the containers do preserves the invariant.                         *)
LEMMA ContainerIInv ==
    ASSUME IInv, NEW k \in Port,
           \/ \E m \in Mbuf, h \in Hdr : ContainerSend(k, m, h)
           \/ ContainerRecv(k)
    PROVE  IInv'
  <1>1. SUFFICES /\ Core(q', hdr', rx)
                 /\ \A l \in Lcore : q'[burst(l)] = q[burst(l)]
    BY Bursts DEF IInv, Control, BurstIdle, ContainerSend, ContainerRecv
  <1>2. Core(q, hdr, rx)
    BY DEF IInv
  <1>3. kni_tx(k) \in Place /\ kni_rx(k) \in Place
    BY DEF Place, kni_tx, kni_rx
  <1>4. \A l \in Lcore : burst(l) \in Place /\ burst(l) # kni_tx(k) /\ burst(l) # kni_rx(k)
    BY Bursts, Zenon DEF burst, kni_tx, kni_rx
  <1>5. ASSUME NEW m \in Mbuf, NEW h \in Hdr, ContainerSend(k, m, h)
        PROVE  Core(q', hdr', rx) /\ \A l \in Lcore : q'[burst(l)] = q[burst(l)]
    <2>1. /\ hdr[m] = NoHdr /\ Len(q[kni_rx(k)]) < KniFifo
          /\ q' = [q EXCEPT ![kni_rx(k)] = Append(q[kni_rx(k)], m)]
          /\ hdr' = [hdr EXCEPT ![m] = h]
      BY <1>5 DEF ContainerSend
    <2>2. /\ Core(q', hdr', rx)
          /\ \A p \in Place : p # kni_rx(k) => q'[p] = q[p]
      BY <1>2, <2>1, SendCore, ZenonT(60)
    <2> QED BY <1>4, <2>2
  <1>6. CASE ContainerRecv(k)
    <2>1. /\ q[kni_tx(k)] # << >> /\ q' = Cut(q, kni_tx(k), 1)
          /\ hdr' = Freed(hdr, {Head(q[kni_tx(k)])})
      BY <1>6 DEF ContainerRecv, Free, Freed
    <2>2. /\ Core(q', hdr', rx)
          /\ \A p \in Place : p # kni_tx(k) => q'[p] = q[p]
      BY <1>2, <1>3, <2>1, DropCore
    <2> QED BY <1>4, <2>2
  <1> QED BY <1>5, <1>6

(* Every step preserves the invariant.                                     *)
LEMMA NextIInv == IInv /\ [Next]_vars => IInv'
  <1> SUFFICES ASSUME IInv, [Next]_vars
               PROVE  IInv'
    OBVIOUS
  <1>1. CASE UNCHANGED vars
    BY <1>1 DEF vars, IInv, Control, BurstIdle
  <1>2. ASSUME NEW k \in Port, NEW m \in Mbuf, NEW h \in Hdr, ContainerSend(k, m, h)
        PROVE  IInv'
    BY <1>2, ContainerIInv
  <1>3. ASSUME NEW k \in Port, ContainerRecv(k)
        PROVE  IInv'
    BY <1>3, ContainerIInv
  <1>4. CASE RxStep
    BY <1>4, RxStepIInv
  <1>5. ASSUME NEW c \in Port, CpStep(c)
        PROVE  IInv'
    BY <1>5, CpStepIInv
  <1>6. CASE SignalHandler
    BY <1>6 DEF SignalHandler, IInv, Control, BurstIdle
  <1>7. CASE KniFree
    BY <1>7 DEF KniFree, IInv, Control, BurstIdle
  <1> QED BY <1>1, <1>2, <1>3, <1>4, <1>5, <1>6, <1>7 DEF Next

(* The invariant holds in every reachable state.                           *)
THEOREM Invariance == Spec => []IInv
  BY InitIInv, NextIInv, PTL DEF Spec

(* The state of the engine always has its type.                            *)
THEOREM TypeCorrect == Spec => []TypeOK
  <1>1. IInv => TypeOK
    BY DEF IInv, Core, Good, Places, Control, TypeOK
  <1> QED BY <1>1, Invariance, PTL

(* No packet_buf, pkts_burst array, ring or fifo ever overflows.           *)
THEOREM NoOverflow == Spec => []CapacityOK
  <1>1. IInv => CapacityOK
    BY DEF IInv, Core, Cap, CapacityOK, Lcore
  <1> QED BY <1>1, Invariance, PTL

(* No packet descriptor ever has two owners.                               *)
THEOREM SingleOwner == Spec => []OneOwner
  <1>1. IInv => OneOwner
    BY DEF IInv, Core, Good, Own, OneOwner
  <1> QED BY <1>1, Invariance, PTL

(* No packet descriptor is ever leaked: the silent returns of the enqueue  *)
(* operations are never taken.                                             *)
THEOREM LeakFree == Spec => []NoLeak
  <1>1. IInv => NoLeak
    BY DEF IInv, Core, Good, Held, NoLeak
  <1> QED BY <1>1, Invariance, PTL

(* A packet reaches only the port it is routed to, and with the network    *)
(* function compiled in only if process_packet accepted it.                *)
THEOREM EgressCorrect == Spec => []EgressOK
  <1>1. IInv => EgressOK
    BY DEF IInv, Core, Egress, EgressOK
  <1> QED BY <1>1, Invariance, PTL

(***************************************************************************)
(* The engine implements LossyFifo, and the virtual ports are released     *)
(* when no lcore can touch them again.                                     *)
(*                                                                         *)
(* A step of the engine moves packets between neighbouring places of the   *)
(* pipeline, so its effect on InTransit is a matter of concatenations.     *)
(***************************************************************************)
Packets == Seq(Mbuf)

Cat(a, b) == a \o b

(* Concatenation is associative, with the empty sequence as its unit.      *)
LEMMA CatFacts ==
    /\ << >> \in Packets
    /\ \A a, b \in Packets : Cat(a, b) \in Packets
    /\ \A a \in Packets : Cat(a, << >>) = a /\ Cat(<< >>, a) = a
    /\ \A a, b, c \in Packets : Cat(Cat(a, b), c) = Cat(a, Cat(b, c))
  BY EmptySeq, ConcatProperties, ConcatEmptySeq, ConcatAssociative DEF Cat, Packets

(* A part of x is lost, which leaves y.                                    *)
Lossy(x, y) ==
    \E a, b, c \in Packets : x = Cat(a, Cat(b, c)) /\ y = Cat(a, c)

(* Nothing need be lost; a prefix or a suffix may be lost; and what holds  *)
(* of the rest of a sequence holds of the whole.                           *)
LEMMA LossyFacts ==
    /\ \A x \in Packets : Lossy(x, x)
    /\ \A x, y \in Packets : Lossy(Cat(x, y), x) /\ Lossy(Cat(x, y), y)
    /\ \A a, x, y \in Packets : Lossy(x, y) => Lossy(Cat(a, x), Cat(a, y))
  <1>1. \A x, y \in Packets : Lossy(Cat(x, y), x)
    <2> SUFFICES ASSUME NEW x \in Packets, NEW y \in Packets PROVE Lossy(Cat(x, y), x)
      OBVIOUS
    <2>1. Cat(x, y) = Cat(x, Cat(y, << >>)) /\ x = Cat(x, << >>)
      BY CatFacts
    <2> QED BY <2>1, CatFacts DEF Lossy
  <1>2. \A x, y \in Packets : Lossy(Cat(x, y), y)
    <2> SUFFICES ASSUME NEW x \in Packets, NEW y \in Packets PROVE Lossy(Cat(x, y), y)
      OBVIOUS
    <2>1. Cat(x, y) = Cat(<< >>, Cat(x, y)) /\ y = Cat(<< >>, y)
      BY CatFacts
    <2> QED BY <2>1, CatFacts DEF Lossy
  <1>3. \A x \in Packets : Lossy(x, x)
    BY <1>1, CatFacts
  <1>4. ASSUME NEW a \in Packets, NEW x \in Packets, NEW y \in Packets, Lossy(x, y)
        PROVE  Lossy(Cat(a, x), Cat(a, y))
    <2>1. PICK d, b, c \in Packets : x = Cat(d, Cat(b, c)) /\ y = Cat(d, c)
      BY <1>4 DEF Lossy
    <2>2. /\ Cat(a, x) = Cat(Cat(a, d), Cat(b, c)) /\ Cat(a, y) = Cat(Cat(a, d), c)
          /\ Cat(a, d) \in Packets
      BY <2>1, CatFacts
    <2> QED BY <2>2 DEF Lossy
  <1> QED BY <1>1, <1>2, <1>3, <1>4

(* The parts of a sequence, as LossyFifo cuts them out.                    *)
Parts(s, a, b, c) ==
    LET i == Len(a)
        j == Len(a) + Len(b)
    IN  /\ i \in 0 .. Len(s) /\ j \in i .. Len(s)
        /\ SubSeq(s, 1, i) = a
        /\ SubSeq(s, j + 1, Len(s)) = c

(* They are there in a concatenation of three sequences.                   *)
LEMMA CatParts ==
    ASSUME NEW a \in Packets, NEW b \in Packets, NEW c \in Packets,
           NEW s, s = Cat(a, Cat(b, c))
    PROVE  Parts(s, a, b, c)
  <1> DEFINE i == Len(a)
             j == Len(a) + Len(b)
             n == Len(a) + Len(b) + Len(c)
             u == SubSeq(s, 1, i)
             v == SubSeq(s, j + 1, Len(s))
  <1>1. /\ Len(a) \in Nat /\ Len(b) \in Nat /\ Len(c) \in Nat
        /\ a \in Seq(Mbuf) /\ b \in Seq(Mbuf) /\ c \in Seq(Mbuf)
    BY LenProperties DEF Packets
  <1>2. /\ b \o c \in Seq(Mbuf) /\ Len(b \o c) = Len(b) + Len(c)
        /\ \A x \in 1 .. Len(b) + Len(c) :
              (b \o c)[x] = IF x <= Len(b) THEN b[x] ELSE c[x - Len(b)]
    BY <1>1, ConcatProperties
  <1> DEFINE d == b \o c
  <1> HIDE DEF d
  <1>3. /\ a \o d \in Seq(Mbuf) /\ Len(a \o d) = Len(a) + Len(d)
        /\ \A x \in 1 .. Len(a) + Len(d) :
              (a \o d)[x] = IF x <= Len(a) THEN a[x] ELSE d[x - Len(a)]
    BY <1>1, <1>2, ConcatProperties DEF d
  <1>4. s = a \o d
    BY DEF Cat, d
  <1>5. s \in Seq(Mbuf) /\ Len(s) = n
    BY <1>1, <1>2, <1>3, <1>4 DEF d
  <1>6. i \in 0 .. Len(s) /\ j \in i .. Len(s) /\ j \in 0 .. Len(s)
    BY <1>1, <1>5
  <1>7. /\ u \in Seq(Mbuf) /\ Len(u) = i /\ \A x \in 1 .. i : u[x] = s[x]
        /\ v \in Seq(Mbuf) /\ Len(v) = Len(s) - j
        /\ \A x \in 1 .. Len(s) - j : v[x] = s[x + j]
    <2> HIDE DEF i, j
    <2> QED BY <1>5, <1>6, SubSeqIndices
  <1> HIDE DEF u, v
  <1>8. \A x \in 1 .. Len(a) : s[x] = a[x]
    BY <1>1, <1>2, <1>3, <1>4 DEF d
  <1>9. \A x \in 1 .. Len(c) : s[x + j] = c[x]
    <2> SUFFICES ASSUME NEW x \in 1 .. Len(c) PROVE s[x + j] = c[x]
      OBVIOUS
    <2>1. x + j \in 1 .. Len(a) + Len(d) /\ ~(x + j <= Len(a)) /\ x + j - Len(a) = x + Len(b)
      BY <1>1, <1>2 DEF d
    <2>2. s[x + j] = d[x + Len(b)]
      BY <1>3, <1>4, <2>1
    <2>3. x + Len(b) \in 1 .. Len(b) + Len(c) /\ ~(x + Len(b) <= Len(b))
          /\ x + Len(b) - Len(b) = x
      BY <1>1
    <2> QED BY <1>2, <2>2, <2>3 DEF d
  <1>10. u = a
    BY <1>1, <1>7, <1>8, SeqEqual
  <1>11. v = c
    <2>1. Len(v) = Len(c)
      BY <1>1, <1>5, <1>7
    <2>2. \A x \in 1 .. Len(v) : v[x] = c[x]
      BY <1>7, <1>9, <2>1
    <2> QED BY <1>1, <1>7, <2>1, <2>2, SeqEqual
  <1> QED BY <1>6, <1>10, <1>11 DEF u, v, Parts

(***************************************************************************)
(* What the operations do to the places.                                   *)
(***************************************************************************)

(* Take and Skip split a sequence.                                         *)
LEMMA TakeSkip ==
    ASSUME NEW s \in Packets, NEW n \in 0 .. Len(s)
    PROVE  /\ Take(s, n) \in Packets /\ Skip(s, n) \in Packets
           /\ s = Cat(Take(s, n), Skip(s, n))
           /\ n = Len(s) => Take(s, n) = s /\ Skip(s, n) = << >>
  <1>1. Len(s) \in Nat /\ s \in Seq(Mbuf)
    BY LenProperties DEF Packets
  <1>2. /\ Take(s, n) \in Packets /\ Skip(s, n) \in Packets /\ Len(Skip(s, n)) = Len(s) - n
    BY <1>1, SubSeqIndices DEF Take, Skip, Packets
  <1>3. s = Cat(Take(s, n), Skip(s, n))
    <2>1. 1 \in 1 .. Len(s) + 1 /\ n \in 1 - 1 .. Len(s) /\ Len(s) \in n .. Len(s)
      BY <1>1
    <2>2. SubSeq(s, 1, n) \o SubSeq(s, n + 1, Len(s)) = SubSeq(s, 1, Len(s))
      BY <1>1, <2>1, ConcatAdjacentSubSeq, Zenon
    <2>3. SubSeq(s, 1, Len(s)) = s
      BY <1>1, SubSeqFull
    <2> QED BY <2>2, <2>3, Zenon DEF Cat, Take, Skip
  <1>4. ASSUME n = Len(s) PROVE Take(s, n) = s /\ Skip(s, n) = << >>
    <2>1. n + 1 \in Int /\ Len(s) \in Int /\ Len(s) < n + 1
      BY <1>1, <1>4
    <2> QED BY <1>1, <1>4, <2>1, TakeAll, SubSeqEmpty DEF Skip
  <1> QED BY <1>2, <1>3, <1>4

(* The first packet of a sequence.                                         *)
LEMMA TakeOne ==
    ASSUME NEW s \in Packets, s # << >>
    PROVE  Head(s) \in Mbuf /\ 1 \in 0 .. Len(s) /\ Take(s, 1) = <<Head(s)>>
  <1>1. /\ Len(s) \in Nat /\ Len(s) >= 1 /\ Head(s) = s[1] /\ Head(s) \in Mbuf
        /\ s \in Seq(Mbuf) /\ 1 \in 0 .. Len(s)
    BY HeadTailProperties, LenProperties, EmptySeq DEF Packets
  <1>2. Take(s, 1) \in Seq(Mbuf) /\ Len(Take(s, 1)) = 1 /\ \A i \in 1 .. 1 : Take(s, 1)[i] = s[i]
    BY <1>1, SubSeqIndices DEF Take
  <1> DEFINE u == <<Head(s)>>
  <1>3. u \in Seq(Mbuf) /\ Len(u) = 1 /\ u[1] = Head(s)
    BY <1>1
  <1> HIDE DEF u
  <1>4. Take(s, 1) = u
    BY <1>1, <1>2, <1>3, SeqEqual
  <1> QED BY <1>1, <1>4 DEF u

Agree(s, t, S) == \A p \in Place \ S : t[p] = s[p]

(* Moving packets from the front of place a to the end of place b.         *)
LEMMA ShiftAt ==
    ASSUME NEW s \in Places, NEW a \in Place, NEW b \in Place, a # b,
           NEW n \in 0 .. Len(s[a])
    PROVE  LET t == Shift(s, a, b, n)
           IN  /\ t \in Places /\ Agree(s, t, {a, b})
               /\ t[a] = Skip(s[a], n) /\ t[b] = Cat(s[b], Take(s[a], n))
  <1>1. s[a] \in Packets /\ s[b] \in Packets
    BY DEF Places, Packets
  <1>2. /\ Take(s[a], n) \in Packets /\ Skip(s[a], n) \in Packets
        /\ Cat(s[b], Take(s[a], n)) \in Packets
    BY <1>1, TakeSkip, CatFacts, Zenon
  <1> QED BY <1>2 DEF Shift, Places, Packets, Agree, Cat

(* Taking packets out of place a.                                          *)
LEMMA CutAt ==
    ASSUME NEW s \in Places, NEW a \in Place, NEW n \in 0 .. Len(s[a])
    PROVE  LET t == Cut(s, a, n)
           IN  t \in Places /\ Agree(s, t, {a}) /\ t[a] = Skip(s[a], n)
  <1>1. s[a] \in Packets
    BY DEF Places, Packets
  <1>2. Skip(s[a], n) \in Packets
    BY <1>1, TakeSkip
  <1> QED BY <1>2 DEF Cut, Places, Packets, Agree

(* A batch goes to the ring, or is lost.                                   *)
LEMMA FlushRingAt ==
    ASSUME NEW s \in Places, NEW buf \in Place, NEW ring \in Place, buf # ring
    PROVE  LET t == FlushRing(s, buf, ring)
           IN  /\ t \in Places /\ Agree(s, t, {buf, ring})
               /\ t[buf] = << >>
               /\ t[ring] \in {s[ring], Cat(s[ring], s[buf])}
  <1> DEFINE n == Len(s[buf])
  <1>1. s[buf] \in Packets /\ n \in Nat /\ n \in 0 .. n
    BY LenProperties DEF Places, Packets
  <1>2. Take(s[buf], n) = s[buf] /\ Skip(s[buf], n) = << >>
    BY <1>1, TakeSkip
  <1>3. CASE BulkFits(s, buf, ring)
    <2> DEFINE t == Shift(s, buf, ring, n)
    <2>1. FlushRing(s, buf, ring) = t
      BY <1>3 DEF FlushRing
    <2>2. /\ t \in Places /\ Agree(s, t, {buf, ring})
          /\ t[buf] = Skip(s[buf], n) /\ t[ring] = Cat(s[ring], Take(s[buf], n))
      BY <1>1, ShiftAt, Zenon
    <2> HIDE DEF t
    <2> QED BY <1>2, <2>1, <2>2
  <1>4. CASE ~BulkFits(s, buf, ring)
    <2>1. FlushRing(s, buf, ring) = Cut(s, buf, n)
      BY <1>4 DEF FlushRing
    <2>2. LET t == Cut(s, buf, n)
          IN  t \in Places /\ Agree(s, t, {buf}) /\ t[buf] = Skip(s[buf], n)
      BY <1>1, CutAt, Zenon
    <2> QED BY <1>2, <2>1, <2>2 DEF Agree
  <1> QED BY <1>3, <1>4

(* A batch for port k: the first packets of it go to the fifo, the others  *)
(* are lost.                                                               *)
LEMMA FlushKniAt ==
    ASSUME NEW s \in Places, NEW k \in Port, Len(s[kni_tx(k)]) <= KniFifo
    PROVE  LET t == FlushKni(s, k)
           IN  /\ t \in Places /\ Agree(s, t, {tx(k), kni_tx(k)})
               /\ t[tx(k)] = << >>
               /\ \E u, v \in Packets : /\ s[tx(k)] = Cat(u, v)
                                        /\ t[kni_tx(k)] = Cat(s[kni_tx(k)], u)
  <1> DEFINE a == tx(k)
             b == kni_tx(k)
             n == KniSent(s, k)
             w == Shift(s, a, b, n)
             m == Len(s[a]) - n
  <1>1. a \in Place /\ b \in Place /\ a # b
    BY DEF Place, tx, kni_tx
  <1>2. s[a] \in Packets /\ s[b] \in Packets /\ Len(s[a]) \in Nat /\ Len(s[b]) \in Nat
    BY <1>1, LenProperties DEF Places, Packets
  <1>3. n \in 0 .. Len(s[a])
    <2>1. \A x, y, z \in Nat : z <= y => Least(x, y - z) \in 0 .. x
      BY DEF Least
    <2> QED BY <1>2, <2>1, SizeAssumption, Zenon DEF KniSent
  <1> HIDE DEF n
  <1>4. /\ w \in Places /\ Agree(s, w, {a, b})
        /\ w[a] = Skip(s[a], n) /\ w[b] = Cat(s[b], Take(s[a], n))
    BY <1>1, <1>3, ShiftAt
  <1>5. Len(w[a]) = m /\ w[a] \in Packets
    BY <1>2, <1>3, <1>4, SubSeqIndices DEF Skip, Packets
  <1>6. m \in 0 .. Len(w[a]) /\ m = Len(w[a])
    BY <1>2, <1>3, <1>5
  <1> HIDE DEF w, m, a, b
  <1>7. LET t == Cut(w, a, m) IN t \in Places /\ Agree(w, t, {a}) /\ t[a] = Skip(w[a], m)
    BY <1>1, <1>4, <1>6, CutAt, Zenon
  <1>8. Skip(w[a], m) = << >>
    BY <1>5, <1>6, TakeSkip
  <1>9. FlushKni(s, k) = Cut(w, a, m)
    BY DEF FlushKni, w, m, n, a, b
  <1>10. /\ Take(s[a], n) \in Packets /\ Skip(s[a], n) \in Packets
         /\ s[a] = Cat(Take(s[a], n), Skip(s[a], n))
    BY <1>2, <1>3, TakeSkip
  <1>11. LET t == FlushKni(s, k)
         IN  /\ t \in Places /\ Agree(s, t, {a, b}) /\ t[a] = << >>
             /\ t[b] = Cat(s[b], Take(s[a], n))
    BY <1>1, <1>4, <1>7, <1>8, <1>9 DEF Agree
  <1> QED BY <1>10, <1>11 DEF a, b

(***************************************************************************)
(* Packets in transit, with the concatenations nested to the right.        *)
(***************************************************************************)
Fwd(s, r, k) == IF r.step = "forward" /\ r.idx = k THEN s[burst(RxLcore)] ELSE << >>

Behind(s, k) == Cat(s[burst(k)], Cat(s[rx_q(k)], s[nf_rx(k)]))

Transit(s, r, k) ==
    Cat(s[tx(k)], Cat(Fwd(s, r, k), Cat(s[tx_q(k)], Cat(s[nf_tx(k)], Behind(s, k)))))

OfPort(k) == {tx(k), kni_tx(k), tx_q(k), nf_tx(k), burst(k), rx_q(k), nf_rx(k)}

(* The places of a port are different places.                              *)
LEMMA PortPlaces ==
    ASSUME NEW k \in Port
    PROVE  /\ OfPort(k) \subseteq Place /\ kni_rx(k) \in Place
           /\ burst(RxLcore) \in Place \ OfPort(k)
           /\ \A j \in Port : kni_rx(j) \notin OfPort(k) /\ kni_rx(j) # burst(RxLcore)
           /\ \A j \in Port \ {k} : OfPort(j) \cap OfPort(k) = {}
  <1>1. RxLcore \notin Port
    BY Bursts
  <1> QED BY <1>1 DEF OfPort, Place, tx, kni_tx, kni_rx, tx_q, nf_tx, burst, rx_q, nf_rx

(* Each of them, and what is in transit, is a sequence of packets.         *)
LEMMA TransitType ==
    ASSUME NEW s \in Places, NEW r, NEW k \in Port
    PROVE  /\ \A p \in OfPort(k) \cup {burst(RxLcore)} : s[p] \in Packets
           /\ Fwd(s, r, k) \in Packets /\ Behind(s, k) \in Packets
           /\ Transit(s, r, k) \in Packets
  <1>1. \A p \in OfPort(k) \cup {burst(RxLcore)} : s[p] \in Packets
    BY PortPlaces DEF Places, Packets
  <1>2. /\ s[tx(k)] \in Packets /\ s[tx_q(k)] \in Packets /\ s[nf_tx(k)] \in Packets
        /\ s[burst(k)] \in Packets /\ s[rx_q(k)] \in Packets /\ s[nf_rx(k)] \in Packets
        /\ s[burst(RxLcore)] \in Packets
    BY <1>1 DEF OfPort
  <1>3. Fwd(s, r, k) \in Packets
    BY <1>2, CatFacts DEF Fwd
  <1>4. Behind(s, k) \in Packets
    BY <1>2, CatFacts, Zenon DEF Behind
  <1>5. Transit(s, r, k) \in Packets
    BY <1>2, <1>3, <1>4, CatFacts, Zenon DEF Transit
  <1> QED BY <1>1, <1>3, <1>4, <1>5

(* InTransit, for places s and the Rx lcore at r.                          *)
Chained(s, r, k) ==
    s[tx(k)] \o Fwd(s, r, k) \o s[tx_q(k)] \o s[nf_tx(k)] \o s[burst(k)] \o s[rx_q(k)] \o s[nf_rx(k)]

(* Nested to the left or to the right, it is the same sequence.            *)
LEMMA ChainTransit ==
    ASSUME NEW s \in Places, NEW r, NEW k \in Port
    PROVE  Chained(s, r, k) = Transit(s, r, k)
  <1> DEFINE a == s[tx(k)]
             b == Fwd(s, r, k)
             c == s[tx_q(k)]
             d == s[nf_tx(k)]
             e == s[burst(k)]
             f == s[rx_q(k)]
             g == s[nf_rx(k)]
             x == Cat(e, Cat(f, g))
             y == Cat(c, Cat(d, x))
  <1>a. /\ a \in Packets /\ b \in Packets /\ c \in Packets /\ d \in Packets
        /\ e \in Packets /\ f \in Packets /\ g \in Packets
    BY TransitType DEF OfPort
  <1>b. Transit(s, r, k) = Cat(a, Cat(b, y))
    BY DEF Transit, Behind
  <1>c. Chained(s, r, k) = Cat(Cat(Cat(Cat(Cat(Cat(a, b), c), d), e), f), g)
    BY DEF Chained, Cat
  <1> HIDE DEF a, b, c, d, e, f, g
  <1>1. Cat(f, g) \in Packets /\ x \in Packets /\ Cat(d, x) \in Packets /\ y \in Packets
    BY <1>a, CatFacts, Zenon
  <1>2. Cat(a, b) \in Packets /\ Cat(Cat(a, b), c) \in Packets
        /\ Cat(Cat(Cat(a, b), c), d) \in Packets /\ Cat(Cat(Cat(Cat(a, b), c), d), e) \in Packets
    BY <1>a, CatFacts, Zenon
  <1>3. Cat(Cat(Cat(Cat(Cat(Cat(a, b), c), d), e), f), g)
          = Cat(Cat(Cat(Cat(Cat(a, b), c), d), e), Cat(f, g))
    BY <1>a, <1>2, CatFacts
  <1>4. Cat(Cat(Cat(Cat(Cat(a, b), c), d), e), Cat(f, g)) = Cat(Cat(Cat(Cat(a, b), c), d), x)
    BY <1>a, <1>1, <1>2, CatFacts
  <1>5. Cat(Cat(Cat(Cat(a, b), c), d), x) = Cat(Cat(Cat(a, b), c), Cat(d, x))
    BY <1>a, <1>1, <1>2, CatFacts
  <1>6. Cat(Cat(Cat(a, b), c), Cat(d, x)) = Cat(Cat(a, b), y)
    BY <1>a, <1>1, <1>2, CatFacts
  <1>7. Cat(Cat(a, b), y) = Cat(a, Cat(b, y))
    BY <1>a, <1>1, CatFacts
  <1> QED BY <1>b, <1>c, <1>3, <1>4, <1>5, <1>6, <1>7

(* InTransit before and after a step.                                      *)
LEMMA InTransitIs ==
    ASSUME q \in Places, q' \in Places, NEW k \in Port
    PROVE  InTransit(k) = Transit(q, rx, k) /\ InTransit(k)' = Transit(q', rx', k)
  <1>1. InTransit(k) = Chained(q, rx, k)
    BY DEF InTransit, Fwd, Chained
  <1>2. InTransit(k)' = Chained(q', rx', k)
    BY DEF InTransit, Fwd, Chained, tx, tx_q, nf_tx, burst, rx_q, nf_rx
  <1> QED BY <1>1, <1>2, ChainTransit

(* What LossyFifo sees of port k is the same before and after a step.      *)
Same(s, t, r, r2, k) ==
    Transit(t, r2, k) = Transit(s, r, k) /\ t[kni_tx(k)] = s[kni_tx(k)]

(* It is so for a port whose places the step leaves alone.                 *)
LEMMA AgreeSame ==
    ASSUME NEW s, NEW t, NEW r, NEW r2, NEW k \in Port,
           \A p \in OfPort(k) : t[p] = s[p], Fwd(t, r2, k) = Fwd(s, r, k)
    PROVE  Same(s, t, r, r2, k)
  BY DEF Same, Transit, Behind, OfPort

(* A step that changes nothing a LossyFifo has.                            *)
LEMMA FifoSame ==
    ASSUME q \in Places, q' \in Places, \A k \in Port : Same(q, q', rx, rx', k)
    PROVE  UNCHANGED Fifo!vars
  <1>1. \A k \in Port : InTransit(k)' = InTransit(k) /\ q'[kni_tx(k)] = q[kni_tx(k)]
    BY InTransitIs DEF Same
  <1> QED BY <1>1, Zenon DEF Fifo!vars, kni_tx

(* A packet may have been accepted before the step loses or delivers any.  *)
Accepted(s, r, k) ==
    {Transit(s, r, k)} \cup {Cat(Transit(s, r, k), <<m>>) : m \in Mbuf}

(* Steps that lose and steps that deliver packets of port k.               *)
LEMMA FifoStep ==
    ASSUME q \in Places, q' \in Places, NEW k \in Port,
           \A j \in Port \ {k} : Same(q, q', rx, rx', j),
           NEW x \in Accepted(q, rx, k),
           \/ Lossy(x, Transit(q', rx', k)) /\ q'[kni_tx(k)] = q[kni_tx(k)]
           \/ \E u, v \in Packets : /\ x = Cat(u, Cat(v, Transit(q', rx', k)))
                                    /\ q'[kni_tx(k)] = Cat(q[kni_tx(k)], u)
    PROVE  Fifo!Next
  <1> DEFINE chan == [j \in Port |-> InTransit(j)]
             out == [j \in Port |-> q[kni_tx(j)]]
             new == Transit(q', rx', k)
  <1>1. chan[k] = Transit(q, rx, k) /\ chan[k] \in Packets /\ new \in Packets
    BY InTransitIs, TransitType
  <1>2. x \in {chan[k]} \cup {Append(chan[k], m) : m \in Mbuf}
    <2>1. \A m \in Mbuf : Append(chan[k], m) = Cat(chan[k], <<m>>)
      BY <1>1, AppendIsConcat DEF Cat, Packets
    <2> QED BY <1>1, <2>1, Zenon DEF Accepted
  <1>3. chan' = [chan EXCEPT ![k] = new]
    BY InTransitIs, Zenon DEF Same
  <1>4. \A j \in Port \ {k} : q'[kni_tx(j)] = q[kni_tx(j)]
    BY DEF Same
  <1> HIDE DEF new
  <1>5. CASE Lossy(x, new) /\ q'[kni_tx(k)] = q[kni_tx(k)]
    <2>1. PICK a, b, c \in Packets : x = Cat(a, Cat(b, c)) /\ new = Cat(a, c)
      BY <1>5 DEF Lossy
    <2> DEFINE i == Len(a)
               j == Len(a) + Len(b)
    <2>2. /\ i \in 0 .. Len(x) /\ j \in i .. Len(x)
          /\ new = SubSeq(x, 1, i) \o SubSeq(x, j + 1, Len(x))
      <3>1. /\ i \in 0 .. Len(x) /\ j \in i .. Len(x)
            /\ SubSeq(x, 1, i) = a /\ SubSeq(x, j + 1, Len(x)) = c
        <4>1. Parts(x, a, b, c)
          BY <2>1, CatParts
        <4> QED BY <4>1 DEF Parts
      <3> QED BY <2>1, <3>1, Zenon DEF Cat
    <2>3. out' = out
      BY <1>4, <1>5 DEF kni_tx
    <2> HIDE DEF i, j
    <2>4. Fifo!Lose(k)
      BY <1>2, <1>3, <2>2, <2>3, Zenon DEF Fifo!Lose
    <2> QED BY <2>4 DEF Fifo!Next
  <1>6. ASSUME NEW u \in Packets, NEW v \in Packets, x = Cat(u, Cat(v, new)),
               q'[kni_tx(k)] = Cat(q[kni_tx(k)], u)
        PROVE  Fifo!Next
    <2> DEFINE i == Len(u)
               j == Len(u) + Len(v)
    <2>1. /\ i \in 0 .. Len(x) /\ j \in i .. Len(x)
          /\ u = SubSeq(x, 1, i) /\ new = SubSeq(x, j + 1, Len(x))
      <3>1. Parts(x, u, v, new)
        BY <1>1, <1>6, CatParts
      <3> QED BY <3>1 DEF Parts
    <2>2. out' = [out EXCEPT ![k] = out[k] \o u]
      BY <1>4, <1>6, Zenon DEF kni_tx, Cat
    <2> HIDE DEF i, j
    <2>3. Fifo!Deliver(k)
      BY <1>2, <1>3, <2>1, <2>2, Zenon DEF Fifo!Deliver
    <2> QED BY <2>3 DEF Fifo!Next
  <1> QED BY <1>5, <1>6 DEF new

(***************************************************************************)
(* What the moves of packets do to InTransit.                              *)
(***************************************************************************)

(* A move among the places of port k and outside InTransit leaves the      *)
(* other ports alone.                                                      *)
LEMMA OthersSame ==
    ASSUME NEW s, NEW t, NEW r, NEW r2, NEW k \in Port,
           Agree(s, t, OfPort(k) \cup {burst(RxLcore)} \cup {kni_rx(j) : j \in Port}),
           \A j \in Port \ {k} : Fwd(t, r2, j) = Fwd(s, r, j)
    PROVE  \A j \in Port \ {k} : Same(s, t, r, r2, j)
  <1> SUFFICES ASSUME NEW j \in Port \ {k} PROVE Same(s, t, r, r2, j)
    OBVIOUS
  <1>1. \A p \in OfPort(j) : /\ p \in Place /\ p \notin OfPort(k) /\ p # burst(RxLcore)
                             /\ p \notin {kni_rx(i) : i \in Port}
    BY PortPlaces
  <1>2. \A p \in OfPort(j) : t[p] = s[p]
    BY <1>1 DEF Agree
  <1> QED BY <1>2, AgreeSame

(* A loss behind the coprocessor's transmit buffer is a loss in transit.   *)
LEMMA LossBehind ==
    ASSUME NEW s \in Places, NEW t \in Places, NEW r, NEW r2, NEW k \in Port,
           t[tx(k)] = s[tx(k)], Fwd(t, r2, k) = Fwd(s, r, k), t[tx_q(k)] = s[tx_q(k)],
           t[nf_tx(k)] = s[nf_tx(k)], Lossy(Behind(s, k), Behind(t, k))
    PROVE  Lossy(Transit(s, r, k), Transit(t, r2, k))
  <1> DEFINE a == s[tx(k)]
             b == Fwd(s, r, k)
             c == s[tx_q(k)]
             d == s[nf_tx(k)]
             x == Behind(s, k)
             y == Behind(t, k)
  <1>1. /\ a \in Packets /\ b \in Packets /\ c \in Packets /\ d \in Packets
        /\ x \in Packets /\ y \in Packets
    BY TransitType DEF OfPort
  <1>2. /\ Transit(s, r, k) = Cat(a, Cat(b, Cat(c, Cat(d, x))))
        /\ Transit(t, r2, k) = Cat(a, Cat(b, Cat(c, Cat(d, y))))
    BY DEF Transit
  <1>3. Lossy(x, y)
    OBVIOUS
  <1> HIDE DEF a, b, c, d, x, y
  <1>4. Lossy(Cat(d, x), Cat(d, y)) /\ Cat(d, x) \in Packets /\ Cat(d, y) \in Packets
    BY <1>1, <1>3, LossyFacts, CatFacts
  <1>5. /\ Lossy(Cat(c, Cat(d, x)), Cat(c, Cat(d, y)))
        /\ Cat(c, Cat(d, x)) \in Packets /\ Cat(c, Cat(d, y)) \in Packets
    BY <1>1, <1>4, LossyFacts, CatFacts
  <1>6. /\ Lossy(Cat(b, Cat(c, Cat(d, x))), Cat(b, Cat(c, Cat(d, y))))
        /\ Cat(b, Cat(c, Cat(d, x))) \in Packets /\ Cat(b, Cat(c, Cat(d, y))) \in Packets
    BY <1>1, <1>5, LossyFacts, CatFacts
  <1>7. Lossy(Cat(a, Cat(b, Cat(c, Cat(d, x)))), Cat(a, Cat(b, Cat(c, Cat(d, y)))))
    BY <1>1, <1>6, LossyFacts
  <1> QED BY <1>2, <1>7

(* flush_nf_rx_queue loses the batch or nothing.                           *)
LEMMA FlushNfRxLossy ==
    ASSUME NEW s \in Places, NEW r, NEW k \in Port
    PROVE  LET t == FlushRing(s, nf_rx(k), rx_q(k))
           IN  /\ t \in Places /\ Agree(s, t, {nf_rx(k), rx_q(k)})
               /\ Lossy(Transit(s, r, k), Transit(t, r, k))
  <1> DEFINE t == FlushRing(s, nf_rx(k), rx_q(k))
  <1>1. /\ t \in Places /\ Agree(s, t, {nf_rx(k), rx_q(k)})
        /\ t[nf_rx(k)] = << >> /\ t[rx_q(k)] \in {s[rx_q(k)], Cat(s[rx_q(k)], s[nf_rx(k)])}
    <2>1. nf_rx(k) \in Place /\ rx_q(k) \in Place /\ nf_rx(k) # rx_q(k)
      BY DEF Place, nf_rx, rx_q
    <2> QED BY <2>1, FlushRingAt
  <1> HIDE DEF t
  <1>2. /\ t[tx(k)] = s[tx(k)] /\ t[tx_q(k)] = s[tx_q(k)] /\ t[nf_tx(k)] = s[nf_tx(k)]
        /\ t[burst(k)] = s[burst(k)] /\ t[burst(RxLcore)] = s[burst(RxLcore)]
    BY <1>1, PortPlaces, Zenon DEF Agree, OfPort, tx, tx_q, nf_tx, burst, nf_rx, rx_q
  <1>3. Fwd(t, r, k) = Fwd(s, r, k)
    BY <1>2 DEF Fwd
  <1>4. Lossy(Behind(s, k), Behind(t, k))
    <2> DEFINE e == s[burst(k)]
               f == s[rx_q(k)]
               g == s[nf_rx(k)]
               h == t[rx_q(k)]
    <2>1. e \in Packets /\ f \in Packets /\ g \in Packets /\ h \in Packets
      BY <1>1, TransitType DEF OfPort
    <2>2. Behind(s, k) = Cat(e, Cat(f, g)) /\ Behind(t, k) = Cat(e, Cat(h, << >>))
      BY <1>1, <1>2 DEF Behind
    <2>3. h = f \/ h = Cat(f, g)
      BY <1>1
    <2> HIDE DEF e, f, g, h
    <2>4. Cat(h, << >>) = h /\ Cat(f, g) \in Packets
      BY <2>1, CatFacts
    <2>5. Lossy(Cat(f, g), h)
      BY <2>1, <2>3, <2>4, LossyFacts
    <2>6. Lossy(Cat(e, Cat(f, g)), Cat(e, h))
      BY <2>1, <2>4, <2>5, LossyFacts
    <2> QED BY <2>2, <2>4, <2>6
  <1>5. Lossy(Transit(s, r, k), Transit(t, r, k))
    BY <1>1, <1>2, <1>3, <1>4, LossBehind, Zenon
  <1> QED BY <1>1, <1>5 DEF t

(* So does flush_nf_tx_queue.                                              *)
LEMMA FlushNfTxLossy ==
    ASSUME NEW s \in Places, NEW r, NEW k \in Port
    PROVE  LET t == FlushRing(s, nf_tx(k), tx_q(k))
           IN  /\ t \in Places /\ Agree(s, t, {nf_tx(k), tx_q(k)})
               /\ Lossy(Transit(s, r, k), Transit(t, r, k))
  <1> DEFINE t == FlushRing(s, nf_tx(k), tx_q(k))
  <1>1. /\ t \in Places /\ Agree(s, t, {nf_tx(k), tx_q(k)})
        /\ t[nf_tx(k)] = << >> /\ t[tx_q(k)] \in {s[tx_q(k)], Cat(s[tx_q(k)], s[nf_tx(k)])}
    <2>1. nf_tx(k) \in Place /\ tx_q(k) \in Place /\ nf_tx(k) # tx_q(k)
      BY DEF Place, nf_tx, tx_q
    <2> QED BY <2>1, FlushRingAt
  <1> HIDE DEF t
  <1>2. /\ t[tx(k)] = s[tx(k)] /\ t[burst(k)] = s[burst(k)] /\ t[rx_q(k)] = s[rx_q(k)]
        /\ t[nf_rx(k)] = s[nf_rx(k)] /\ t[burst(RxLcore)] = s[burst(RxLcore)]
    BY <1>1, PortPlaces, Zenon DEF Agree, OfPort, tx, tx_q, nf_tx, burst, nf_rx, rx_q
  <1>3. Fwd(t, r, k) = Fwd(s, r, k) /\ Behind(t, k) = Behind(s, k)
    BY <1>2 DEF Fwd, Behind
  <1> DEFINE a == s[tx(k)]
             b == Fwd(s, r, k)
             c == s[tx_q(k)]
             d == s[nf_tx(k)]
             x == Behind(s, k)
             h == t[tx_q(k)]
  <1>4. /\ a \in Packets /\ b \in Packets /\ c \in Packets /\ d \in Packets
        /\ x \in Packets /\ h \in Packets
    BY <1>1, TransitType DEF OfPort
  <1>5. /\ Transit(s, r, k) = Cat(a, Cat(b, Cat(c, Cat(d, x))))
        /\ Transit(t, r, k) = Cat(a, Cat(b, Cat(h, Cat(<< >>, x))))
    BY <1>1, <1>2, <1>3 DEF Transit
  <1>6. h = c \/ h = Cat(c, d)
    BY <1>1
  <1> HIDE DEF a, b, c, d, x, h
  <1>7. Cat(<< >>, x) = x /\ Cat(d, x) \in Packets /\ Cat(h, x) \in Packets
        /\ Cat(c, Cat(d, x)) = Cat(Cat(c, d), x) /\ Cat(c, Cat(d, x)) \in Packets
    BY <1>4, CatFacts
  <1>8. Lossy(Cat(c, Cat(d, x)), Cat(h, x))
    <2>1. CASE h = c
      BY <1>4, <1>7, <2>1, LossyFacts
    <2>2. CASE h = Cat(c, d)
      BY <1>7, <2>2, LossyFacts
    <2> QED BY <1>6, <2>1, <2>2
  <1>9. /\ Lossy(Cat(b, Cat(c, Cat(d, x))), Cat(b, Cat(h, x)))
        /\ Cat(b, Cat(c, Cat(d, x))) \in Packets /\ Cat(b, Cat(h, x)) \in Packets
    BY <1>4, <1>7, <1>8, LossyFacts, CatFacts
  <1>10. Lossy(Cat(a, Cat(b, Cat(c, Cat(d, x)))), Cat(a, Cat(b, Cat(h, x))))
    BY <1>4, <1>9, LossyFacts
  <1> QED BY <1>1, <1>5, <1>7, <1>10, Zenon DEF t

(* flush_port_queue delivers the oldest packets and loses the others of    *)
(* its batch.                                                              *)
LEMMA FlushKniDelivers ==
    ASSUME NEW s \in Places, NEW r, NEW k \in Port, Len(s[kni_tx(k)]) <= KniFifo
    PROVE  LET t == FlushKni(s, k)
           IN  /\ t \in Places /\ Agree(s, t, {tx(k), kni_tx(k)})
               /\ \E u, v \in Packets : /\ Transit(s, r, k) = Cat(u, Cat(v, Transit(t, r, k)))
                                        /\ t[kni_tx(k)] = Cat(s[kni_tx(k)], u)
  <1> DEFINE t == FlushKni(s, k)
  <1>1. /\ t \in Places /\ Agree(s, t, {tx(k), kni_tx(k)}) /\ t[tx(k)] = << >>
        /\ \E u, v \in Packets : /\ s[tx(k)] = Cat(u, v)
                                 /\ t[kni_tx(k)] = Cat(s[kni_tx(k)], u)
    BY FlushKniAt
  <1> HIDE DEF t
  <1>2. PICK u, v \in Packets : s[tx(k)] = Cat(u, v) /\ t[kni_tx(k)] = Cat(s[kni_tx(k)], u)
    BY <1>1
  <1>3. /\ t[burst(k)] = s[burst(k)] /\ t[rx_q(k)] = s[rx_q(k)] /\ t[nf_rx(k)] = s[nf_rx(k)]
        /\ t[tx_q(k)] = s[tx_q(k)] /\ t[nf_tx(k)] = s[nf_tx(k)]
        /\ t[burst(RxLcore)] = s[burst(RxLcore)]
    BY <1>1, PortPlaces, Zenon DEF Agree, OfPort, tx, kni_tx, tx_q, nf_tx, burst, nf_rx, rx_q
  <1>4. Fwd(t, r, k) = Fwd(s, r, k) /\ Behind(t, k) = Behind(s, k)
    BY <1>3 DEF Fwd, Behind
  <1> DEFINE y == Cat(Fwd(s, r, k), Cat(s[tx_q(k)], Cat(s[nf_tx(k)], Behind(s, k))))
  <1>5. y \in Packets
    <2>1. s[tx_q(k)] \in Packets /\ s[nf_tx(k)] \in Packets
      BY TransitType DEF OfPort
    <2> QED BY <2>1, TransitType, CatFacts, Zenon
  <1>6. Transit(s, r, k) = Cat(Cat(u, v), y) /\ Transit(t, r, k) = Cat(<< >>, y)
    BY <1>1, <1>2, <1>3, <1>4, Zenon DEF Transit
  <1> HIDE DEF y
  <1>7. Transit(s, r, k) = Cat(u, Cat(v, Transit(t, r, k)))
    BY <1>5, <1>6, CatFacts
  <1> QED BY <1>1, <1>2, <1>7 DEF t

(* buffer[count++] = pkt: the first packet of a moves to the end of b.     *)
LEMMA MoveHeadAt ==
    ASSUME NEW s \in Places, NEW a \in Place, NEW b \in Place, a # b, s[a] # << >>
    PROVE  LET t == MoveHead(s, a, b)
               m == <<Head(s[a])>>
           IN  /\ t \in Places /\ Agree(s, t, {a, b})
               /\ Head(s[a]) \in Mbuf /\ m \in Packets
               /\ s[a] = Cat(m, t[a]) /\ t[b] = Cat(s[b], m)
  <1>1. s[a] \in Packets
    BY DEF Places, Packets
  <1>2. Head(s[a]) \in Mbuf /\ 1 \in 0 .. Len(s[a]) /\ Take(s[a], 1) = <<Head(s[a])>>
    BY <1>1, TakeOne
  <1>3. Take(s[a], 1) \in Packets /\ s[a] = Cat(Take(s[a], 1), Skip(s[a], 1))
    BY <1>1, <1>2, TakeSkip
  <1> DEFINE t == MoveHead(s, a, b)
  <1>4. /\ t \in Places /\ Agree(s, t, {a, b})
        /\ t[a] = Skip(s[a], 1) /\ t[b] = Cat(s[b], Take(s[a], 1))
    BY <1>2, ShiftAt DEF MoveHead
  <1> HIDE DEF t
  <1> QED BY <1>2, <1>3, <1>4 DEF t

(* The first packet of a is taken out.                                     *)
LEMMA CutHeadAt ==
    ASSUME NEW s \in Places, NEW a \in Place, s[a] # << >>
    PROVE  LET t == Cut(s, a, 1)
               m == <<Head(s[a])>>
           IN  /\ t \in Places /\ Agree(s, t, {a}) /\ m \in Packets /\ t[a] \in Packets
               /\ s[a] = Cat(m, t[a]) /\ t[a] = Tail(s[a])
  <1>1. s[a] \in Packets
    BY DEF Places, Packets
  <1>2. Head(s[a]) \in Mbuf /\ 1 \in 0 .. Len(s[a]) /\ Take(s[a], 1) = <<Head(s[a])>>
    BY <1>1, TakeOne
  <1>3. /\ Take(s[a], 1) \in Packets /\ Skip(s[a], 1) \in Packets
        /\ s[a] = Cat(Take(s[a], 1), Skip(s[a], 1))
    BY <1>1, <1>2, TakeSkip
  <1>4. Skip(s[a], 1) = Tail(s[a])
    BY <1>1, TailIsSubSeq DEF Skip, Packets
  <1> DEFINE t == Cut(s, a, 1)
  <1>5. t \in Places /\ Agree(s, t, {a}) /\ t[a] = Skip(s[a], 1)
    BY <1>2, CutAt
  <1> HIDE DEF t
  <1> QED BY <1>2, <1>3, <1>4, <1>5 DEF t

(* A burst receive takes the first packets of a; b is empty before it.     *)
LEMMA RecvBurstAt ==
    ASSUME NEW s \in Places, NEW a \in Place, NEW b \in Place, a # b, s[b] = << >>
    PROVE  LET t == RecvBurst(s, a, b)
           IN  /\ t \in Places /\ Agree(s, t, {a, b})
               /\ t[a] \in Packets /\ t[b] \in Packets /\ s[a] = Cat(t[b], t[a])
  <1>1. s[a] \in Packets /\ Len(s[a]) \in Nat
    BY LenProperties DEF Places, Packets
  <1> DEFINE n == Least(Len(s[a]), PKT_BURST_SZ)
             t == RecvBurst(s, a, b)
  <1>2. n \in 0 .. Len(s[a])
    BY <1>1, SizeAssumption DEF Least
  <1> HIDE DEF n
  <1>3. /\ Take(s[a], n) \in Packets /\ Skip(s[a], n) \in Packets
        /\ s[a] = Cat(Take(s[a], n), Skip(s[a], n))
    BY <1>1, <1>2, TakeSkip
  <1>4. /\ t \in Places /\ Agree(s, t, {a, b})
        /\ t[a] = Skip(s[a], n) /\ t[b] = Cat(s[b], Take(s[a], n))
    BY <1>2, ShiftAt, Zenon DEF RecvBurst, n
  <1> HIDE DEF t
  <1>5. t[b] = Take(s[a], n)
    BY <1>3, <1>4, CatFacts
  <1> QED BY <1>3, <1>4, <1>5 DEF t

(***************************************************************************)
(* The steps, as steps of LossyFifo.                                       *)
(***************************************************************************)

(* No packet is in transit between the rings of the coprocessors when they *)
(* are compiled out.                                                       *)
NoNf ==
    DISABLE_NF =>
        /\ rx.step \notin {"coproc", "forward"}
        /\ \A c \in Port : /\ cp[c] = "exited"
                           /\ q[tx_q(c)] = << >> /\ q[nf_tx(c)] = << >>
                           /\ q[rx_q(c)] = << >> /\ q[nf_rx(c)] = << >>

FifoNext == Fifo!Next \/ UNCHANGED Fifo!vars

(* A step that loses packets of port k, or moves them on.                  *)
LEMMA LossyStep ==
    ASSUME q \in Places, q' \in Places, NEW k \in Port,
           Agree(q, q', (OfPort(k) \ {kni_tx(k)}) \cup {burst(RxLcore)}),
           \A j \in Port \ {k} : Fwd(q', rx', j) = Fwd(q, rx, j),
           NEW x \in Accepted(q, rx, k), Lossy(x, Transit(q', rx', k))
    PROVE  FifoNext
  <1>1. kni_tx(k) \in Place /\ kni_tx(k) # burst(RxLcore)
    BY DEF kni_tx, burst, Place
  <1>2. q'[kni_tx(k)] = q[kni_tx(k)]
    BY <1>1 DEF Agree
  <1>3. Agree(q, q', OfPort(k) \cup {burst(RxLcore)} \cup {kni_rx(j) : j \in Port})
    BY DEF Agree
  <1>4. \A j \in Port \ {k} : Same(q, q', rx, rx', j)
    BY <1>3, OthersSame
  <1>5. Fifo!Next
    BY <1>2, <1>4, FifoStep, Zenon
  <1> QED BY <1>5 DEF FifoNext

(* The end of enqueue_port, once the packet is in tx: the batch may be     *)
(* flushed.                                                                *)
LEMMA PortStep ==
    ASSUME q \in Places, NEW s \in Places, NEW k \in Port,
           Agree(q, s, (OfPort(k) \ {kni_tx(k)}) \cup {burst(RxLcore)}),
           \A j \in Port \ {k} : Fwd(q, rx, j) = << >>,
           \A j \in Port \ {k} : Fwd(s, rx', j) = << >>,
           \A j \in Port \ {k} : Fwd(q', rx', j) = << >>,
           Transit(s, rx', k) \in Accepted(q, rx, k),
           Len(q[kni_tx(k)]) <= KniFifo,
           q' = s \/ q' = FlushKni(s, k)
    PROVE  FifoNext
  <1>1. CASE q' = s
    <2>1. Lossy(Transit(s, rx', k), Transit(s, rx', k))
      BY TransitType, LossyFacts
    <2>2. \A j \in Port \ {k} : Fwd(q', rx', j) = Fwd(q, rx, j)
      BY <1>1
    <2>3. q' \in Places /\ Agree(q, q', (OfPort(k) \ {kni_tx(k)}) \cup {burst(RxLcore)})
      BY <1>1
    <2>4. Lossy(Transit(s, rx', k), Transit(q', rx', k))
      BY <1>1, <2>1
    <2> DEFINE x == Transit(s, rx', k)
    <2> HIDE DEF x
    <2>5. x \in Accepted(q, rx, k) /\ Lossy(x, Transit(q', rx', k))
      BY <2>4 DEF x
    <2> QED BY <2>2, <2>3, <2>5, LossyStep
  <1>2. CASE q' = FlushKni(s, k)
    <2>1. kni_tx(k) \in Place /\ kni_tx(k) # burst(RxLcore)
      BY DEF kni_tx, burst, Place
    <2>2. s[kni_tx(k)] = q[kni_tx(k)]
      BY <2>1 DEF Agree
    <2> DEFINE r == rx'
    <2> HIDE DEF r
    <2>3. /\ q' \in Places /\ Agree(s, q', {tx(k), kni_tx(k)})
          /\ \E u, v \in Packets : /\ Transit(s, r, k) = Cat(u, Cat(v, Transit(q', r, k)))
                                   /\ q'[kni_tx(k)] = Cat(s[kni_tx(k)], u)
      BY <1>2, <2>2, FlushKniDelivers
    <2>4. Agree(q, q', OfPort(k) \cup {burst(RxLcore)} \cup {kni_rx(j) : j \in Port})
      BY <2>3 DEF Agree, OfPort
    <2>5. \A j \in Port \ {k} : Same(q, q', rx, rx', j)
      BY <2>4, OthersSame
    <2> DEFINE x == Transit(s, r, k)
    <2>6. x \in Accepted(q, rx, k)
      BY DEF r
    <2>7. \E u, v \in Packets : /\ x = Cat(u, Cat(v, Transit(q', rx', k)))
                                /\ q'[kni_tx(k)] = Cat(q[kni_tx(k)], u)
      BY <2>2, <2>3 DEF r
    <2> HIDE DEF x
    <2>8. Fifo!Next
      BY <2>3, <2>5, <2>6, <2>7, FifoStep, Zenon
    <2> QED BY <2>8 DEF FifoNext
  <1> QED BY <1>1, <1>2

(* What the invariant says that the steps below use.                       *)
LEMMA Facts ==
    ASSUME IInv
    PROVE  /\ q \in Places /\ Core(q, hdr, rx)
           /\ rx \in [step : RxSteps, idx : Port, round : {1, 2}]
           /\ \A k \in Port : Len(q[kni_tx(k)]) <= KniFifo
           /\ rx.step \notin {"route", "forward"} => q[burst(RxLcore)] = << >>
           /\ \A c \in Port : cp[c] # "process" => q[burst(c)] = << >>
  BY Zenon DEF IInv, Core, Good, Cap, Control, BurstIdle

(* Only one port has packets of the Rx lcore's burst in transit.           *)
LEMMA FwdElsewhere ==
    ASSUME NEW s, NEW r, NEW k, r.step # "forward" \/ r.idx # k
    PROVE  Fwd(s, r, k) = << >>
  BY DEF Fwd

(* A step that moves no packet in transit.                                 *)
LEMMA QuietStep ==
    ASSUME q \in Places, q' \in Places,
           Agree(q, q', {burst(RxLcore)} \cup {kni_rx(j) : j \in Port}),
           \A j \in Port : Fwd(q', rx', j) = Fwd(q, rx, j)
    PROVE  FifoNext
  <1>1. \A j \in Port : Same(q, q', rx, rx', j)
    <2> SUFFICES ASSUME NEW j \in Port PROVE Same(q, q', rx, rx', j)
      OBVIOUS
    <2>1. \A p \in OfPort(j) : /\ p \in Place /\ p # burst(RxLcore)
                               /\ p \notin {kni_rx(i) : i \in Port}
      BY PortPlaces
    <2>2. \A p \in OfPort(j) : q'[p] = q[p]
      BY <2>1 DEF Agree
    <2> QED BY <2>2, AgreeSame
  <1> QED BY <1>1, FifoSame DEF FifoNext

(* A container puts a packet into its fifo, which is not yet accepted.     *)
LEMMA SendFifo ==
    ASSUME IInv, NEW k \in Port, NEW m \in Mbuf, NEW h \in Hdr, ContainerSend(k, m, h)
    PROVE  FifoNext
  <1>1. q \in Places /\ rx' = rx /\ q' = [q EXCEPT ![kni_rx(k)] = Append(q[kni_rx(k)], m)]
    BY Facts DEF ContainerSend
  <1>2. kni_rx(k) \in Place /\ kni_rx(k) # burst(RxLcore) /\ burst(RxLcore) \in Place
    BY PortPlaces
  <1>3. q' \in Places /\ Agree(q, q', {kni_rx(k)})
    <2>1. Append(q[kni_rx(k)], m) \in Seq(Mbuf)
      BY <1>1, <1>2, PlaceSeq, AppendProperties
    <2> QED BY <1>1, <1>2, <2>1 DEF Places, Agree
  <1>4. Agree(q, q', {burst(RxLcore)} \cup {kni_rx(j) : j \in Port})
    BY <1>3 DEF Agree
  <1>5. \A j \in Port : Fwd(q', rx', j) = Fwd(q, rx, j)
    BY <1>1, <1>2, <1>3 DEF Fwd, Agree
  <1> QED BY <1>1, <1>3, <1>4, <1>5, QuietStep, Zenon

(* A container takes the oldest packet delivered to it.                    *)
LEMMA RecvFifo ==
    ASSUME IInv, NEW k \in Port, ContainerRecv(k)
    PROVE  FifoNext
  <1>1. q \in Places /\ rx' = rx /\ q' = Cut(q, kni_tx(k), 1) /\ q[kni_tx(k)] # << >>
    BY Facts DEF ContainerRecv
  <1>2. \A j \in Port : kni_tx(j) \in Place /\ burst(RxLcore) # kni_tx(j)
    BY DEF Place, kni_tx, burst
  <1>3. q' \in Places /\ Agree(q, q', {kni_tx(k)}) /\ q'[kni_tx(k)] = Tail(q[kni_tx(k)])
    BY <1>1, <1>2, CutHeadAt, Zenon
  <1>4. ASSUME NEW j \in Port PROVE InTransit(j)' = InTransit(j)
    <2>1. \A p \in (OfPort(j) \ {kni_tx(j)}) \cup {burst(RxLcore)} :
              p \in Place /\ p # kni_tx(k)
      BY <1>2, PortPlaces, Zenon DEF OfPort, kni_tx, tx, tx_q, nf_tx, burst, rx_q, nf_rx
    <2>2. \A p \in (OfPort(j) \ {kni_tx(j)}) \cup {burst(RxLcore)} : q'[p] = q[p]
      BY <1>3, <2>1 DEF Agree
    <2>3. /\ q'[tx(j)] = q[tx(j)] /\ q'[burst(RxLcore)] = q[burst(RxLcore)]
          /\ q'[tx_q(j)] = q[tx_q(j)] /\ q'[nf_tx(j)] = q[nf_tx(j)]
          /\ q'[burst(j)] = q[burst(j)] /\ q'[rx_q(j)] = q[rx_q(j)]
          /\ q'[nf_rx(j)] = q[nf_rx(j)]
      BY <2>2 DEF OfPort, kni_tx, tx, tx_q, nf_tx, burst, rx_q, nf_rx
    <2>4. Transit(q', rx', j) = Transit(q, rx, j)
      BY <1>1, <2>3 DEF Transit, Behind, Fwd
    <2> QED BY <1>1, <1>3, <2>4, InTransitIs
  <1> DEFINE chan == [j \in Port |-> InTransit(j)]
             out == [j \in Port |-> q[kni_tx(j)]]
  <1>5. chan' = chan
    BY <1>4
  <1>6. out' = [out EXCEPT ![k] = Tail(out[k])] /\ out[k] # << >>
    <2>1. \A j \in Port \ {k} : kni_tx(j) # kni_tx(k)
      BY DEF kni_tx
    <2>2. \A j \in Port \ {k} : q'[kni_tx(j)] = q[kni_tx(j)]
      BY <1>2, <1>3, <2>1, Zenon DEF Agree
    <2> QED BY <1>1, <1>3, <2>2, Zenon DEF kni_tx
  <1>7. Fifo!Receive(k)
    BY <1>5, <1>6, Zenon DEF Fifo!Receive
  <1> QED BY <1>7 DEF FifoNext, Fifo!Next

(* A step of the Rx lcore that only goes on in its loops.                  *)
LEMMA RxMoveFifo ==
    ASSUME IInv, RxLoop \/ RxKniDone \/ RxCoprocDone
    PROVE  FifoNext
  <1>1. /\ q \in Places /\ rx \in [step : RxSteps, idx : Port, round : {1, 2}]
        /\ rx.step = "forward" => q[burst(RxLcore)] = << >>
        /\ q' = q
    BY Facts DEF RxLoop, RxKniDone, RxCoprocDone
  <1>2. rx'.step # "forward"
    <2>1. CASE RxLoop
      BY <2>1 DEF RxLoop, RxAt
    <2>2. CASE RxKniDone
      BY <1>1, <2>2, NextIdxType DEF RxKniDone, RxSteps
    <2>3. CASE RxCoprocDone
      BY <1>1, <2>3, NextIdxType DEF RxCoprocDone, RxSteps
    <2> QED BY <2>1, <2>2, <2>3
  <1>3. \A j \in Port : Fwd(q', rx', j) = Fwd(q, rx, j)
    BY <1>1, <1>2 DEF Fwd
  <1>4. q' \in Places /\ Agree(q, q', {burst(RxLcore)} \cup {kni_rx(j) : j \in Port})
    BY <1>1 DEF Agree
  <1> QED BY <1>1, <1>3, <1>4, QuietStep

(* A burst received from a port is not yet accepted for another.           *)
LEMMA RxKniBurstFifo ==
    ASSUME IInv, RxKniBurst
    PROVE  FifoNext
  <1>1. /\ q \in Places /\ rx.idx \in Port /\ rx.step = "kni" /\ rx'.step = "route"
        /\ q[burst(RxLcore)] = << >>
        /\ q' = RecvBurst(q, kni_rx(rx.idx), burst(RxLcore))
    BY Facts DEF RxKniBurst, RxAt
  <1>2. kni_rx(rx.idx) \in Place /\ kni_rx(rx.idx) # burst(RxLcore) /\ burst(RxLcore) \in Place
    BY <1>1, PortPlaces
  <1>3. q' \in Places /\ Agree(q, q', {kni_rx(rx.idx), burst(RxLcore)})
    BY <1>1, <1>2, RecvBurstAt
  <1>4. Agree(q, q', {burst(RxLcore)} \cup {kni_rx(j) : j \in Port})
    BY <1>1, <1>3 DEF Agree
  <1>5. \A j \in Port : Fwd(q', rx', j) = Fwd(q, rx, j)
    BY <1>1, FwdElsewhere
  <1> QED BY <1>1, <1>3, <1>4, <1>5, QuietStep

(* The packets of a coprocessor's transmit ring, in the Rx lcore's burst.  *)
LEMMA RxCoprocBurstFifo ==
    ASSUME IInv, RxCoprocBurst
    PROVE  FifoNext
  <1> DEFINE k == rx.idx
             B == burst(RxLcore)
  <1>1. /\ q \in Places /\ k \in Port /\ rx.step = "coproc" /\ rx'.step = "forward"
        /\ rx'.idx = k /\ q[B] = << >> /\ q' = RecvBurst(q, tx_q(k), B)
    BY Facts DEF RxCoprocBurst, RxAt
  <1> HIDE DEF k, B
  <1>2. tx_q(k) \in Place /\ tx_q(k) # B /\ B \in Place
    BY <1>1, PortPlaces, Zenon DEF B, OfPort, tx_q, burst
  <1>3. /\ q' \in Places /\ Agree(q, q', {tx_q(k), B})
        /\ q'[tx_q(k)] \in Packets /\ q'[B] \in Packets
        /\ q[tx_q(k)] = Cat(q'[B], q'[tx_q(k)])
    BY <1>1, <1>2, RecvBurstAt
  <1>4. Agree(q, q', (OfPort(k) \ {kni_tx(k)}) \cup {burst(RxLcore)})
    BY <1>3 DEF Agree, OfPort, B, tx_q, kni_tx
  <1>5. \A j \in Port \ {k} : Fwd(q', rx', j) = Fwd(q, rx, j)
    BY <1>1, FwdElsewhere
  <1>6. Fwd(q, rx, k) = << >> /\ Fwd(q', rx', k) = q'[B]
    BY <1>1 DEF Fwd, B
  <1>7. Transit(q', rx', k) = Transit(q, rx, k)
    <2> DEFINE a == q[tx(k)]
               u == q'[B]
               v == q'[tx_q(k)]
               y == Cat(q[nf_tx(k)], Behind(q, k))
    <2>1. a \in Packets /\ u \in Packets /\ v \in Packets /\ y \in Packets
      BY <1>1, <1>3, TransitType, CatFacts, Zenon DEF OfPort
    <2>2. q'[tx(k)] = a /\ Cat(q'[nf_tx(k)], Behind(q', k)) = y
      <3>1. \A p \in {tx(k), nf_tx(k), burst(k), rx_q(k), nf_rx(k)} :
                p \in Place /\ p # tx_q(k) /\ p # B
        <4>1. \A p \in OfPort(k) : p \in Place /\ p # B
          BY <1>1, PortPlaces DEF B
        <4>2. \A p \in {tx(k), nf_tx(k), burst(k), rx_q(k), nf_rx(k)} : p # tx_q(k)
          BY DEF tx, tx_q, nf_tx, burst, rx_q, nf_rx
        <4> QED BY <4>1, <4>2 DEF OfPort
      <3>2. \A p \in {tx(k), nf_tx(k), burst(k), rx_q(k), nf_rx(k)} : q'[p] = q[p]
        BY <1>3, <3>1 DEF Agree
      <3> QED BY <3>2 DEF Behind
    <2>3. /\ Transit(q, rx, k) = Cat(a, Cat(<< >>, Cat(Cat(u, v), y)))
          /\ Transit(q', rx', k) = Cat(a, Cat(u, Cat(v, y)))
      BY <1>3, <1>6, <2>2 DEF Transit
    <2> HIDE DEF a, u, v, y
    <2>4. Cat(<< >>, Cat(Cat(u, v), y)) = Cat(u, Cat(v, y))
      BY <2>1, CatFacts
    <2> QED BY <2>3, <2>4
  <1> DEFINE x == Transit(q, rx, k)
  <1>8. x \in Accepted(q, rx, k) /\ Lossy(x, Transit(q', rx', k))
    BY <1>1, <1>7, TransitType, LossyFacts DEF Accepted
  <1> HIDE DEF x
  <1> QED BY <1>1, <1>3, <1>4, <1>5, <1>8, LossyStep, Zenon

(* flush_port_queue in flush_all.                                          *)
LEMMA RxFlushPortFifo ==
    ASSUME IInv, RxFlushPort
    PROVE  FifoNext
  <1> DEFINE k == rx.idx
  <1>1. /\ q \in Places /\ rx \in [step : RxSteps, idx : Port, round : {1, 2}]
        /\ rx.step = "flush_port" /\ NextIdx("flush_port", "flush_nf", rx.round)
        /\ q' = FlushKni(q, k) /\ Len(q[kni_tx(k)]) <= KniFifo /\ k \in Port
    BY Facts, Zenon DEF RxFlushPort, flush_port_queue
  <1>2. rx'.step # "forward"
    BY <1>1, NextIdxType DEF RxSteps
  <1> HIDE DEF k
  <1>3. Agree(q, q, (OfPort(k) \ {kni_tx(k)}) \cup {burst(RxLcore)})
    BY DEF Agree
  <1>4. /\ \A j \in Port : Fwd(q, rx, j) = << >>
        /\ \A j \in Port : Fwd(q, rx', j) = << >>
        /\ \A j \in Port : Fwd(q', rx', j) = << >>
    BY <1>1, <1>2, FwdElsewhere
  <1>5. Transit(q, rx', k) = Transit(q, rx, k)
    BY <1>1, <1>4 DEF Transit
  <1>6. Transit(q, rx', k) \in Accepted(q, rx, k)
    BY <1>5 DEF Accepted
  <1> QED BY <1>1, <1>3, <1>4, <1>6, PortStep

(* flush_nf_rx_queue in flush_all.                                         *)
LEMMA RxFlushNfFifo ==
    ASSUME IInv, RxFlushNf
    PROVE  FifoNext
  <1> DEFINE k == rx.idx
  <1>1. /\ q \in Places /\ rx \in [step : RxSteps, idx : Port, round : {1, 2}]
        /\ rx.step = "flush_nf" /\ k \in Port
        /\ q' = FlushRing(q, nf_rx(k), rx_q(k))
        /\ NextIdx("flush_nf", "coproc", 2) \/ NextIdx("flush_nf", "loop", 1)
    BY Facts, Zenon DEF RxFlushNf, flush_nf_rx_queue
  <1>2. rx'.step # "forward"
    BY <1>1, NextIdxType DEF RxSteps
  <1> HIDE DEF k
  <1>3. \A j \in Port : Fwd(q', rx', j) = << >> /\ Fwd(q, rx, j) = << >> /\ Fwd(q', rx, j) = << >>
    BY <1>1, <1>2, FwdElsewhere
  <1>4. /\ q' \in Places /\ Agree(q, q', {nf_rx(k), rx_q(k)})
        /\ Lossy(Transit(q, rx, k), Transit(q', rx, k))
    BY <1>1, FlushNfRxLossy, Zenon
  <1>5. Agree(q, q', (OfPort(k) \ {kni_tx(k)}) \cup {burst(RxLcore)})
    BY <1>4 DEF Agree, OfPort, nf_rx, rx_q, kni_tx
  <1>6. Transit(q', rx', k) = Transit(q', rx, k)
    BY <1>1, <1>3 DEF Transit
  <1> DEFINE x == Transit(q, rx, k)
  <1>7. x \in Accepted(q, rx, k) /\ Lossy(x, Transit(q', rx', k))
    BY <1>4, <1>6 DEF Accepted
  <1> HIDE DEF x
  <1> QED BY <1>1, <1>3, <1>4, <1>5, <1>7, LossyStep

(* enqueue_port in the loop over a coprocessor's burst: the packet moves   *)
(* on from the burst to tx.                                                *)
LEMMA RxForwardFifo ==
    ASSUME IInv, RxForward
    PROVE  FifoNext
  <1> DEFINE k == rx.idx
             B == burst(RxLcore)
             s == MoveHead(q, B, tx(k))
             m == <<Head(q[B])>>
  <1>1. /\ q \in Places /\ k \in Port /\ rx.step = "forward" /\ rx' = rx
        /\ q[B] # << >> /\ Len(q[kni_tx(k)]) <= KniFifo
        /\ q' = s \/ q' = FlushKni(s, k)
    BY Facts DEF RxForward, enqueue_port, flush_port_queue
  <1> HIDE DEF k, B
  <1>2. tx(k) \in Place /\ tx(k) # B /\ B \in Place
    BY <1>1, PortPlaces, Zenon DEF B, OfPort, tx, burst
  <1>3. /\ s \in Places /\ Agree(q, s, {B, tx(k)}) /\ m \in Packets
        /\ q[B] = Cat(m, s[B]) /\ s[tx(k)] = Cat(q[tx(k)], m)
    BY <1>1, <1>2, MoveHeadAt
  <1> HIDE DEF s, m
  <1>4. Agree(q, s, (OfPort(k) \ {kni_tx(k)}) \cup {burst(RxLcore)})
    BY <1>3 DEF Agree, OfPort, B, tx, kni_tx
  <1>5. \A j \in Port \ {k} : \A z : Fwd(z, rx, j) = << >>
    BY DEF Fwd, k
  <1>6. Transit(s, rx, k) = Transit(q, rx, k)
    <2> DEFINE a == q[tx(k)]
               v == s[B]
               y == Cat(q[tx_q(k)], Cat(q[nf_tx(k)], Behind(q, k)))
    <2>1. a \in Packets /\ v \in Packets /\ y \in Packets
      BY <1>1, <1>3, TransitType, CatFacts, Zenon DEF OfPort, B
    <2>2. Cat(s[tx_q(k)], Cat(s[nf_tx(k)], Behind(s, k))) = y
      <3>1. \A p \in {tx_q(k), nf_tx(k), burst(k), rx_q(k), nf_rx(k)} :
                p \in Place /\ p # tx(k) /\ p # B
        <4>1. \A p \in OfPort(k) : p \in Place /\ p # B
          BY <1>1, PortPlaces DEF B
        <4>2. \A p \in {tx_q(k), nf_tx(k), burst(k), rx_q(k), nf_rx(k)} : p # tx(k)
          BY DEF tx, tx_q, nf_tx, burst, rx_q, nf_rx
        <4> QED BY <4>1, <4>2 DEF OfPort
      <3>2. \A p \in {tx_q(k), nf_tx(k), burst(k), rx_q(k), nf_rx(k)} : s[p] = q[p]
        BY <1>3, <3>1 DEF Agree
      <3> QED BY <3>2 DEF Behind
    <2>3. Fwd(q, rx, k) = Cat(m, v) /\ Fwd(s, rx, k) = v
      BY <1>1, <1>3 DEF Fwd, B, k
    <2>4. /\ Transit(q, rx, k) = Cat(a, Cat(Cat(m, v), y))
          /\ Transit(s, rx, k) = Cat(Cat(a, m), Cat(v, y))
      BY <1>3, <2>2, <2>3, Zenon DEF Transit
    <2> HIDE DEF a, v, y
    <2>5. Cat(a, Cat(Cat(m, v), y)) = Cat(Cat(a, m), Cat(v, y))
      <3>1. Cat(v, y) \in Packets /\ Cat(Cat(m, v), y) = Cat(m, Cat(v, y))
        BY <1>3, <2>1, CatFacts
      <3> QED BY <1>3, <2>1, <3>1, CatFacts
    <2> QED BY <2>4, <2>5
  <1>7. Transit(s, rx', k) \in Accepted(q, rx, k)
    BY <1>1, <1>6 DEF Accepted
  <1> QED BY <1>1, <1>3, <1>4, <1>5, <1>7, PortStep, Zenon

(* A packet is routed: it is freed, or accepted for a port and then kept   *)
(* or lost with the batch it completes.                                    *)
LEMMA RxRouteFifo ==
    ASSUME IInv, NoNf, RxRoute
    PROVE  FifoNext
  <1> DEFINE B == burst(RxLcore)
             k == get_next_hop(hdr[Head(q[B])])
             m == <<Head(q[B])>>
  <1>1. /\ q \in Places /\ rx.step = "route" /\ rx' = rx /\ q[B] # << >>
        /\ IF k = UNKNOWN_PORT THEN FreeHead(RxLcore)
           ELSE IF DISABLE_NF THEN enqueue_port(RxLcore, k)
                              ELSE enqueue_nf_rx(RxLcore, k)
        /\ \A j \in Port : Len(q[kni_tx(j)]) <= KniFifo
    BY Facts DEF RxRoute
  <1>2. k \in Port \cup {UNKNOWN_PORT}
    <2>1. hdr[Head(q[B])] \in Hdr
      BY <1>1, Facts, Bursts, HeadHdr, Zenon
    <2> QED BY <2>1, NextHop
  <1>3. \A j \in Port : \A z : Fwd(z, rx, j) = << >>
    BY <1>1, FwdElsewhere, Zenon
  <1>4. B \in Place
    BY Bursts
  <1>5. CASE k = UNKNOWN_PORT
    <2>1. q' = Cut(q, B, 1)
      BY <1>1, <1>5 DEF FreeHead
    <2>2. q' \in Places /\ Agree(q, q', {B})
      BY <1>1, <1>4, <2>1, CutHeadAt, Zenon
    <2>3. Agree(q, q', {burst(RxLcore)} \cup {kni_rx(j) : j \in Port})
      BY <2>2 DEF Agree
    <2> QED BY <1>1, <1>3, <2>2, <2>3, QuietStep
  <1>6. CASE k # UNKNOWN_PORT /\ DISABLE_NF
    <2> DEFINE s == MoveHead(q, B, tx(k))
    <2>1. k \in Port /\ (q' = s \/ q' = FlushKni(s, k)) /\ Len(q[kni_tx(k)]) <= KniFifo
      BY <1>1, <1>2, <1>6, Zenon DEF enqueue_port, flush_port_queue
    <2> HIDE DEF k
    <2>2. tx(k) \in Place /\ tx(k) # B
      BY <2>1, PortPlaces, Zenon DEF OfPort, tx, burst
    <2>3. /\ s \in Places /\ Agree(q, s, {B, tx(k)}) /\ m \in Packets /\ Head(q[B]) \in Mbuf
          /\ s[tx(k)] = Cat(q[tx(k)], m)
      BY <1>1, <1>4, <2>2, MoveHeadAt, Zenon
    <2> HIDE DEF s
    <2>4. Agree(q, s, (OfPort(k) \ {kni_tx(k)}) \cup {burst(RxLcore)})
      BY <2>3 DEF Agree, OfPort, tx, kni_tx
    <2>5. Transit(s, rx', k) = Cat(Transit(q, rx, k), m)
      <3>1. \A p \in {tx_q(k), nf_tx(k), burst(k), rx_q(k), nf_rx(k)} :
                p \in Place /\ p # tx(k) /\ p # B
        <4>1. \A p \in OfPort(k) : p \in Place /\ p # B
          BY <2>1, PortPlaces
        <4>2. \A p \in {tx_q(k), nf_tx(k), burst(k), rx_q(k), nf_rx(k)} : p # tx(k)
          BY DEF tx, tx_q, nf_tx, burst, rx_q, nf_rx
        <4> QED BY <4>1, <4>2 DEF OfPort
      <3>2. \A p \in {tx_q(k), nf_tx(k), burst(k), rx_q(k), nf_rx(k)} :
                q[p] = << >> /\ s[p] = << >>
        <4>1. q[burst(k)] = << >>
          BY <1>6, <2>1, Facts DEF NoNf
        <4>2. \A p \in {tx_q(k), nf_tx(k), burst(k), rx_q(k), nf_rx(k)} : q[p] = << >>
          BY <1>6, <2>1, <4>1 DEF NoNf
        <4> QED BY <2>3, <3>1, <4>2 DEF Agree
      <3>3. /\ Transit(s, rx', k) = Cat(s[tx(k)], Cat(<< >>, Cat(<< >>, Cat(<< >>,
                                        Cat(<< >>, Cat(<< >>, << >>))))))
            /\ Transit(q, rx, k) = Cat(q[tx(k)], Cat(<< >>, Cat(<< >>, Cat(<< >>,
                                        Cat(<< >>, Cat(<< >>, << >>))))))
        BY <1>1, <1>3, <2>1, <3>2, Zenon DEF Transit, Behind
      <3>4. Transit(s, rx', k) = s[tx(k)] /\ Transit(q, rx, k) = q[tx(k)]
        <4>1. s[tx(k)] \in Packets /\ q[tx(k)] \in Packets
          BY <1>1, <2>1, <2>3, TransitType, Zenon DEF OfPort
        <4> QED BY <3>3, <4>1, CatFacts
      <3> QED BY <2>3, <3>4, Zenon
    <2>6. Transit(s, rx', k) \in Accepted(q, rx, k)
      BY <2>3, <2>5, Zenon DEF Accepted
    <2> QED BY <1>1, <1>3, <2>1, <2>3, <2>4, <2>6, PortStep, Zenon
  <1>7. CASE k # UNKNOWN_PORT /\ ~DISABLE_NF
    <2> DEFINE s == MoveHead(q, B, nf_rx(k))
    <2>1. k \in Port /\ (q' = s \/ q' = FlushRing(s, nf_rx(k), rx_q(k)))
      BY <1>1, <1>2, <1>7, Zenon DEF enqueue_nf_rx, flush_nf_rx_queue
    <2> HIDE DEF k
    <2>2. nf_rx(k) \in Place /\ nf_rx(k) # B
      BY <2>1, PortPlaces, Zenon DEF OfPort, nf_rx, burst
    <2>3. /\ s \in Places /\ Agree(q, s, {B, nf_rx(k)}) /\ m \in Packets /\ Head(q[B]) \in Mbuf
          /\ s[nf_rx(k)] = Cat(q[nf_rx(k)], m)
      BY <1>1, <1>4, <2>2, MoveHeadAt, Zenon
    <2> HIDE DEF s
    <2>4. Transit(s, rx, k) = Cat(Transit(q, rx, k), m)
      <3>1. \A p \in {tx(k), tx_q(k), nf_tx(k), burst(k), rx_q(k)} :
                p \in Place /\ p # nf_rx(k) /\ p # B
        <4>1. \A p \in OfPort(k) : p \in Place /\ p # B
          BY <2>1, PortPlaces
        <4>2. \A p \in {tx(k), tx_q(k), nf_tx(k), burst(k), rx_q(k)} : p # nf_rx(k)
          BY DEF tx, tx_q, nf_tx, burst, rx_q, nf_rx
        <4> QED BY <4>1, <4>2 DEF OfPort
      <3>2. \A p \in {tx(k), tx_q(k), nf_tx(k), burst(k), rx_q(k)} : s[p] = q[p]
        BY <2>3, <3>1 DEF Agree
      <3> DEFINE a == q[tx(k)]
                 c == q[tx_q(k)]
                 d == q[nf_tx(k)]
                 e == q[burst(k)]
                 f == q[rx_q(k)]
                 g == q[nf_rx(k)]
      <3>3. /\ a \in Packets /\ c \in Packets /\ d \in Packets /\ e \in Packets
            /\ f \in Packets /\ g \in Packets
        BY <1>1, <2>1, TransitType DEF OfPort
      <3>4. /\ Transit(q, rx, k) = Cat(a, Cat(<< >>, Cat(c, Cat(d, Cat(e, Cat(f, g))))))
            /\ Transit(s, rx, k) = Cat(a, Cat(<< >>, Cat(c, Cat(d, Cat(e, Cat(f, Cat(g, m)))))))
        BY <1>3, <2>1, <2>3, <3>2, Zenon DEF Transit, Behind
      <3> HIDE DEF a, c, d, e, f, g, m
      <3>5. Cat(f, Cat(g, m)) = Cat(Cat(f, g), m) /\ Cat(f, g) \in Packets
        BY <2>3, <3>3, CatFacts
      <3>6. Cat(e, Cat(f, Cat(g, m))) = Cat(Cat(e, Cat(f, g)), m) /\ Cat(e, Cat(f, g)) \in Packets
        BY <2>3, <3>3, <3>5, CatFacts
      <3> DEFINE w == Cat(e, Cat(f, g))
                 z == Cat(e, Cat(f, Cat(g, m)))
      <3>7. w \in Packets /\ z = Cat(w, m)
        BY <3>6
      <3> HIDE DEF w, z
      <3>8. Cat(d, z) = Cat(Cat(d, w), m) /\ Cat(d, w) \in Packets
        BY <2>3, <3>3, <3>7, CatFacts
      <3>9. Cat(c, Cat(d, z)) = Cat(Cat(c, Cat(d, w)), m) /\ Cat(c, Cat(d, w)) \in Packets
        BY <2>3, <3>3, <3>8, CatFacts
      <3>10. /\ Cat(<< >>, Cat(c, Cat(d, z))) = Cat(Cat(<< >>, Cat(c, Cat(d, w))), m)
             /\ Cat(<< >>, Cat(c, Cat(d, w))) \in Packets
        BY <2>3, <3>9, CatFacts
      <3>11. Cat(a, Cat(<< >>, Cat(c, Cat(d, z)))) = Cat(Cat(a, Cat(<< >>, Cat(c, Cat(d, w)))), m)
        BY <2>3, <3>3, <3>10, CatFacts
      <3> QED BY <3>4, <3>11 DEF w, z
    <2> DEFINE x == Transit(s, rx, k)
    <2>5. x \in Accepted(q, rx, k) /\ x \in Packets
      BY <2>1, <2>3, <2>4, TransitType, Zenon DEF Accepted
    <2>6. /\ q' \in Places
          /\ Agree(q, q', (OfPort(k) \ {kni_tx(k)}) \cup {burst(RxLcore)})
          /\ Lossy(x, Transit(q', rx', k))
      <3>1. CASE q' = s
        BY <1>1, <2>3, <2>5, <3>1, LossyFacts, Zenon DEF Agree, OfPort, nf_rx, kni_tx
      <3>2. CASE q' = FlushRing(s, nf_rx(k), rx_q(k))
        <4>1. /\ q' \in Places /\ Agree(s, q', {nf_rx(k), rx_q(k)})
              /\ Lossy(Transit(s, rx, k), Transit(q', rx, k))
          BY <2>1, <2>3, <3>2, FlushNfRxLossy
        <4>2. Agree(q, q', (OfPort(k) \ {kni_tx(k)}) \cup {burst(RxLcore)})
          BY <2>3, <4>1, Zenon DEF Agree, OfPort, nf_rx, rx_q, kni_tx
        <4> QED BY <1>1, <4>1, <4>2, Zenon
      <3> QED BY <2>1, <3>1, <3>2
    <2> HIDE DEF x
    <2> QED BY <1>1, <1>3, <2>1, <2>5, <2>6, LossyStep, Zenon
  <1> QED BY <1>2, <1>5, <1>6, <1>7

(* A coprocessor moves packets on or frees them, the oldest first.         *)
LEMMA CpFifo ==
    ASSUME IInv, NEW k \in Port, CpStep(k)
    PROVE  FifoNext
  <1>1. /\ q \in Places /\ rx' = rx
        /\ \A p \in OfPort(k) : p \in Place /\ p # burst(RxLcore)
        /\ burst(RxLcore) \in Place
    BY Facts, PortPlaces, Zenon DEF CpStep, CpExit, CpBurst, CpProcess, CpFlush
  <1>2. \A z : \A j \in Port : z[burst(RxLcore)] = q[burst(RxLcore)] => Fwd(z, rx, j) = Fwd(q, rx, j)
    BY DEF Fwd
  <1>3. ASSUME NEW S \in SUBSET (OfPort(k) \ {kni_tx(k)}), q' \in Places, Agree(q, q', S),
               Lossy(Transit(q, rx, k), Transit(q', rx, k))
        PROVE  FifoNext
    <2>1. Agree(q, q', (OfPort(k) \ {kni_tx(k)}) \cup {burst(RxLcore)})
      BY <1>3 DEF Agree
    <2>2. q'[burst(RxLcore)] = q[burst(RxLcore)]
      BY <1>1, <1>3 DEF Agree
    <2>3. \A j \in Port \ {k} : Fwd(q', rx', j) = Fwd(q, rx, j)
      BY <1>1, <1>2, <2>2
    <2> DEFINE x == Transit(q, rx, k)
    <2>4. x \in Accepted(q, rx, k) /\ Lossy(x, Transit(q', rx', k))
      BY <1>1, <1>3 DEF Accepted
    <2> HIDE DEF x
    <2> QED BY <1>1, <1>3, <2>1, <2>3, <2>4, LossyStep
  <1>4. CASE CpExit(k)
    <2>1. q' = q
      BY <1>4 DEF CpExit
    <2>2. q' \in Places /\ Agree(q, q', {burst(RxLcore)} \cup {kni_rx(j) : j \in Port})
      BY <1>1, <2>1 DEF Agree
    <2> QED BY <1>1, <2>1, <2>2, QuietStep
  <1> DEFINE b == burst(k)
             a == q[tx(k)]
             w == Fwd(q, rx, k)
             c == q[tx_q(k)]
             d == q[nf_tx(k)]
             e == q[b]
             f == q[rx_q(k)]
             g == q[nf_rx(k)]
             m == <<Head(e)>>
  <1>5. /\ a \in Packets /\ w \in Packets /\ c \in Packets /\ d \in Packets
        /\ e \in Packets /\ f \in Packets /\ g \in Packets
    BY <1>1, TransitType DEF OfPort
  <1>6. b \in Place /\ b # tx(k) /\ b # tx_q(k) /\ b # nf_tx(k) /\ b # rx_q(k) /\ b # nf_rx(k)
        /\ b # kni_tx(k) /\ b # burst(RxLcore)
    BY <1>1 DEF OfPort, burst, tx, tx_q, nf_tx, rx_q, nf_rx, kni_tx
  <1>7. CASE CpBurst(k)
    <2>1. q' = RecvBurst(q, rx_q(k), b) /\ e = << >>
      BY <1>7, Facts DEF CpBurst
    <2>2. rx_q(k) \in Place
      BY <1>1 DEF OfPort
    <2>3. /\ q' \in Places /\ Agree(q, q', {rx_q(k), b})
          /\ q'[rx_q(k)] \in Packets /\ q'[b] \in Packets /\ f = Cat(q'[b], q'[rx_q(k)])
      BY <1>1, <1>6, <2>1, <2>2, RecvBurstAt, Zenon
    <2>4. \A p \in {tx(k), tx_q(k), nf_tx(k), nf_rx(k), burst(RxLcore)} : q'[p] = q[p]
      <3>1. \A p \in {tx(k), tx_q(k), nf_tx(k), nf_rx(k), burst(RxLcore)} :
                p \in Place /\ p # rx_q(k) /\ p # b
        BY <1>1, <1>6 DEF OfPort, burst, tx, tx_q, nf_tx, rx_q, nf_rx
      <3> QED BY <2>3, <3>1 DEF Agree
    <2>5. Fwd(q', rx, k) = w
      BY <1>2, <2>4
    <2>6. Behind(q', k) = Cat(q'[b], Cat(q'[rx_q(k)], g)) /\ Behind(q, k) = Cat(<< >>, Cat(f, g))
      BY <2>1, <2>4 DEF Behind
    <2>7. Behind(q', k) = Behind(q, k)
      <3> DEFINE u == q'[b]
                 v == q'[rx_q(k)]
      <3> HIDE DEF b, u, v, f, g
      <3>1. u \in Packets /\ v \in Packets /\ f = Cat(u, v)
        BY <2>3 DEF u, v
      <3>2. Cat(<< >>, Cat(f, g)) = Cat(u, Cat(v, g))
        BY <1>5, <3>1, CatFacts
      <3> QED BY <2>6, <3>2 DEF u, v
    <2>8. Transit(q', rx, k) = Transit(q, rx, k)
      BY <2>4, <2>5, <2>7 DEF Transit
    <2>9. Lossy(Transit(q, rx, k), Transit(q', rx, k))
      BY <1>1, <2>8, TransitType, LossyFacts
    <2>10. {rx_q(k), b} \in SUBSET (OfPort(k) \ {kni_tx(k)})
      BY <1>6 DEF OfPort, rx_q, kni_tx
    <2> QED BY <1>3, <2>3, <2>9, <2>10
  <1>8. CASE CpProcess(k) /\ ~hdr[Head(e)].accept
    <2>1. q' = Cut(q, b, 1) /\ e # << >>
      BY <1>8 DEF CpProcess, FreeHead
    <2>2. /\ q' \in Places /\ Agree(q, q', {b}) /\ m \in Packets /\ q'[b] \in Packets
          /\ e = Cat(m, q'[b])
      BY <1>1, <1>6, <2>1, CutHeadAt, Zenon
    <2>3. \A p \in {tx(k), tx_q(k), nf_tx(k), rx_q(k), nf_rx(k), burst(RxLcore)} : q'[p] = q[p]
      <3>1. \A p \in {tx(k), tx_q(k), nf_tx(k), rx_q(k), nf_rx(k), burst(RxLcore)} :
                p \in Place /\ p # b
        BY <1>1, <1>6 DEF OfPort
      <3> QED BY <2>2, <3>1, Zenon DEF Agree
    <2>4. Fwd(q', rx, k) = w
      BY <1>2, <2>3
    <2>5. Behind(q, k) = Cat(e, Cat(f, g)) /\ Behind(q', k) = Cat(q'[b], Cat(f, g))
      BY <2>3 DEF Behind
    <2>6. Lossy(Behind(q, k), Behind(q', k))
      <3> DEFINE v == q'[b]
                 y == Cat(f, g)
      <3>1. v \in Packets /\ y \in Packets /\ e = Cat(m, v)
        BY <1>5, <2>2, CatFacts, Zenon
      <3> HIDE DEF v, y, e, m
      <3>2. Cat(e, y) = Cat(m, Cat(v, y)) /\ Cat(v, y) \in Packets
        BY <2>2, <3>1, CatFacts
      <3>3. Lossy(Cat(m, Cat(v, y)), Cat(v, y))
        BY <2>2, <3>2, LossyFacts
      <3> QED BY <2>5, <3>2, <3>3 DEF v, y
    <2>7. Lossy(Transit(q, rx, k), Transit(q', rx, k))
      BY <1>1, <2>2, <2>3, <2>4, <2>6, LossBehind, Zenon
    <2>8. {b} \in SUBSET (OfPort(k) \ {kni_tx(k)})
      BY <1>6 DEF OfPort
    <2> QED BY <1>3, <2>2, <2>7, <2>8
  <1>9. CASE CpProcess(k) /\ hdr[Head(e)].accept
    <2> DEFINE s == MoveHead(q, b, nf_tx(k))
    <2>1. (q' = s \/ q' = FlushRing(s, nf_tx(k), tx_q(k))) /\ e # << >>
      BY <1>9, Zenon DEF CpProcess, enqueue_nf_tx, flush_nf_tx_queue
    <2>2. nf_tx(k) \in Place
      BY <1>1 DEF OfPort
    <2>3. /\ s \in Places /\ Agree(q, s, {b, nf_tx(k)}) /\ m \in Packets
          /\ e = Cat(m, s[b]) /\ s[nf_tx(k)] = Cat(d, m)
      BY <1>1, <1>6, <2>1, <2>2, MoveHeadAt, Zenon
    <2> HIDE DEF s
    <2>4. \A p \in {tx(k), tx_q(k), rx_q(k), nf_rx(k), burst(RxLcore)} : s[p] = q[p]
      <3>1. \A p \in {tx(k), tx_q(k), rx_q(k), nf_rx(k), burst(RxLcore)} :
                p \in Place /\ p # b /\ p # nf_tx(k)
        BY <1>1, <1>6 DEF OfPort, burst, tx, tx_q, nf_tx, rx_q, nf_rx
      <3> QED BY <2>3, <3>1, Zenon DEF Agree
    <2>5. Fwd(s, rx, k) = w
      BY <1>2, <2>4
    <2>6. Transit(s, rx, k) = Transit(q, rx, k)
      <3> DEFINE v == s[b]
                 y == Cat(f, g)
      <3>1. v \in Packets /\ y \in Packets
        BY <1>5, <2>3, TransitType, CatFacts, Zenon DEF OfPort
      <3>2. /\ Transit(q, rx, k) = Cat(a, Cat(w, Cat(c, Cat(d, Cat(e, y)))))
            /\ Transit(s, rx, k) = Cat(a, Cat(w, Cat(c, Cat(Cat(d, m), Cat(v, y)))))
        BY <2>3, <2>4, <2>5, Zenon DEF Transit, Behind
      <3>3. Cat(d, Cat(e, y)) = Cat(Cat(d, m), Cat(v, y))
        <4>1. e = Cat(m, v)
          BY <2>3
        <4> HIDE DEF v, y, d, e, m
        <4>2. Cat(e, y) = Cat(m, Cat(v, y)) /\ Cat(v, y) \in Packets
          BY <2>3, <3>1, <4>1, CatFacts
        <4>3. d \in Packets /\ m \in Packets
          BY <1>5, <2>3
        <4>4. Cat(Cat(d, m), Cat(v, y)) = Cat(d, Cat(m, Cat(v, y)))
          BY <4>2, <4>3, CatFacts
        <4> QED BY <4>2, <4>4
      <3> QED BY <3>2, <3>3
    <2>7. /\ q' \in Places /\ Agree(q, q', {b, nf_tx(k), tx_q(k)})
          /\ Lossy(Transit(q, rx, k), Transit(q', rx, k))
      <3>1. CASE q' = s
        BY <1>1, <2>3, <2>6, <3>1, TransitType, LossyFacts, Zenon DEF Agree
      <3>2. CASE q' = FlushRing(s, nf_tx(k), tx_q(k))
        <4>1. /\ q' \in Places /\ Agree(s, q', {nf_tx(k), tx_q(k)})
              /\ Lossy(Transit(s, rx, k), Transit(q', rx, k))
          BY <2>3, <3>2, FlushNfTxLossy, Zenon
        <4> QED BY <2>3, <2>6, <4>1, Zenon DEF Agree
      <3> QED BY <2>1, <3>1, <3>2, Zenon
    <2>8. {b, nf_tx(k), tx_q(k)} \in SUBSET (OfPort(k) \ {kni_tx(k)})
      BY <1>6 DEF OfPort, nf_tx, tx_q, kni_tx
    <2> QED BY <1>3, <2>7, <2>8
  <1>10. CASE CpFlush(k)
    <2>1. q' = FlushRing(q, nf_tx(k), tx_q(k))
      BY <1>10 DEF CpFlush, flush_nf_tx_queue
    <2>2. /\ q' \in Places /\ Agree(q, q', {nf_tx(k), tx_q(k)})
          /\ Lossy(Transit(q, rx, k), Transit(q', rx, k))
      BY <1>1, <2>1, FlushNfTxLossy
    <2>3. {nf_tx(k), tx_q(k)} \in SUBSET (OfPort(k) \ {kni_tx(k)})
      BY DEF OfPort, nf_tx, tx_q, kni_tx
    <2> QED BY <1>3, <2>2, <2>3
  <1> QED BY <1>4, <1>7, <1>8, <1>9, <1>10 DEF CpStep

(* Without network functions the places between nf_rx and tx stay empty.   *)
LEMMA NextNoNf == IInv /\ NoNf /\ [Next]_vars => NoNf'
  <1> SUFFICES ASSUME IInv, NoNf, [Next]_vars, DISABLE_NF
               PROVE  /\ rx'.step \notin {"coproc", "forward"} /\ cp' = cp
                      /\ \A c \in Port : /\ q'[tx_q(c)] = << >> /\ q'[nf_tx(c)] = << >>
                                         /\ q'[rx_q(c)] = << >> /\ q'[nf_rx(c)] = << >>
    BY DEF NoNf, tx_q, nf_tx, rx_q, nf_rx
  <1>1. /\ rx.step \notin {"coproc", "forward"} /\ \A c \in Port : cp[c] = "exited"
        /\ \A c \in Port : /\ q[tx_q(c)] = << >> /\ q[nf_tx(c)] = << >>
                           /\ q[rx_q(c)] = << >> /\ q[nf_rx(c)] = << >>
    BY DEF NoNf
  <1>2. q \in Places /\ rx \in [step : RxSteps, idx : Port, round : {1, 2}]
    BY Facts, Zenon
  <1> DEFINE B == burst(RxLcore)
             Other == {p \in Place : p[1] \notin {"tx_q", "nf_tx", "rx_q", "nf_rx"}}
  <1>3. \A c \in Port : /\ tx_q(c) \in Place \ Other /\ nf_tx(c) \in Place \ Other
                        /\ rx_q(c) \in Place \ Other /\ nf_rx(c) \in Place \ Other
    BY DEF Place, tx_q, nf_tx, rx_q, nf_rx
  <1>4. B \in Other /\ \A k \in Port : tx(k) \in Other /\ kni_tx(k) \in Other /\ kni_rx(k) \in Other
    BY Bursts DEF Place, burst, tx, kni_tx, kni_rx
  <1> HIDE DEF Other, B
  <1>5. Agree(q, q', Other) => \A c \in Port : /\ q'[tx_q(c)] = << >> /\ q'[nf_tx(c)] = << >>
                                               /\ q'[rx_q(c)] = << >> /\ q'[nf_rx(c)] = << >>
    BY <1>1, <1>3 DEF Agree
  <1>6. ASSUME q' = q PROVE Agree(q, q', Other)
    BY <1>6 DEF Agree
  <1>7. CASE UNCHANGED vars
    BY <1>1, <1>7 DEF vars
  <1>8. ASSUME NEW k \in Port, NEW m \in Mbuf, NEW h \in Hdr, ContainerSend(k, m, h)
        PROVE  Agree(q, q', Other) /\ rx' = rx /\ cp' = cp
    <2>1. q' = [q EXCEPT ![kni_rx(k)] = Append(q[kni_rx(k)], m)] /\ rx' = rx /\ cp' = cp
      BY <1>8 DEF ContainerSend
    <2> QED BY <1>2, <1>4, <2>1 DEF Agree, Places
  <1>9. ASSUME NEW k \in Port, ContainerRecv(k)
        PROVE  Agree(q, q', Other) /\ rx' = rx /\ cp' = cp
    <2>1. q' = Cut(q, kni_tx(k), 1) /\ rx' = rx /\ cp' = cp
      BY <1>9 DEF ContainerRecv
    <2> QED BY <1>2, <1>4, <2>1 DEF Agree, Places, Cut
  <1>10. CASE SignalHandler \/ KniFree
    BY <1>1, <1>10 DEF SignalHandler, KniFree
  <1>11. ASSUME NEW c \in Port, CpStep(c) PROVE FALSE
    BY <1>1, <1>11 DEF CpStep, CpExit, CpBurst, CpProcess, CpFlush
  <1>12. ASSUME NEW a \in Other, NEW b \in Other, NEW n
         PROVE  Agree(q, Shift(q, a, b, n), Other) /\ Agree(q, Cut(q, a, n), Other)
    BY <1>2, Zenon DEF Agree, Places, Shift, Cut
  <1>13. ASSUME NEW a \in Other, NEW b \in Other, NEW n, NEW k \in Port
         PROVE  Agree(q, FlushKni(Shift(q, a, b, n), k), Other) /\ Agree(q, FlushKni(q, k), Other)
    <2> DEFINE x == tx(k)
               y == kni_tx(k)
    <2>2. ASSUME NEW s, DOMAIN s = Place, Agree(q, s, Other)
          PROVE  Agree(q, FlushKni(s, k), Other)
      <3> DEFINE i == KniSent(s, k)
                 j == Len(s[tx(k)]) - KniSent(s, k)
                 w == Shift(s, x, y, i)
      <3>1. x \in Other /\ y \in Other
        BY <1>4
      <3> HIDE DEF x, y, i, j
      <3>2. DOMAIN w = Place /\ Agree(q, w, Other)
        BY <2>2, <3>1 DEF Agree, Shift
      <3> HIDE DEF w
      <3>3. Agree(q, Cut(w, x, j), Other)
        BY <3>1, <3>2 DEF Agree, Cut
      <3> QED BY <3>3 DEF FlushKni, w, x, y, i, j
    <2>3. DOMAIN q = Place /\ Agree(q, q, Other)
      BY <1>2 DEF Places, Agree
    <2>4. DOMAIN Shift(q, a, b, n) = Place
      BY <1>2 DEF Shift, Places
    <2> QED BY <1>12, <2>2, <2>3, <2>4
  <1>14. CASE RxStep
    <2>1. CASE RxLoop
      BY <1>1, <2>1 DEF RxLoop, RxAt
    <2>2. CASE RxKniDone
      BY <1>1, <1>2, <2>2, NextIdxType DEF RxKniDone, RxSteps
    <2>3. CASE RxKniBurst
      <3>1. /\ q' = RecvBurst(q, kni_rx(rx.idx), B) /\ rx'.step = "route" /\ cp' = cp
            /\ kni_rx(rx.idx) \in Other
        BY <1>2, <1>4, <2>3 DEF RxKniBurst, RxAt, B
      <3>2. Agree(q, q', Other)
        BY <1>4, <1>12, <3>1 DEF RecvBurst
      <3> QED BY <1>5, <3>1, <3>2, Zenon
    <2>4. CASE RxRoute
      <3> DEFINE k == get_next_hop(hdr[Head(q[B])])
      <3>1. /\ rx' = rx /\ cp' = cp /\ q[B] # << >>
            /\ IF k = UNKNOWN_PORT THEN FreeHead(RxLcore) ELSE enqueue_port(RxLcore, k)
        BY <2>4 DEF RxRoute, B
      <3>2. k \in Port \cup {UNKNOWN_PORT}
        <4>1. hdr[Head(q[B])] \in Hdr
          BY <3>1, Facts, Bursts, HeadHdr, Zenon DEF B
        <4> QED BY <4>1, NextHop
      <3> HIDE DEF k
      <3>3. CASE k = UNKNOWN_PORT
        <4>1. q' = Cut(q, B, 1)
          BY <3>1, <3>3, Zenon DEF FreeHead, B
        <4> QED BY <1>1, <1>4, <1>5, <1>12, <3>1, <4>1
      <3>4. CASE k # UNKNOWN_PORT
        <4> DEFINE s == Shift(q, B, tx(k), 1)
        <4>1. k \in Port /\ (q' = s \/ q' = FlushKni(s, k))
          BY <3>1, <3>2, <3>4, Zenon DEF enqueue_port, flush_port_queue, MoveHead, B
        <4>2. tx(k) \in Other
          BY <1>4, <4>1
        <4>3. Agree(q, q', Other)
          BY <1>4, <1>12, <1>13, <4>1, <4>2
        <4> QED BY <1>1, <1>5, <3>1, <4>3, Zenon
      <3> QED BY <3>3, <3>4
    <2>5. CASE RxFlushPort
      <3>1. /\ q' = FlushKni(q, rx.idx) /\ cp' = cp /\ rx.idx \in Port
            /\ NextIdx("flush_port", "flush_nf", rx.round)
        BY <1>2, <2>5 DEF RxFlushPort, flush_port_queue
      <3>2. Agree(q, q', Other)
        BY <1>4, <1>13, <3>1
      <3>3. rx'.step \notin {"coproc", "forward"}
        BY <1>2, <3>1, NextIdxType DEF RxSteps
      <3> QED BY <1>5, <3>1, <3>2, <3>3, Zenon
    <2>6. CASE RxFlushNf
      <3> DEFINE k == rx.idx
      <3>1. /\ q' = FlushRing(q, nf_rx(k), rx_q(k)) /\ cp' = cp /\ k \in Port
            /\ NextIdx("flush_nf", "loop", 1)
        BY <1>2, <2>6 DEF RxFlushNf, flush_nf_rx_queue
      <3>2. rx'.step \notin {"coproc", "forward"}
        BY <1>2, <3>1, NextIdxType DEF RxSteps
      <3> HIDE DEF k
      <3>3. /\ Agree(q, q', {nf_rx(k), rx_q(k)}) /\ q'[nf_rx(k)] = << >>
            /\ q'[rx_q(k)] \in {q[rx_q(k)], Cat(q[rx_q(k)], q[nf_rx(k)])}
        <4>1. nf_rx(k) \in Place /\ rx_q(k) \in Place /\ nf_rx(k) # rx_q(k)
          BY <3>1 DEF Place, nf_rx, rx_q
        <4> QED BY <1>2, <3>1, <4>1, FlushRingAt
      <3>4. q'[rx_q(k)] = << >>
        BY <1>1, <3>1, <3>3, CatFacts
      <3>5. \A p \in Place \ Other : q[p] = << >> => q'[p] = << >>
        BY <3>3, <3>4 DEF Agree
      <3> QED BY <1>1, <1>3, <3>1, <3>2, <3>5
    <2>7. CASE RxCoprocBurst \/ RxForward \/ RxCoprocDone
      BY <1>1, <2>7 DEF RxCoprocBurst, RxForward, RxCoprocDone
    <2> QED BY <1>14, <2>1, <2>2, <2>3, <2>4, <2>5, <2>6, <2>7 DEF RxStep
  <1>15. CASE \E k \in Port, m \in Mbuf, h \in Hdr : ContainerSend(k, m, h)
    BY <1>1, <1>5, <1>8, <1>15
  <1>16. CASE \E k \in Port : ContainerRecv(k)
    BY <1>1, <1>5, <1>9, <1>16
  <1> QED BY <1>7, <1>10, <1>11, <1>14, <1>15, <1>16, Zenon DEF Next

FifoInv == IInv /\ NoNf

(* Every step of the engine is a step of LossyFifo or changes nothing it   *)
(* has.                                                                    *)
LEMMA NextFifo == FifoInv /\ [Next]_vars => FifoNext
  <1> SUFFICES ASSUME IInv, NoNf, [Next]_vars PROVE FifoNext
    BY DEF FifoInv
  <1>1. ASSUME q' = q, rx' = rx PROVE FifoNext
    <2>1. q \in Places /\ q' \in Places
      BY <1>1, Facts
    <2>2. Agree(q, q', {burst(RxLcore)} \cup {kni_rx(j) : j \in Port})
      BY <1>1 DEF Agree
    <2> QED BY <1>1, <2>1, <2>2, QuietStep
  <1>2. CASE UNCHANGED vars
    BY <1>1, <1>2 DEF vars
  <1>3. CASE SignalHandler \/ KniFree
    BY <1>1, <1>3 DEF SignalHandler, KniFree
  <1>4. CASE RxStep
    BY <1>4, RxMoveFifo, RxKniBurstFifo, RxRouteFifo, RxFlushPortFifo, RxFlushNfFifo,
       RxCoprocBurstFifo, RxForwardFifo DEF RxStep
  <1> QED BY <1>2, <1>3, <1>4, SendFifo, RecvFifo, CpFifo DEF Next

(* All channels are empty at first.                                        *)
LEMMA InitFifo == Init => NoNf /\ Fifo!Init
  <1> SUFFICES ASSUME Init PROVE NoNf /\ Fifo!Init
    OBVIOUS
  <1>1. \A k \in Port : \A p \in OfPort(k) : q[p] = << >>
    BY PortPlaces DEF Init
  <1>2. NoNf
    BY <1>1 DEF NoNf, Init, OfPort
  <1>3. \A k \in Port : InTransit(k) = << >> /\ q[kni_tx(k)] = << >>
    <2> SUFFICES ASSUME NEW k \in Port PROVE InTransit(k) = << >> /\ q[kni_tx(k)] = << >>
      OBVIOUS
    <2>1. q \in Places
      BY InitIInv, Facts
    <2>2. Fwd(q, rx, k) = << >>
      BY DEF Init, Fwd
    <2>3. Transit(q, rx, k) = << >>
      BY <1>1, <2>2, CatFacts DEF Transit, Behind, OfPort
    <2>4. InTransit(k) = Chained(q, rx, k)
      BY DEF InTransit, Fwd, Chained
    <2> QED BY <1>1, <2>1, <2>3, <2>4, ChainTransit DEF OfPort
  <1> QED BY <1>2, <1>3 DEF Fifo!Init

(* The pipeline of two kinds of threads, two rings and four buffers per    *)
(* port is a lossy FIFO channel: it implements LossyFifo.                  *)
THEOREM PipelineIsFifo == Spec => ImplementsFifo
  <1>1. Init => IInv /\ NoNf /\ Fifo!Init
    BY InitIInv, InitFifo
  <1>2. IInv /\ NoNf /\ [Next]_vars => IInv' /\ NoNf' /\ [Fifo!Next]_(Fifo!vars)
    BY NextIInv, NextNoNf, NextFifo DEF FifoInv, FifoNext
  <1> QED BY <1>1, <1>2, PTL DEF Spec, ImplementsFifo, Fifo!Spec

(***************************************************************************)
(* The end of the program.                                                 *)
(***************************************************************************)
Ended ==
    /\ rx.step = "exited" => kni_stop
    /\ released => AllExited

(* A lcore that has left main_loop never returns to it.                    *)
LEMMA NextEnded == Control /\ Ended /\ [Next]_vars => Ended'
  <1> SUFFICES ASSUME Control, Ended, [Next]_vars PROVE Ended'
    OBVIOUS
  <1>1. CASE UNCHANGED vars
    BY <1>1 DEF vars, Ended, AllExited
  <1>2. ASSUME NEW k \in Port, NEW m \in Mbuf, NEW h \in Hdr, ContainerSend(k, m, h) PROVE Ended'
    BY <1>2 DEF ContainerSend, Ended, AllExited
  <1>3. ASSUME NEW k \in Port, ContainerRecv(k) PROVE Ended'
    BY <1>3 DEF ContainerRecv, Ended, AllExited
  <1>4. CASE RxStep
    <2>1. rx.step # "exited" /\ kni_stop' = kni_stop /\ released' = released /\ cp' = cp
      BY <1>4, Zenon DEF RxStep, RxLoop, RxKniBurst, RxRoute, RxKniDone, RxFlushPort, RxFlushNf,
                  RxCoprocBurst, RxForward, RxCoprocDone
    <2>2. ~released
      BY <2>1 DEF Ended, AllExited
    <2>3. rx'.step = "exited" => kni_stop
      <3>1. CASE RxLoop
        BY <3>1 DEF RxLoop, RxAt
      <3>2. CASE RxKniDone
        BY <3>2, NextIdxType DEF RxKniDone, RxSteps, Control
      <3>3. CASE RxCoprocDone
        BY <3>3, NextIdxType DEF RxCoprocDone, RxSteps, Control
      <3>4. CASE RxFlushPort
        BY <3>4, NextIdxType DEF RxFlushPort, RxSteps, Control
      <3>5. CASE RxFlushNf
        BY <3>5, NextIdxType DEF RxFlushNf, RxSteps, Control
      <3>6. CASE RxKniBurst \/ RxRoute \/ RxCoprocBurst \/ RxForward
        BY <2>1, <3>6 DEF RxKniBurst, RxRoute, RxCoprocBurst, RxForward, RxAt
      <3> QED BY <1>4, <3>1, <3>2, <3>3, <3>4, <3>5, <3>6 DEF RxStep
    <2> QED BY <2>1, <2>2, <2>3 DEF Ended
  <1>5. ASSUME NEW c \in Port, CpStep(c) PROVE Ended'
    <2>1. rx' = rx /\ kni_stop' = kni_stop /\ released' = released
      BY <1>5, Zenon DEF CpStep, CpExit, CpBurst, CpProcess, CpFlush
    <2>2. cp[c] # "exited"
      BY <1>5, Zenon DEF CpStep, CpExit, CpBurst, CpProcess, CpFlush
    <2>3. ~released
      BY <2>2 DEF Ended, AllExited
    <2> QED BY <2>1, <2>3 DEF Ended
  <1>6. CASE SignalHandler
    BY <1>6 DEF SignalHandler, Ended, AllExited
  <1>7. CASE KniFree
    BY <1>7 DEF KniFree, Ended, AllExited
  <1> QED BY <1>1, <1>2, <1>3, <1>4, <1>5, <1>6, <1>7 DEF Next

(* kni_free_kni runs when no lcore, no container and no signal can change  *)
(* anything any more.                                                      *)
THEOREM ReleaseIsLast == Spec => ReleasedIsFinal
  <1>1. Init => IInv /\ Ended
    BY InitIInv DEF Init, Ended
  <1>2. IInv /\ Ended /\ [Next]_vars => IInv' /\ Ended'
    BY NextIInv, NextEnded DEF IInv
  <1>3. IInv /\ Ended /\ [Next]_vars => [released => UNCHANGED vars]_vars
    <2> SUFFICES ASSUME Ended, Next, released PROVE FALSE
      OBVIOUS
    <2>1. rx.step = "exited" /\ kni_stop /\ \A c \in Port : cp[c] = "exited"
      BY DEF Ended, AllExited
    <2>2. ~RxStep
      BY <2>1, Zenon DEF RxStep, RxLoop, RxKniBurst, RxRoute, RxKniDone, RxFlushPort, RxFlushNf,
                  RxCoprocBurst, RxForward, RxCoprocDone
    <2>3. \A c \in Port : ~CpStep(c)
      BY <2>1, Zenon DEF CpStep, CpExit, CpBurst, CpProcess, CpFlush
    <2> QED BY <2>1, <2>2, <2>3 DEF Next, ContainerSend, ContainerRecv, SignalHandler, KniFree
  <1> QED BY <1>1, <1>2, <1>3, PTL DEF Spec, ReleasedIsFinal

=============================================================================
