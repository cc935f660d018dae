-------------------------- MODULE GhostKernelProofs -------------------------
(***************************************************************************)
(* The steps of the kernel and of the threads keep the links between the   *)
(* scheduler, the channel and the threads. First what sending and taking a *)
(* message does to the messages of one class, then one lemma for each      *)
(* kernel action of NetAgent, and last what the moves of the agent do to   *)
(* the link of a task and to the invariant, as far as the scheduler's      *)
(* operations do not matter.                                               *)
(***************************************************************************)
EXTENDS NetAgentInv, WellFoundedInduction, TLAPS

(* A set of numbers that is not empty has a least element.                 *)
LEMMA LeastExists ==
    ASSUME NEW T, T \subseteq Nat, T # {}
    PROVE  \E x \in T : \A y \in T : x <= y
  <1> DEFINE R == OpToRel(<, Nat)
  <1>1. \A x, y \in Nat : y < x => <<y, x>> \in R
    BY DEF OpToRel
  <1>2. IsWellFoundedOn(R, Nat)
    BY NatLessThanWellFounded, Zenon
  <1> HIDE DEF R
  <1>3. PICK x \in T : \A y \in T : ~(<<y, x>> \in R)
    BY <1>2, WFMin, Zenon
  <1>4. \A y \in T : ~(y < x)
    BY <1>1, <1>3, Zenon
  <1> QED BY <1>4

(* Nothing about the class has changed.                                    *)
SameMail(ch, dh, K) ==
    /\ Silent(dh, K) <=> Silent(ch, K)
    /\ \A m \in Message : IsFirst(dh, K, m) <=> IsFirst(ch, K, m)
    /\ \A m \in Message : IsLast(dh, K, m) <=> IsLast(ch, K, m)
    /\ \A x, y \in Message : IsStep(dh, K, x, y) <=> IsStep(ch, K, x, y)

(* The message m of the class was sent.                                    *)
Sent(ch, dh, K, m) ==
    /\ ~Silent(dh, K)
    /\ \A x \in Message : IsFirst(dh, K, x) => IsFirst(ch, K, x) \/ (Silent(ch, K) /\ x = m)
    /\ \A x \in Message : IsLast(dh, K, x) => x = m
    /\ \A x, y \in Message : IsStep(dh, K, x, y) =>
          IsStep(ch, K, x, y) \/ (IsLast(ch, K, x) /\ y = m)

(* The first message h of the class was taken.                             *)
Taken(ch, dh, K, h) ==
    /\ IsFirst(ch, K, h)
    /\ \A y \in Message : IsFirst(dh, K, y) => IsStep(ch, K, h, y)
    /\ \A y \in Message : IsLast(dh, K, y) => IsLast(ch, K, y)
    /\ \A x, y \in Message : IsStep(dh, K, x, y) => IsStep(ch, K, x, y)
    /\ Silent(dh, K) => IsLast(ch, K, h)
    /\ ~Silent(dh, K) => \E y \in Message : IsFirst(dh, K, y)

(* An empty class has no first, last or next message, any other one has a  *)
(* first and a last one.                                                   *)
LEMMA MailFacts ==
    ASSUME NEW ch \in Seq(Message), NEW K
    PROVE  /\ Silent(ch, K) => \A x \in Message : ~IsFirst(ch, K, x) /\ ~IsLast(ch, K, x)
           /\ Silent(ch, K) => \A x, y \in Message : ~IsStep(ch, K, x, y)
           /\ ~Silent(ch, K) => \E x \in Message : IsFirst(ch, K, x)
           /\ ~Silent(ch, K) => \E x \in Message : IsLast(ch, K, x)
  <1> DEFINE H == Hits(ch, K)
             n == Len(ch)
  <1>0. n \in Nat /\ H \subseteq 1 .. n /\ \A i \in 1 .. n : ch[i] \in Message
    BY DEF Hits
  <1>1. ASSUME H # {} PROVE \E x \in Message : IsFirst(ch, K, x)
    <2>1. H \subseteq Nat
      BY <1>0
    <2>2. PICK i \in H : \A j \in H : i <= j
      BY <1>1, <2>1, LeastExists
    <2>3. IsFirst(ch, K, ch[i]) /\ ch[i] \in Message
      BY <1>0, <2>2 DEF IsFirst
    <2> QED BY <2>3
  <1>2. ASSUME H # {} PROVE \E x \in Message : IsLast(ch, K, x)
    <2> DEFINE G == {n - j : j \in H}
    <2>1. G \subseteq Nat /\ G # {}
      BY <1>0, <1>2
    <2>2. PICK g \in G : \A j \in G : g <= j
      BY <2>1, LeastExists, Zenon
    <2>3. PICK i \in H : g = n - i
      BY <2>2
    <2>4. \A j \in H : g <= n - j
      BY <2>2
    <2>5. \A j \in H : j <= i
      BY <1>0, <2>3, <2>4
    <2>6. IsLast(ch, K, ch[i]) /\ ch[i] \in Message
      BY <1>0, <2>5 DEF IsLast
    <2> QED BY <2>6
  <1> QED BY <1>1, <1>2 DEF Silent, IsFirst, IsLast, IsStep

(* The indices of the class after a message is sent.                       *)
LEMMA SendHits ==
    ASSUME NEW ch \in Seq(Message), NEW m \in Message, NEW K
    PROVE  LET dh == Append(ch, m)
               n == Len(ch)
           IN  /\ n \in Nat /\ dh[n + 1] = m /\ \A i \in 1 .. n : dh[i] = ch[i]
               /\ Hits(dh, K) = Hits(ch, K) \cup (IF m \in K THEN {n + 1} ELSE {})
               /\ \A i \in Hits(ch, K) : i \in 1 .. n
  <1> DEFINE dh == Append(ch, m)
             n == Len(ch)
  <1>1. n \in Nat /\ Len(dh) = n + 1 /\ dh[n + 1] = m /\ \A i \in 1 .. n : dh[i] = ch[i]
    OBVIOUS
  <1>2. 1 .. n + 1 = (1 .. n) \cup {n + 1}
    BY <1>1
  <1> QED BY <1>1, <1>2 DEF Hits

(* Sending a message of the class puts it last.                            *)
LEMMA SendIn ==
    ASSUME NEW ch \in Seq(Message), NEW K, NEW m \in Message, m \in K
    PROVE  Sent(ch, Append(ch, m), K, m)
  <1> DEFINE dh == Append(ch, m)
             n == Len(ch)
             H == Hits(ch, K)
  <1>1. /\ n \in Nat /\ dh[n + 1] = m /\ \A i \in 1 .. n : dh[i] = ch[i]
        /\ Hits(dh, K) = H \cup {n + 1}
        /\ \A i \in H : i \in 1 .. n
    BY SendHits
  <1> HIDE DEF dh, n, H
  <1>2. \A i \in H : dh[i] = ch[i] /\ i \in Nat /\ i < n + 1
    BY <1>1
  <1>3. ~Silent(dh, K)
    BY <1>1 DEF Silent
  <1>4. ASSUME NEW x \in Message, IsFirst(dh, K, x)
        PROVE  IsFirst(ch, K, x) \/ (Silent(ch, K) /\ x = m)
    <2>1. PICK i \in H \cup {n + 1} : dh[i] = x /\ \A j \in H \cup {n + 1} : i <= j
      BY <1>1, <1>4 DEF IsFirst
    <2>2. CASE i \in H
      BY <1>2, <2>1, <2>2 DEF IsFirst, H
    <2>3. CASE i = n + 1
      <3>1. H = {}
        BY <1>1, <1>2, <2>1, <2>3
      <3> QED BY <1>1, <2>1, <2>3, <3>1 DEF Silent, H
    <2> QED BY <2>1, <2>2, <2>3
  <1>5. ASSUME NEW x \in Message, IsLast(dh, K, x)
        PROVE  x = m
    <2>1. PICK i \in H \cup {n + 1} : dh[i] = x /\ \A j \in H \cup {n + 1} : j <= i
      BY <1>1, <1>5 DEF IsLast
    <2>2. i = n + 1
      BY <1>1, <1>2, <2>1
    <2> QED BY <1>1, <2>1, <2>2
  <1>6. ASSUME NEW x \in Message, NEW y \in Message, IsStep(dh, K, x, y)
        PROVE  IsStep(ch, K, x, y) \/ (IsLast(ch, K, x) /\ y = m)
    <2>1. PICK i \in H \cup {n + 1}, j \in H \cup {n + 1} :
             /\ i < j /\ dh[i] = x /\ dh[j] = y
             /\ \A h \in H \cup {n + 1} : h <= i \/ j <= h
      BY <1>1, <1>6 DEF IsStep
    <2>2. i \in H
      BY <1>1, <1>2, <2>1
    <2>3. CASE j \in H
      BY <1>2, <2>1, <2>2, <2>3 DEF IsStep, H
    <2>4. CASE j = n + 1
      <3>1. \A h \in H : h <= i
        BY <1>1, <1>2, <2>1, <2>4
      <3> QED BY <1>1, <1>2, <2>1, <2>2, <2>4, <3>1, Zenon DEF IsLast, H
    <2> QED BY <2>1, <2>3, <2>4
  <1> QED BY <1>3, <1>4, <1>5, <1>6 DEF Sent, dh

(* Sending another message leaves the class as it is.                      *)
LEMMA SendOther ==
    ASSUME NEW ch \in Seq(Message), NEW K, NEW m \in Message, m \notin K
    PROVE  SameMail(ch, Append(ch, m), K)
  <1> DEFINE dh == Append(ch, m)
             n == Len(ch)
             H == Hits(ch, K)
  <1>1. /\ n \in Nat /\ \A i \in 1 .. n : dh[i] = ch[i]
        /\ Hits(dh, K) = H
        /\ \A i \in H : i \in 1 .. n
    <2>1. Hits(dh, K) = H \cup (IF m \in K THEN {n + 1} ELSE {})
      BY SendHits
    <2>2. Hits(dh, K) = H
      BY <2>1
    <2> QED BY <2>2, SendHits
  <1> HIDE DEF dh, n, H
  <1>2. \A i \in H : dh[i] = ch[i]
    BY <1>1
  <1>3. Silent(dh, K) <=> Silent(ch, K)
    BY <1>1 DEF Silent, H
  <1>4. \A x \in Message : IsFirst(dh, K, x) <=> IsFirst(ch, K, x)
    BY <1>1, <1>2 DEF IsFirst, H
  <1>5. \A x \in Message : IsLast(dh, K, x) <=> IsLast(ch, K, x)
    BY <1>1, <1>2 DEF IsLast, H
  <1>6. \A x, y \in Message : IsStep(dh, K, x, y) <=> IsStep(ch, K, x, y)
    BY <1>1, <1>2 DEF IsStep, H
  <1> QED BY <1>3, <1>4, <1>5, <1>6 DEF SameMail, dh

(* The indices of the class after the first message is taken.              *)
LEMMA TakeHits ==
    ASSUME NEW ch \in Seq(Message), ch # << >>, NEW K
    PROVE  LET dh == Tail(ch)
           IN  /\ dh \in Seq(Message) /\ Head(ch) = ch[1] /\ Head(ch) \in Message
               /\ \A i \in Hits(dh, K) : /\ i \in Nat /\ i + 1 \in Hits(ch, K)
                                         /\ dh[i] = ch[i + 1]
               /\ \A i \in Hits(ch, K) \ {1} : i \in Nat /\ i > 1 /\ i - 1 \in Hits(dh, K)
               /\ 1 \in Hits(ch, K) <=> Head(ch) \in K
               /\ Hits(ch, K) \subseteq Nat \ {0}
  <1> DEFINE dh == Tail(ch)
             n == Len(ch)
  <1>1. /\ n \in Nat \ {0} /\ Len(dh) = n - 1 /\ dh \in Seq(Message)
        /\ Head(ch) = ch[1] /\ Head(ch) \in Message
        /\ \A i \in 1 .. n - 1 : dh[i] = ch[i + 1]
    OBVIOUS
  <1>2. ASSUME NEW i \in Hits(dh, K)
        PROVE  i \in Nat /\ i + 1 \in Hits(ch, K) /\ dh[i] = ch[i + 1]
    <2>1. i \in 1 .. n - 1 /\ dh[i] \in K
      BY <1>1, <1>2 DEF Hits
    <2> HIDE DEF dh
    <2>2. i + 1 \in 1 .. n /\ i \in Nat /\ dh[i] = ch[i + 1]
      BY <1>1, <2>1
    <2> QED BY <2>1, <2>2 DEF Hits
  <1>3. ASSUME NEW i \in Hits(ch, K) \ {1}
        PROVE  i \in Nat /\ i > 1 /\ i - 1 \in Hits(dh, K)
    <2>1. i \in 1 .. n /\ ch[i] \in K /\ i # 1
      BY <1>1, <1>3 DEF Hits
    <2> HIDE DEF dh
    <2>2. i \in Nat /\ i > 1 /\ i - 1 \in 1 .. n - 1 /\ (i - 1) + 1 = i
      BY <1>1, <2>1
    <2>3. dh[i - 1] = ch[i]
      BY <1>1, <2>2
    <2> QED BY <1>1, <2>1, <2>2, <2>3 DEF Hits
  <1>4. 1 \in Hits(ch, K) <=> Head(ch) \in K
    BY <1>1 DEF Hits
  <1>5. Hits(ch, K) \subseteq Nat \ {0}
    BY <1>1 DEF Hits
  <1> QED BY <1>1, <1>2, <1>3, <1>4, <1>5, Zenon

(* A message that stays in the channel moves up by one.                    *)
LEMMA TakeKeeps ==
    ASSUME NEW ch \in Seq(Message), ch # << >>, NEW K
    PROVE  LET dh == Tail(ch)
           IN  /\ \A y \in Message : IsLast(dh, K, y) => IsLast(ch, K, y)
               /\ \A x, y \in Message : IsStep(dh, K, x, y) => IsStep(ch, K, x, y)
  <1> DEFINE dh == Tail(ch)
             H == Hits(ch, K)
             G == Hits(dh, K)
  <1>1. /\ \A i \in G : i \in Nat /\ i + 1 \in H /\ dh[i] = ch[i + 1]
        /\ \A i \in H \ {1} : i \in Nat /\ i > 1 /\ i - 1 \in G
    BY TakeHits, Zenon
  <1> HIDE DEF dh, G, H
  <1>2. ASSUME NEW y \in Message, IsLast(dh, K, y) PROVE IsLast(ch, K, y)
    <2>1. PICK i \in G : dh[i] = y /\ \A j \in G : j <= i
      BY <1>2 DEF IsLast, G
    <2>2. i + 1 \in H /\ ch[i + 1] = y /\ i \in Nat
      BY <1>1, <2>1
    <2>3. ASSUME NEW x \in H PROVE x <= i + 1
      <3>1. CASE x = 1
        BY <2>2, <3>1
      <3>2. CASE x # 1
        BY <1>1, <2>1, <2>2, <3>2
      <3> QED BY <3>1, <3>2
    <2> QED BY <2>2, <2>3 DEF IsLast, H
  <1>3. ASSUME NEW x \in Message, NEW y \in Message, IsStep(dh, K, x, y)
        PROVE  IsStep(ch, K, x, y)
    <2>1. PICK i \in G, j \in G : /\ i < j /\ dh[i] = x /\ dh[j] = y
                                  /\ \A h \in G : h <= i \/ j <= h
      BY <1>3 DEF IsStep, G
    <2>2. /\ i + 1 \in H /\ ch[i + 1] = x /\ i \in Nat
          /\ j + 1 \in H /\ ch[j + 1] = y /\ j \in Nat
          /\ i + 1 < j + 1
      BY <1>1, <2>1
    <2>3. ASSUME NEW h \in H PROVE h <= i + 1 \/ j + 1 <= h
      <3>1. CASE h = 1
        BY <2>2, <3>1
      <3>2. CASE h # 1
        <4>1. h \in Nat /\ h - 1 \in G
          BY <1>1, <3>2
        <4>2. h - 1 <= i \/ j <= h - 1
          BY <2>1, <4>1
        <4> QED BY <2>2, <4>1, <4>2
      <3> QED BY <3>1, <3>2
    <2> QED BY <2>2, <2>3 DEF IsStep, H
  <1> QED BY <1>2, <1>3 DEF dh

(* Taking a message of the class takes its first.                          *)
LEMMA TakeIn ==
    ASSUME NEW ch \in Seq(Message), ch # << >>, NEW K, Head(ch) \in K
    PROVE  Taken(ch, Tail(ch), K, Head(ch))
  <1> DEFINE dh == Tail(ch)
             H == Hits(ch, K)
             G == Hits(dh, K)
  <1>1. /\ dh \in Seq(Message) /\ Head(ch) = ch[1]
        /\ \A i \in G : i \in Nat /\ i + 1 \in H /\ dh[i] = ch[i + 1]
        /\ \A i \in H \ {1} : i \in Nat /\ i > 1 /\ i - 1 \in G
        /\ 1 \in H /\ H \subseteq Nat \ {0}
    BY TakeHits, Zenon
  <1>2. /\ \A y \in Message : IsLast(dh, K, y) => IsLast(ch, K, y)
        /\ \A x, y \in Message : IsStep(dh, K, x, y) => IsStep(ch, K, x, y)
    BY TakeKeeps
  <1>3. ~Silent(dh, K) => \E y \in Message : IsFirst(dh, K, y)
    BY <1>1, MailFacts, Zenon
  <1> HIDE DEF dh, G, H
  <1>4. IsFirst(ch, K, Head(ch))
    BY <1>1 DEF IsFirst, H
  <1>5. ASSUME NEW y \in Message, IsFirst(dh, K, y) PROVE IsStep(ch, K, Head(ch), y)
    <2>1. PICK i \in G : dh[i] = y /\ \A j \in G : i <= j
      BY <1>5 DEF IsFirst, G
    <2>2. i + 1 \in H /\ ch[i + 1] = y /\ i \in Nat
      BY <1>1, <2>1
    <2>3. 1 < i + 1
      <3>1. i # 0
        <4>1. G \subseteq 1 .. Len(dh)
          BY DEF Hits, G
        <4> QED BY <1>1, <2>1, <4>1
      <3> QED BY <2>2, <3>1
    <2>4. ASSUME NEW h \in H PROVE h <= 1 \/ i + 1 <= h
      <3>1. CASE h = 1
        BY <3>1
      <3>2. CASE h # 1
        <4>1. h \in Nat /\ h - 1 \in G
          BY <1>1, <3>2
        <4>2. i <= h - 1
          BY <2>1, <4>1
        <4> QED BY <2>2, <4>1, <4>2
      <3> QED BY <3>1, <3>2
    <2> QED BY <1>1, <2>2, <2>3, <2>4 DEF IsStep, H
  <1>6. ASSUME Silent(dh, K) PROVE IsLast(ch, K, Head(ch))
    <2>1. G = {}
      BY <1>6 DEF Silent, G
    <2>2. H = {1}
      BY <1>1, <2>1, Zenon
    <2> QED BY <1>1, <2>2 DEF IsLast, H
  <1> QED BY <1>2, <1>3, <1>4, <1>5, <1>6 DEF Taken, dh

(* Taking another message leaves the class as it is.                       *)
LEMMA TakeOther ==
    ASSUME NEW ch \in Seq(Message), ch # << >>, NEW K, Head(ch) \notin K
    PROVE  SameMail(ch, Tail(ch), K)
  <1> DEFINE dh == Tail(ch)
             H == Hits(ch, K)
             G == Hits(dh, K)
  <1>1. /\ \A i \in G : i \in Nat /\ i + 1 \in H /\ dh[i] = ch[i + 1]
        /\ \A i \in H \ {1} : i \in Nat /\ i > 1 /\ i - 1 \in G
        /\ 1 \notin H /\ H \subseteq Nat \ {0}
    BY TakeHits, Zenon
  <1>2. /\ \A y \in Message : IsLast(dh, K, y) => IsLast(ch, K, y)
        /\ \A x, y \in Message : IsStep(dh, K, x, y) => IsStep(ch, K, x, y)
    BY TakeKeeps
  <1> HIDE DEF dh, G, H
  <1>3. \A i \in H : i - 1 \in G /\ i \in Nat /\ i - 1 \in Nat /\ dh[i - 1] = ch[i]
    <2> TAKE i \in H
    <2>1. i - 1 \in G /\ i \in Nat
      BY <1>1
    <2>2. i - 1 \in Nat /\ dh[i - 1] = ch[(i - 1) + 1]
      BY <1>1, <2>1
    <2> QED BY <2>1, <2>2
  <1>4. Silent(dh, K) <=> Silent(ch, K)
    BY <1>1, <1>3 DEF Silent, G, H
  <1>5. ASSUME NEW x \in Message PROVE IsFirst(dh, K, x) <=> IsFirst(ch, K, x)
    <2>1. ASSUME IsFirst(dh, K, x) PROVE IsFirst(ch, K, x)
      <3>1. PICK i \in G : dh[i] = x /\ \A j \in G : i <= j
        BY <2>1 DEF IsFirst, G
      <3>2. i + 1 \in H /\ ch[i + 1] = x /\ i \in Nat
        BY <1>1, <3>1
      <3>3. \A j \in H : i + 1 <= j
        <4> TAKE j \in H
        <4>1. i <= j - 1 /\ j \in Nat
          BY <1>3, <3>1
        <4> QED BY <3>2, <4>1
      <3> QED BY <3>2, <3>3 DEF IsFirst, H
    <2>2. ASSUME IsFirst(ch, K, x) PROVE IsFirst(dh, K, x)
      <3>1. PICK i \in H : ch[i] = x /\ \A j \in H : i <= j
        BY <2>2 DEF IsFirst, H
      <3>2. i - 1 \in G /\ dh[i - 1] = x /\ i \in Nat
        BY <1>3, <3>1
      <3>3. \A j \in G : i - 1 <= j
        <4> TAKE j \in G
        <4>1. i <= j + 1 /\ j \in Nat
          BY <1>1, <3>1
        <4> QED BY <3>2, <4>1
      <3> QED BY <3>2, <3>3 DEF IsFirst, G
    <2> QED BY <2>1, <2>2
  <1>6. ASSUME NEW x \in Message, IsLast(ch, K, x) PROVE IsLast(dh, K, x)
    <2>1. PICK i \in H : ch[i] = x /\ \A j \in H : j <= i
      BY <1>6 DEF IsLast, H
    <2>2. i - 1 \in G /\ dh[i - 1] = x /\ i \in Nat
      BY <1>3, <2>1
    <2>3. \A j \in G : j <= i - 1
      <3> TAKE j \in G
      <3>1. j + 1 <= i /\ j \in Nat
        BY <1>1, <2>1
      <3> QED BY <2>2, <3>1
    <2> QED BY <2>2, <2>3 DEF IsLast, G
  <1>7. ASSUME NEW x \in Message, NEW y \in Message, IsStep(ch, K, x, y)
        PROVE  IsStep(dh, K, x, y)
    <2>1. PICK i \in H, j \in H : /\ i < j /\ ch[i] = x /\ ch[j] = y
                                  /\ \A h \in H : h <= i \/ j <= h
      BY <1>7 DEF IsStep, H
    <2>2. /\ i - 1 \in G /\ dh[i - 1] = x /\ i \in Nat
          /\ j - 1 \in G /\ dh[j - 1] = y /\ j \in Nat
      BY <1>3, <2>1
    <2>3. i - 1 < j - 1
      BY <2>1, <2>2
    <2>4. \A h \in G : h <= i - 1 \/ j - 1 <= h
      <3> TAKE h \in G
      <3>1. h \in Nat /\ (h + 1 <= i \/ j <= h + 1)
        BY <1>1, <2>1
      <3> QED BY <2>2, <3>1
    <2> QED BY <2>2, <2>3, <2>4 DEF IsStep, G
  <1> QED BY <1>2, <1>4, <1>5, <1>6, <1>7 DEF SameMail, dh

(***************************************************************************)
(* Lemmas about TaskLink and CpuLink.                                      *)
(***************************************************************************)
(* What TaskLink reads of the thread t and of its messages.                *)
SameThread(k, r, t) ==
    /\ r.thread[t] = k.thread[t]
    /\ \A c \in CPU : r.running[c] = t <=> k.running[c] = t
    /\ \A c \in CPU : k.running[c] = t => r.chain[c] = k.chain[c]
    /\ SameMail(k.channel, r.channel, Of(t))

(* What TaskLink reads of the transaction of t.                            *)
SameTxn(s, k, r, t) ==
    s.run_state[t] = "PENDING" =>
       (r.txn[s.cpu[t]] = "complete" <=> k.txn[s.cpu[t]] = "complete")

(* TaskLink depends on nothing else.                                       *)
LEMMA LinkKept ==
    ASSUME NEW s, NEW q, NEW k, NEW r, NEW t \in Task, TaskLink(s, k, t), Where(s, t),
           SameView(s, q, t), SameThread(k, r, t), SameTxn(s, k, r, t)
    PROVE  TaskLink(q, r, t)
  <1>1. OnChain(r, t) <=> OnChain(k, t)
    BY DEF OnChain, SameThread
  <1>2. Waits(r, t) <=> Waits(k, t)
    BY <1>1 DEF Waits, SameThread
  <1>3. \A m \in Message : IsFirst(r.channel, Of(t), m) => Fits(q, r, t, m)
    BY DEF TaskLink, SameThread, SameMail, Fits, SameView, SameTxn
  <1>4. \A x, y \in Message : IsStep(r.channel, Of(t), x, y) => Follows(x, y)
    BY DEF TaskLink, SameThread, SameMail
  <1>5. \A m \in Message : IsLast(r.channel, Of(t), m) => Settled(r, t, m)
    BY <1>2 DEF TaskLink, SameThread, SameMail, Settled
  <1>6. ASSUME Silent(r.channel, Of(t)) PROVE Quiet(q, r, t)
    <2>1. Quiet(s, k, t)
      BY <1>6 DEF TaskLink, SameThread, SameMail
    <2>2. s.run_state[t] \in {"ON_CPU", "PENDING"} =>
             (Own(r, s.cpu[t], t) <=> Own(k, s.cpu[t], t))
      BY DEF Where, Own, SameThread
    <2>3. /\ t \notin q.alive => r.thread[t] = "absent"
          /\ t \in q.alive /\ q.run_state[t] = "BLOCKED" => Waits(r, t)
          /\ t \in q.alive /\ q.run_state[t] \in {"QUEUED", "YIELDING"} =>
                \/ r.thread[t] \in {"runnable", "leaving", "arriving"}
                \/ r.thread[t] = "running" /\ ~OnChain(r, t)
      BY <1>1, <1>2, <2>1 DEF Quiet, SameView, SameThread
    <2>4. t \in q.alive /\ q.run_state[t] = "ON_CPU" => Own(r, q.cpu[t], t)
      BY <2>1, <2>2 DEF Quiet, SameView
    <2>5. t \in q.alive /\ q.run_state[t] = "PENDING" =>
             IF r.txn[q.cpu[t]] = "complete" THEN Own(r, q.cpu[t], t)
                                             ELSE r.thread[t] = "runnable"
      BY <2>1, <2>2 DEF Quiet, SameView, SameTxn, SameThread
    <2> QED BY <2>3, <2>4, <2>5 DEF Quiet
  <1>7. q.preempted[t] => Settling(r, t)
    BY DEF TaskLink, SameView, SameThread, SameMail, Settling
  <1> QED BY <1>3, <1>4, <1>5, <1>6, <1>7 DEF TaskLink

(* What the scheduler and the channel know of a thread that waits.         *)
LEMMA WaitsKnown ==
    ASSUME NEW s, NEW k, NEW t \in Task, TaskLink(s, k, t), Where(s, t), KernelInv(k),
           s \in Scheduler, Waits(k, t)
    PROVE  /\ Silent(k.channel, Of(t)) => t \in s.alive /\ s.run_state[t] = "BLOCKED"
           /\ \A m \in Message : IsLast(k.channel, Of(t), m) => ToB(m)
           /\ ~s.preempted[t]
           /\ k.thread[t] \in {"blocked", "running"}
  <1>0. t # NoTask
    BY SchedulerAssumption
  <1>1. k.thread[t] \in {"blocked", "running"}
    BY <1>0 DEF Waits, OnChain, KernelInv
  <1>2. \A c \in CPU : ~Own(k, c, t)
    BY <1>0 DEF Waits, OnChain, KernelInv, Own
  <1>3. k.thread[t] = "running" => OnChain(k, t)
    BY DEF Waits
  <1>4. ASSUME NEW m \in Message, IsLast(k.channel, Of(t), m) PROVE ToB(m)
    <2>1. Settled(k, t, m)
      BY <1>4 DEF TaskLink
    <2> QED BY <1>1, <2>1 DEF Settled, ToB, NewRunnable, Message, MsgType
  <1>5. ASSUME Silent(k.channel, Of(t)) PROVE t \in s.alive /\ s.run_state[t] = "BLOCKED"
    <2>1. Quiet(s, k, t)
      BY <1>5 DEF TaskLink
    <2>2. s.run_state[t] \in RunState
      BY DEF Scheduler
    <2>3. s.run_state[t] \in {"ON_CPU", "PENDING"} => s.cpu[t] \in CPU
      BY DEF Where
    <2> QED BY <1>1, <1>2, <1>3, <2>1, <2>2, <2>3 DEF Quiet, RunState
  <1>6. ~s.preempted[t]
    BY <1>1 DEF TaskLink, Settling
  <1> QED BY <1>1, <1>4, <1>5, <1>6

(* What they know of a thread that is on a CPU in its own right.           *)
LEMMA RunsKnown ==
    ASSUME NEW s, NEW k, NEW t \in Task, TaskLink(s, k, t), s \in Scheduler,
           k.thread[t] \in {"running", "leaving", "arriving"}, ~Waits(k, t)
    PROVE  /\ Silent(k.channel, Of(t)) =>
                 /\ t \in s.alive /\ s.run_state[t] # "BLOCKED"
                 /\ s.run_state[t] = "PENDING" => k.txn[s.cpu[t]] = "complete"
                 /\ s.run_state[t] = "PENDING" => Own(k, s.cpu[t], t)
                 /\ s.run_state[t] = "ON_CPU" => Own(k, s.cpu[t], t)
           /\ \A m \in Message : IsLast(k.channel, Of(t), m) =>
                 NewRunnable(m) /\ k.thread[t] = "arriving"
           /\ ~s.preempted[t]
  <1>1. ASSUME NEW m \in Message, IsLast(k.channel, Of(t), m)
        PROVE  NewRunnable(m) /\ k.thread[t] = "arriving"
    <2>1. Settled(k, t, m)
      BY <1>1 DEF TaskLink
    <2> QED BY <2>1 DEF Settled, ToB, NewRunnable, Message, MsgType
  <1>2. ASSUME Silent(k.channel, Of(t))
        PROVE  /\ t \in s.alive /\ s.run_state[t] # "BLOCKED"
               /\ s.run_state[t] = "PENDING" => k.txn[s.cpu[t]] = "complete"
               /\ s.run_state[t] = "PENDING" => Own(k, s.cpu[t], t)
               /\ s.run_state[t] = "ON_CPU" => Own(k, s.cpu[t], t)
    <2>1. Quiet(s, k, t)
      BY <1>2 DEF TaskLink
    <2> QED BY <2>1 DEF Quiet
  <1>3. ~s.preempted[t]
    BY Zenon DEF TaskLink, Settling
  <1> QED BY <1>1, <1>2, <1>3

(* A message about t is sent.                                              *)
LEMMA SentLink ==
    ASSUME NEW s, NEW k, NEW r, NEW t \in Task, NEW m \in Message, TaskLink(s, k, t),
           Sent(k.channel, r.channel, Of(t), m),
           ~s.preempted[t],
           Silent(k.channel, Of(t)) => Fits(s, r, t, m),
           \A x \in Message : IsLast(k.channel, Of(t), x) => Follows(x, m),
           Settled(r, t, m),
           r.thread[t] = "absent" => t \in s.alive,
           SameTxn(s, k, r, t)
    PROVE  TaskLink(s, r, t)
  <1>1. ASSUME NEW x \in Message, IsFirst(r.channel, Of(t), x) PROVE Fits(s, r, t, x)
    <2>1. IsFirst(k.channel, Of(t), x) \/ (Silent(k.channel, Of(t)) /\ x = m)
      BY <1>1 DEF Sent
    <2>2. IsFirst(k.channel, Of(t), x) => Fits(s, k, t, x)
      BY DEF TaskLink
    <2>3. Fits(s, k, t, x) => Fits(s, r, t, x)
      BY DEF Fits, SameTxn
    <2> QED BY <2>1, <2>2, <2>3
  <1>2. \A x, y \in Message : IsStep(r.channel, Of(t), x, y) => Follows(x, y)
    BY DEF Sent, TaskLink
  <1>3. \A x \in Message : IsLast(r.channel, Of(t), x) => Settled(r, t, x)
    BY Zenon DEF Sent
  <1> QED BY <1>1, <1>2, <1>3 DEF Sent, TaskLink

(* A thread that waits goes on waiting, and no message says so.            *)
LEMMA WaitsLink ==
    ASSUME NEW s, NEW k, NEW r, NEW t \in Task, TaskLink(s, k, t), Where(s, t), s \in Scheduler,
           KernelInv(k), Waits(k, t), Waits(r, t), r.thread[t] # "absent",
           SameMail(k.channel, r.channel, Of(t)), SameTxn(s, k, r, t)
    PROVE  TaskLink(s, r, t)
  <1>0. /\ Silent(k.channel, Of(t)) => t \in s.alive /\ s.run_state[t] = "BLOCKED"
        /\ \A m \in Message : IsLast(k.channel, Of(t), m) => ToB(m)
        /\ ~s.preempted[t]
    BY WaitsKnown, Zenon
  <1>1. \A m \in Message : IsFirst(r.channel, Of(t), m) => Fits(s, r, t, m)
    BY DEF TaskLink, SameMail, Fits, SameTxn
  <1>2. \A x, y \in Message : IsStep(r.channel, Of(t), x, y) => Follows(x, y)
    BY DEF TaskLink, SameMail
  <1>3. \A m \in Message : IsLast(r.channel, Of(t), m) => Settled(r, t, m)
    <2>1. \A m \in Message : ToB(m) => Settled(r, t, m)
      BY Zenon DEF ToB, Settled, NewRunnable
    <2> QED BY <1>0, <2>1 DEF SameMail
  <1>4. Silent(r.channel, Of(t)) => Quiet(s, r, t)
    BY <1>0 DEF SameMail, Quiet
  <1> QED BY <1>0, <1>1, <1>2, <1>3, <1>4 DEF TaskLink

(* A CPU of which nothing has changed.                                     *)
LEMMA CpuLinkKept ==
    ASSUME NEW s, NEW q, NEW k, NEW r, NEW c \in CPU, CpuLink(s, k, c),
           Chained(q, c) <=> Chained(s, c), r.chain[c] <=> k.chain[c],
           SameMail(k.channel, r.channel, Sw(c))
    PROVE  CpuLink(q, r, c)
  BY DEF CpuLink, SameMail

(* A message that starts or ends a switchto chain is sent.                 *)
LEMMA CpuLinkSent ==
    ASSUME NEW s, NEW k, NEW r, NEW c \in CPU, NEW m \in Message, CpuLink(s, k, c),
           Sent(k.channel, r.channel, Sw(c), m),
           m.type = "SWITCHTO" <=> r.chain[c],
           r.chain[c] <=> ~k.chain[c]
    PROVE  CpuLink(s, r, c)
  <1>1. \A x \in Message : IsFirst(r.channel, Sw(c), x) =>
          (x.type = "SWITCHTO" <=> ~Chained(s, c))
    BY DEF CpuLink, Sent
  <1>2. \A x, y \in Message : IsStep(r.channel, Sw(c), x, y) =>
          (x.type = "SWITCHTO" <=> y.type # "SWITCHTO")
    BY DEF CpuLink, Sent
  <1>3. \A x \in Message : IsLast(r.channel, Sw(c), x) =>
          (x.type = "SWITCHTO" <=> r.chain[c])
    BY DEF Sent
  <1> QED BY <1>1, <1>2, <1>3 DEF CpuLink, Sent

(***************************************************************************)
(* The steps of the kernel.                                                *)
(***************************************************************************)
(* What the agent relies on between two of its own steps: no message about *)
(* a runnable thread comes unless the thread runs first, no thread starts  *)
(* on a CPU without a transaction, and no transaction is opened.           *)
Steady(s, k, r) ==
    /\ \A t \in Task : Settling(k, t) /\ s.run_state[t] # "PENDING" => Settling(r, t)
    /\ \A c \in CPU : k.running[c] = NoTask /\ s.next[c] = NoTask => r.running[c] = NoTask
    /\ \A c \in CPU : r.txn[c] \in {"open", "submitted"} =>
          r.txn[c] = k.txn[c] /\ r.target[c] = k.target[c]
    /\ \A c \in CPU : k.txn[c] = "open" => r.txn[c] = "open"

(* CPU d keeps its thread, or has none.                                    *)
RunStays(k, r, d) ==
    /\ r.running[d] = NoTask => ~r.chain[d]
    /\ r.running[d] # NoTask =>
          /\ r.running[d] = k.running[d] /\ (r.chain[d] <=> k.chain[d])
          /\ r.thread[k.running[d]] = k.thread[k.running[d]]

(* Threads that stay on their CPUs, or leave them, keep the kernel's       *)
(* invariant.                                                              *)
LEMMA RunsKept ==
    ASSUME NEW k, NEW r, KernelInv(k), r \in Kernel, r.channel \in Seq(KernelMsg),
           \A d \in CPU : RunStays(k, r, d)
    PROVE  KernelInv(r)
  <1>1. /\ \A d \in CPU : k.running[d] # NoTask => k.thread[k.running[d]] = "running"
        /\ \A d, e \in CPU : k.running[d] = k.running[e] /\ k.running[d] # NoTask => d = e
        /\ enforce_affinity_mask_ =>
              \A d \in CPU : k.running[d] # NoTask /\ ~k.chain[d] =>
                                d \in allowed_cpulist[k.running[d]]
    BY DEF KernelInv
  <1>2. ASSUME NEW d \in CPU, r.running[d] # NoTask
        PROVE  /\ r.thread[r.running[d]] = "running"
               /\ enforce_affinity_mask_ /\ ~r.chain[d] => d \in allowed_cpulist[r.running[d]]
    BY <1>1, <1>2 DEF RunStays
  <1>3. ASSUME NEW d \in CPU, NEW e \in CPU, r.running[d] = r.running[e], r.running[d] # NoTask
        PROVE  d = e
    BY <1>1, <1>3 DEF RunStays
  <1>4. \A d \in CPU : r.chain[d] => r.running[d] # NoTask
    BY DEF RunStays
  <1> QED BY <1>2, <1>3, <1>4 DEF KernelInv

(* CPU d keeps its thread, which is not t.                                 *)
RunKept(k, r, t, d) ==
    /\ r.running[d] = k.running[d] /\ (r.chain[d] <=> k.chain[d])
    /\ k.running[d] # t
    /\ k.running[d] # NoTask => r.thread[k.running[d]] = k.thread[k.running[d]]

(* The thread t runs on CPU c, which is in its affinity mask unless the    *)
(* thread is on a switchto chain.                                          *)
RunsOn(r, c, t) ==
    /\ r.running[c] = t /\ r.thread[t] = "running"
    /\ enforce_affinity_mask_ /\ ~r.chain[c] => c \in allowed_cpulist[t]

(* So does a thread that starts to run on a CPU of its affinity mask, or   *)
(* on a switchto chain.                                                    *)
LEMMA RunsAdded ==
    ASSUME NEW k, NEW r, NEW c \in CPU, NEW t \in Task,
           KernelInv(k), r \in Kernel, r.channel \in Seq(KernelMsg), RunsOn(r, c, t),
           \A d \in CPU \ {c} : RunKept(k, r, t, d)
    PROVE  KernelInv(r)
  <1>0. t # NoTask
    BY SchedulerAssumption
  <1>1. /\ \A d \in CPU : k.running[d] # NoTask => k.thread[k.running[d]] = "running"
        /\ \A d, e \in CPU : k.running[d] = k.running[e] /\ k.running[d] # NoTask => d = e
        /\ \A d \in CPU : k.chain[d] => k.running[d] # NoTask
        /\ enforce_affinity_mask_ =>
              \A d \in CPU : k.running[d] # NoTask /\ ~k.chain[d] =>
                                d \in allowed_cpulist[k.running[d]]
    BY DEF KernelInv
  <1>2. ASSUME NEW d \in CPU
        PROVE  /\ r.running[d] # NoTask => r.thread[r.running[d]] = "running"
               /\ r.chain[d] => r.running[d] # NoTask
               /\ enforce_affinity_mask_ /\ r.running[d] # NoTask /\ ~r.chain[d] =>
                     d \in allowed_cpulist[r.running[d]]
    <2>1. CASE d = c
      BY <1>0, <2>1 DEF RunsOn
    <2>2. CASE d # c
      BY <1>1, <2>2 DEF RunKept
    <2> QED BY <2>1, <2>2
  <1>3. ASSUME NEW d \in CPU, NEW e \in CPU, r.running[d] = r.running[e], r.running[d] # NoTask
        PROVE  d = e
    <2>1. CASE d = c
      BY <1>3, <2>1 DEF RunsOn, RunKept
    <2>2. CASE e = c
      BY <1>3, <2>2 DEF RunsOn, RunKept
    <2>3. CASE d # c /\ e # c
      BY <1>1, <1>3, <2>3 DEF RunKept
    <2> QED BY <2>1, <2>2, <2>3
  <1> QED BY <1>2, <1>3 DEF KernelInv

(* The thread t, which is on no CPU of the enclave, changes its state and  *)
(* the kernel sends the message m.                                         *)
Tells(k, r, t, st, m) ==
    /\ r \in Kernel
    /\ r.thread[t] = st /\ \A u \in Task \ {t} : r.thread[u] = k.thread[u]
    /\ r.running = k.running /\ r.chain = k.chain
    /\ r.txn = k.txn /\ r.target = k.target
    /\ r.channel = Append(k.channel, m)
    /\ m \in KernelMsg /\ m.task = t /\ ~m.from_switchto /\ m.type # "SWITCHTO"

(* A thread that is on no CPU changes state and its message is sent.       *)
LEMMA TellsKeeps ==
    ASSUME NEW s, NEW k, NEW r, NEW t \in Task, NEW st, NEW m, Linked(s, k),
           Tells(k, r, t, st, m),
           k.thread[t] \notin {"running", "runnable"}, st # "running",
           Silent(k.channel, Of(t)) => Fits(s, r, t, m),
           \A x \in Message : IsLast(k.channel, Of(t), x) => Follows(x, m),
           Settled(r, t, m),
           r.thread[t] = "absent" => t \in s.alive
    PROVE  Linked(s, r) /\ Steady(s, k, r)
  <1>0. /\ Placed(s) /\ s.ok /\ KernelInv(k) /\ k \in Kernel
        /\ \A u \in Task : TaskLink(s, k, u) /\ Where(s, u)
        /\ \A c \in CPU : CpuLink(s, k, c)
    BY Zenon DEF Linked, Placed, KernelInv
  <1>1. m \in Message /\ k.channel \in Seq(Message) /\ k.channel \in Seq(KernelMsg)
    BY <1>0, Zenon DEF Tells, KernelMsg, KernelInv, Kernel
  <1>2. /\ r \in Kernel
        /\ r.thread[t] = st /\ \A u \in Task \ {t} : r.thread[u] = k.thread[u]
        /\ r.running = k.running /\ r.chain = k.chain
        /\ r.txn = k.txn /\ r.target = k.target
        /\ r.channel = Append(k.channel, m)
        /\ m \in KernelMsg /\ m.task = t /\ ~m.from_switchto /\ m.type # "SWITCHTO"
    BY DEF Tells
  <1>3. Sent(k.channel, r.channel, Of(t), m)
    <2>1. m \in Of(t)
      BY <1>1, <1>2 DEF Of
    <2> QED BY <1>1, <1>2, <2>1, SendIn
  <1>4. ASSUME NEW u \in Task \ {t} PROVE SameMail(k.channel, r.channel, Of(u))
    <2>1. m \notin Of(u)
      BY <1>2, Zenon DEF Of
    <2> QED BY <1>1, <1>2, <2>1, SendOther
  <1>5. ASSUME NEW c \in CPU PROVE SameMail(k.channel, r.channel, Sw(c))
    <2>1. m \notin Sw(c)
      BY <1>2, Zenon DEF Sw
    <2> QED BY <1>1, <1>2, <2>1, SendOther
  <1>6. KernelInv(r)
    <2>1. r.channel \in Seq(KernelMsg)
      BY <1>1, <1>2
    <2>2. /\ \A c \in CPU : k.running[c] # t
          /\ \A c \in CPU : k.chain[c] => k.running[c] # NoTask
      BY <1>0, SchedulerAssumption, Zenon DEF KernelInv
    <2>3. \A c \in CPU : k.running[c] \in Task \cup {NoTask}
      BY <1>0 DEF Kernel
    <2>4. ASSUME NEW c \in CPU PROVE RunStays(k, r, c)
      BY <1>2, <2>2, <2>3 DEF RunStays
    <2> QED BY <1>0, <1>2, <2>1, <2>4, RunsKept, Zenon
  <1>7. \A u \in Task : SameTxn(s, k, r, u)
    BY <1>2, Zenon DEF SameTxn
  <1>8. TaskLink(s, r, t)
    <2>1. ~s.preempted[t]
      BY <1>0, Zenon DEF TaskLink, Settling
    <2> QED BY <1>0, <1>1, <1>3, <1>7, <2>1, SentLink
  <1>9. ASSUME NEW u \in Task \ {t} PROVE TaskLink(s, r, u)
    <2>1. SameThread(k, r, u)
      BY <1>2, <1>4 DEF SameThread
    <2>2. SameView(s, s, u)
      BY Zenon DEF SameView
    <2> QED BY <1>0, <1>7, <2>1, <2>2, LinkKept
  <1>10. ASSUME NEW c \in CPU PROVE CpuLink(s, r, c)
    BY <1>0, <1>2, <1>5, CpuLinkKept, Zenon
  <1>11. Linked(s, r)
    BY <1>0, <1>6, <1>8, <1>9, <1>10 DEF Linked
  <1>12. Steady(s, k, r)
    <2>1. \A u \in Task : Settling(k, u) => Settling(r, u)
      BY <1>2, <1>4 DEF Settling, SameMail
    <2> QED BY <1>2, <2>1, Zenon DEF Steady
  <1> QED BY <1>11, <1>12, Zenon

(* A thread that waits sends a message that fits.                          *)
LEMMA WaitsFits ==
    ASSUME NEW s, NEW k, NEW r, NEW t \in Task, NEW m \in Message, Linked(s, k),
           Waits(k, t), FromB(m)
    PROVE  /\ Silent(k.channel, Of(t)) => Fits(s, r, t, m)
           /\ \A x \in Message : IsLast(k.channel, Of(t), x) => Follows(x, m)
  <1>0. /\ TaskLink(s, k, t) /\ Where(s, t) /\ KernelInv(k) /\ s \in Scheduler
    BY DEF Linked, Placed, Sane
  <1>1. /\ Silent(k.channel, Of(t)) => t \in s.alive /\ s.run_state[t] = "BLOCKED"
        /\ \A x \in Message : IsLast(k.channel, Of(t), x) => ToB(x)
    BY <1>0, WaitsKnown
  <1> QED BY <1>1 DEF Fits, Follows

(* And so does a thread that is on a CPU in its own right.                 *)
LEMMA RunsFits ==
    ASSUME NEW s, NEW k, NEW r, NEW t \in Task, NEW m \in Message, Linked(s, k),
           k.thread[t] \in {"running", "leaving", "arriving"}, ~Waits(k, t), FromX(m),
           r.txn = k.txn
    PROVE  /\ Silent(k.channel, Of(t)) => Fits(s, r, t, m)
           /\ \A x \in Message : IsLast(k.channel, Of(t), x) => Follows(x, m)
  <1>0. /\ TaskLink(s, k, t) /\ s \in Scheduler
    BY Zenon DEF Linked, Placed, Sane
  <1>1. /\ Silent(k.channel, Of(t)) =>
              /\ t \in s.alive /\ s.run_state[t] # "BLOCKED"
              /\ s.run_state[t] = "PENDING" => k.txn[s.cpu[t]] = "complete"
        /\ \A x \in Message : IsLast(k.channel, Of(t), x) => NewRunnable(x)
    BY <1>0, RunsKnown
  <1> QED BY <1>1 DEF Fits, Follows

(* A thread that is not running is on no chain.                            *)
LEMMA OffChain ==
    ASSUME NEW k, NEW t \in Task, KernelInv(k), k.thread[t] # "running"
    PROVE  ~OnChain(k, t)
  BY SchedulerAssumption DEF KernelInv, OnChain

(* Msg makes messages.                                                     *)
LEMMA MsgFacts ==
    ASSUME NEW type \in MsgType, NEW t \in Task, NEW c \in CPU \cup {NoCpu},
           NEW f \in BOOLEAN, NEW g \in BOOLEAN,
           f => c \in CPU /\ type \in {"BLOCKED", "PREEMPT", "YIELD", "DEPARTED"},
           type = "SWITCHTO" => c \in CPU
    PROVE  /\ Msg(type, t, c, f, g) \in KernelMsg
           /\ Msg(type, t, c, f, g) \in Message
           /\ Msg(type, t, c, f, g).type = type
           /\ Msg(type, t, c, f, g).task = t
           /\ Msg(type, t, c, f, g).cpu = c
           /\ Msg(type, t, c, f, g).from_switchto = f
           /\ Msg(type, t, c, f, g).flag = g
  BY DEF Msg, KernelMsg, Message

(* The new kernel of an action that changes one thread and sends a message.*)
LEMMA TellsIs ==
    ASSUME NEW k \in Kernel, NEW t \in Task, NEW st \in ThreadState, NEW m,
           m \in KernelMsg, m.task = t, ~m.from_switchto, m.type # "SWITCHTO"
    PROVE  Tells(k, Send([k EXCEPT !.thread[t] = st], m), t, st, m)
  <1> DEFINE f == [k.thread EXCEPT ![t] = st]
             r == [k EXCEPT !.thread = f, !.channel = Append(k.channel, m)]
  <1>1. /\ f \in [Task -> ThreadState] /\ f[t] = st
        /\ \A u \in Task \ {t} : f[u] = k.thread[u]
    BY DEF Kernel
  <1>2. Append(k.channel, m) \in Seq(Message)
    BY DEF Kernel, KernelMsg
  <1>3. Send([k EXCEPT !.thread[t] = st], m) = r
    BY DEF Send, Kernel
  <1> HIDE DEF f
  <1>4. r \in Kernel
    BY <1>1, <1>2, Zenon DEF Kernel
  <1> QED BY <1>1, <1>3, <1>4, Zenon DEF Tells, Kernel

(* A plain message about t.                                                *)
Plain(m, type, t) ==
    /\ m \in KernelMsg /\ m \in Message /\ m.type = type /\ m.task = t
    /\ ~m.from_switchto

(* A thread enters the enclave: NEW.                                       *)
LEMMA ThreadNewKeeps ==
    ASSUME Linked(sched, kern), NEW t \in Task,
           NEW state \in {"blocked", "runnable", "arriving"}, ThreadNew(t, state)
    PROVE  Linked(sched, kern') /\ Steady(sched, kern, kern')
  <1> DEFINE m == Msg("NEW", t, NoCpu, FALSE, state # "blocked")
  <1>0. kern \in Kernel /\ TaskLink(sched, kern, t) /\ kern.channel \in Seq(Message)
    BY DEF Linked, KernelInv, Kernel
  <1>1. Plain(m, "NEW", t) /\ (m.flag <=> state # "blocked")
    <2>1. PICK g \in BOOLEAN : g = (state # "blocked")
      BY Zenon
    <2>2. m = Msg("NEW", t, NoCpu, FALSE, g)
      BY <2>1
    <2> QED BY <2>1, <2>2, Zenon DEF Plain, Msg, KernelMsg, Message, MsgType
  <1>2. /\ kern' = Send([kern EXCEPT !.thread[t] = state], m)
        /\ kern.thread[t] = "absent" /\ ~Unseen(kern, t) /\ t \notin sched.alive
    BY DEF ThreadNew, KernelDoes
  <1> HIDE DEF m
  <1>3. Tells(kern, kern', t, state, m)
    BY <1>0, <1>1, <1>2, TellsIs, Zenon DEF Plain, ThreadState
  <1>4. Silent(kern.channel, Of(t))
    BY <1>2 DEF Unseen, Silent, Hits, Of
  <1>5. \A x \in Message : ~IsLast(kern.channel, Of(t), x)
    BY <1>0, <1>4, MailFacts
  <1>6. kern'.thread[t] = state
    BY <1>3 DEF Tells
  <1>7. Fits(sched, kern', t, m)
    BY <1>1, <1>2, <1>6 DEF Fits, Plain
  <1>8. Settled(kern', t, m)
    BY <1>1, <1>6 DEF Settled, Plain, ToB, NewRunnable, Waits
  <1>9. m \in Message /\ state # "running" /\ kern'.thread[t] # "absent"
    BY <1>1, <1>6 DEF Plain
  <1> QED BY <1>2, <1>3, <1>5, <1>7, <1>8, <1>9, TellsKeeps

(* A blocked thread wakes: WAKEUP.                                         *)
LEMMA ThreadWakesKeeps ==
    ASSUME Linked(sched, kern), NEW t \in Task, NEW deferrable \in BOOLEAN,
           ThreadWakes(t, deferrable)
    PROVE  Linked(sched, kern') /\ Steady(sched, kern, kern')
  <1> DEFINE m == Msg("WAKEUP", t, NoCpu, FALSE, deferrable)
  <1>0. kern \in Kernel
    BY DEF Linked, KernelInv
  <1>1. Plain(m, "WAKEUP", t)
    BY DEF Plain, Msg, KernelMsg, Message, MsgType
  <1>2. /\ kern' = Send([kern EXCEPT !.thread[t] = "runnable"], m)
        /\ kern.thread[t] = "blocked"
    BY DEF ThreadWakes, KernelDoes
  <1> HIDE DEF m
  <1>3. Tells(kern, kern', t, "runnable", m)
    BY <1>0, <1>1, <1>2, TellsIs, Zenon DEF Plain, ThreadState
  <1>4. kern'.thread[t] = "runnable" /\ m \in Message
    BY <1>1, <1>3 DEF Tells, Plain
  <1>5. Waits(kern, t) /\ FromB(m)
    BY <1>1, <1>2 DEF Waits, FromB, Plain
  <1>6. /\ Silent(kern.channel, Of(t)) => Fits(sched, kern', t, m)
        /\ \A x \in Message : IsLast(kern.channel, Of(t), x) => Follows(x, m)
    BY <1>4, <1>5, WaitsFits
  <1>7. Settled(kern', t, m)
    BY <1>1, <1>4 DEF Settled, Plain, ToB, NewRunnable
  <1> QED BY <1>2, <1>3, <1>4, <1>6, <1>7, TellsKeeps

(* A thread exits or leaves the enclave after it has blocked.              *)
LEMMA GoesKeeps ==
    ASSUME Linked(sched, kern), NEW t \in Task, NEW type \in {"DEAD", "DEPARTED"},
           kern.thread[t] = "blocked", t \in sched.alive,
           kern' = Send([kern EXCEPT !.thread[t] = "absent"],
                        Msg(type, t, NoCpu, FALSE, FALSE))
    PROVE  Linked(sched, kern') /\ Steady(sched, kern, kern')
  <1> DEFINE m == Msg(type, t, NoCpu, FALSE, FALSE)
  <1>0. kern \in Kernel
    BY DEF Linked, KernelInv
  <1>1. Plain(m, type, t)
    BY DEF Plain, Msg, KernelMsg, Message, MsgType
  <1> HIDE DEF m
  <1>3. Tells(kern, kern', t, "absent", m)
    BY <1>0, <1>1, TellsIs, Zenon DEF Plain, ThreadState, m
  <1>4. kern'.thread[t] = "absent" /\ m \in Message
    BY <1>1, <1>3, Zenon DEF Tells, Plain
  <1>5. Waits(kern, t) /\ FromB(m)
    BY <1>1 DEF Waits, FromB, Plain
  <1>6. /\ Silent(kern.channel, Of(t)) => Fits(sched, kern', t, m)
        /\ \A x \in Message : IsLast(kern.channel, Of(t), x) => Follows(x, m)
    BY <1>4, <1>5, WaitsFits, Zenon
  <1>7. Settled(kern', t, m)
    BY <1>1, <1>4, Zenon DEF Settled, Plain, ToB, NewRunnable
  <1> QED BY <1>3, <1>4, <1>6, <1>7, TellsKeeps, Zenon

(* A blocked thread exits: DEAD.                                           *)
LEMMA ThreadDiesKeeps ==
    ASSUME Linked(sched, kern), NEW t \in Task, ThreadDies(t)
    PROVE  Linked(sched, kern') /\ Steady(sched, kern, kern')
  BY GoesKeeps, Zenon DEF ThreadDies, KernelDoes

(* A blocked thread leaves the enclave: DEPARTED. A queued thread that     *)
(* departs is the event depart_queued, which is left out: TaskDeparted     *)
(* then leaves the task in the run queue.                                  *)
LEMMA ThreadDepartsKeeps ==
    ASSUME Linked(sched, kern), NEW t \in Task, ThreadDeparts(t),
           "depart_queued" \notin KernelEvents
    PROVE  Linked(sched, kern') /\ Steady(sched, kern, kern')
  <1>1. kern.thread[t] = "blocked"
    BY DEF ThreadDeparts, DepartStates, May
  <1> QED BY <1>1, GoesKeeps, Zenon DEF ThreadDeparts, KernelDoes

(* The message of a thread that was on a CPU outside the agent's control   *)
(* and blocks or is taken off it.                                          *)
OffCpuMsg(t, st) ==
    IF st = "blocked" THEN Msg("BLOCKED", t, NoCpu, FALSE, FALSE)
                      ELSE Msg("PREEMPT", t, NoCpu, FALSE, FALSE)

(* A thread that was leaving or arriving is off its CPU: BLOCKED or        *)
(* PREEMPT.                                                                *)
LEMMA OffCpuKeeps ==
    ASSUME Linked(sched, kern), NEW t \in Task, NEW st \in {"blocked", "runnable"}, NEW k,
           kern.thread[t] \in {"leaving", "arriving"},
           k = [kern EXCEPT !.thread[t] = st],
           kern' = Send(k, OffCpuMsg(t, st))
    PROVE  Linked(sched, kern') /\ Steady(sched, kern, kern')
  <1> DEFINE m == OffCpuMsg(t, st)
             type == IF st = "blocked" THEN "BLOCKED" ELSE "PREEMPT"
  <1>0. kern \in Kernel /\ KernelInv(kern)
    BY DEF Linked, KernelInv
  <1>1. Plain(m, type, t)
    BY DEF Plain, Msg, KernelMsg, Message, MsgType, OffCpuMsg
  <1> HIDE DEF m
  <1>3. Tells(kern, kern', t, st, m)
    BY <1>0, <1>1, TellsIs, Zenon DEF Plain, ThreadState, m
  <1>4. /\ kern'.thread[t] = st /\ m \in Message /\ kern'.txn = kern.txn
    BY <1>1, <1>3 DEF Tells, Plain
  <1>5. ~Waits(kern, t) /\ FromX(m)
    BY <1>0, <1>1, OffChain DEF Waits, FromX, Plain
  <1>6. /\ Silent(kern.channel, Of(t)) => Fits(sched, kern', t, m)
        /\ \A x \in Message : IsLast(kern.channel, Of(t), x) => Follows(x, m)
    BY <1>4, <1>5, RunsFits
  <1>7. Settled(kern', t, m)
    BY <1>1, <1>4 DEF Settled, Plain, ToB, NewRunnable, Waits
  <1> QED BY <1>3, <1>4, <1>6, <1>7, TellsKeeps, Zenon

(* A thread that joined while it ran is taken off its CPU, or blocks. One  *)
(* that exits just before is the event die_early, which is left out:       *)
(* TaskNew's CHECK then fails.                                             *)
LEMMA ThreadArrivesKeeps ==
    ASSUME Linked(sched, kern), NEW t \in Task, ThreadArrives(t),
           "die_early" \notin KernelEvents
    PROVE  Linked(sched, kern') /\ Steady(sched, kern, kern')
  <1>0. kern \in Kernel /\ kern.channel \in Seq(Message)
    BY DEF Linked, KernelInv, Kernel
  <1>1. PICK state \in {"runnable", "blocked"} :
           kern' = [kern EXCEPT !.thread[t] = state,
                                !.channel = kern.channel \o ArrivalMsgs(t, state)]
    BY Zenon DEF ThreadArrives, ArrivalEnds, May, KernelDoes
  <1> DEFINE m == OffCpuMsg(t, state)
             k == [kern EXCEPT !.thread[t] = state]
  <1>2. ArrivalMsgs(t, state) = << m >>
    <2>1. CASE state = "runnable"
      BY <2>1, Zenon DEF ArrivalMsgs, OffCpuMsg
    <2>2. CASE state = "blocked"
      BY <2>2, Zenon DEF ArrivalMsgs, OffCpuMsg
    <2> QED BY <2>1, <2>2
  <1>3. m \in Message
    BY DEF Msg, Message, MsgType, OffCpuMsg
  <1> HIDE DEF m
  <1>4. kern.channel \o << m >> = Append(kern.channel, m)
    BY <1>0, <1>3
  <1>5. kern' = Send(k, m)
    BY <1>0, <1>1, <1>2, <1>4, Zenon DEF Send, Kernel
  <1>6. kern.thread[t] \in {"leaving", "arriving"}
    BY DEF ThreadArrives
  <1>7. PICK j : j = k
    BY Zenon
  <1> HIDE DEF k
  <1>8. kern' = Send(j, OffCpuMsg(t, state))
    BY <1>5, <1>7 DEF m
  <1> QED BY <1>6, <1>7, <1>8, OffCpuKeeps DEF k

(* A thread that is not running, of a task that waits in a queue and has   *)
(* no message under way.                                                   *)
LEMMA QueuedLink ==
    ASSUME NEW s, NEW r, NEW t \in Task, r.channel \in Seq(Message),
           Silent(r.channel, Of(t)), t \in s.alive,
           s.run_state[t] \in {"QUEUED", "YIELDING"},
           r.thread[t] \in {"runnable", "leaving", "arriving"}, ~s.preempted[t]
    PROVE  TaskLink(s, r, t)
  <1>1. /\ \A x \in Message : ~IsFirst(r.channel, Of(t), x) /\ ~IsLast(r.channel, Of(t), x)
        /\ \A x, y \in Message : ~IsStep(r.channel, Of(t), x, y)
    BY MailFacts
  <1>2. Quiet(s, r, t)
    BY DEF Quiet
  <1> QED BY <1>1, <1>2 DEF TaskLink

(* The thread t stops running on CPU c and the kernel sends the message m. *)
Stops(k, r, c, t, st, m) ==
    /\ r \in Kernel
    /\ r.thread[t] = st /\ \A u \in Task \ {t} : r.thread[u] = k.thread[u]
    /\ r.running[c] = NoTask /\ \A d \in CPU \ {c} : r.running[d] = k.running[d]
    /\ ~r.chain[c] /\ \A d \in CPU \ {c} : r.chain[d] = k.chain[d]
    /\ r.txn = k.txn /\ r.target = k.target
    /\ r.channel = Append(k.channel, m)
    /\ m \in KernelMsg /\ m.task = t
    /\ m.from_switchto <=> k.chain[c]
    /\ m.from_switchto => m.cpu = c
    /\ \/ m.type = "BLOCKED" /\ st = "blocked"
       \/ m.type \in {"PREEMPT", "YIELD"} /\ st = "runnable"
       \/ m.type = "DEPARTED" /\ st = "absent"

(* The thread on a CPU stops and its message is sent.                      *)
LEMMA StopsKeeps ==
    ASSUME NEW s, NEW k, NEW r, NEW c \in CPU, NEW t \in Task, NEW st, NEW m,
           Linked(s, k), Stops(k, r, c, t, st, m), k.running[c] = t,
           st = "absent" => k.chain[c] /\ t \in s.alive
    PROVE  Linked(s, r) /\ Steady(s, k, r)
  <1>0. /\ Placed(s) /\ s.ok /\ KernelInv(k) /\ k \in Kernel
        /\ \A u \in Task : TaskLink(s, k, u) /\ Where(s, u)
        /\ \A d \in CPU : CpuLink(s, k, d)
    BY Zenon DEF Linked, Placed, KernelInv
  <1>1. m \in Message /\ k.channel \in Seq(Message) /\ k.channel \in Seq(KernelMsg)
    BY <1>0 DEF Stops, KernelMsg, KernelInv, Kernel
  <1>2. /\ r \in Kernel
        /\ r.thread[t] = st /\ \A u \in Task \ {t} : r.thread[u] = k.thread[u]
        /\ r.running[c] = NoTask /\ \A d \in CPU \ {c} : r.running[d] = k.running[d]
        /\ ~r.chain[c] /\ \A d \in CPU \ {c} : r.chain[d] = k.chain[d]
        /\ r.txn = k.txn /\ r.target = k.target
        /\ r.channel = Append(k.channel, m)
        /\ m \in KernelMsg /\ m.task = t
    BY DEF Stops
  <1>3. /\ m.from_switchto <=> k.chain[c]
        /\ m.from_switchto => m.cpu = c
        /\ \/ m.type = "BLOCKED" /\ st = "blocked"
           \/ m.type \in {"PREEMPT", "YIELD"} /\ st = "runnable"
           \/ m.type = "DEPARTED" /\ st = "absent"
    BY DEF Stops
  <1>4. /\ t # NoTask /\ k.thread[t] = "running"
        /\ \A d \in CPU : k.running[d] = t => d = c
    BY <1>0, SchedulerAssumption DEF KernelInv
  <1>5. Sent(k.channel, r.channel, Of(t), m)
    <2>1. m \in Of(t)
      BY <1>1, <1>2 DEF Of
    <2> QED BY <1>1, <1>2, <2>1, SendIn
  <1>6. ASSUME NEW u \in Task \ {t} PROVE SameMail(k.channel, r.channel, Of(u))
    <2>1. m \notin Of(u)
      BY <1>2 DEF Of
    <2> QED BY <1>1, <1>2, <2>1, SendOther
  <1>7. KernelInv(r)
    <2>1. r.channel \in Seq(KernelMsg)
      BY <1>1, <1>2
    <2>2. \A d \in CPU : k.running[d] \in Task \cup {NoTask}
      BY <1>0, Zenon DEF Kernel
    <2>3. \A d \in CPU : r.running[d] # NoTask =>
             d # c /\ r.running[d] = k.running[d] /\ r.running[d] # t
      BY <1>2, <1>4
    <2>4. \A d \in CPU : k.chain[d] => k.running[d] # NoTask
      BY <1>0 DEF KernelInv
    <2>5. ASSUME NEW d \in CPU PROVE RunStays(k, r, d)
      BY <1>2, <2>2, <2>3, <2>4 DEF RunStays
    <2> QED BY <1>0, <1>2, <2>1, <2>5, RunsKept
  <1>8. \A u \in Task : SameTxn(s, k, r, u)
    BY <1>2, Zenon DEF SameTxn
  <1>9. TaskLink(s, r, t)
    <2>1. ~s.preempted[t]
      BY <1>0, <1>4 DEF TaskLink, Settling
    <2>2. /\ Silent(k.channel, Of(t)) => Fits(s, r, t, m)
          /\ \A x \in Message : IsLast(k.channel, Of(t), x) => Follows(x, m)
      <3>1. CASE k.chain[c]
        <4>1. Waits(k, t) /\ FromB(m)
          BY <1>3, <3>1, Zenon DEF Waits, OnChain, FromB
        <4> QED BY <1>1, <4>1, WaitsFits
      <3>2. CASE ~k.chain[c]
        <4>1. ~Waits(k, t) /\ FromX(m)
          BY <1>3, <1>4, <3>2 DEF Waits, OnChain, FromX
        <4> QED BY <1>1, <1>2, <1>4, <4>1, RunsFits
      <3> QED BY <3>1, <3>2
    <2>3. Settled(r, t, m)
      BY <1>2, <1>3 DEF Settled, ToB, NewRunnable, Waits
    <2>4. r.thread[t] = "absent" => t \in s.alive
      BY <1>2, Zenon
    <2> QED BY <1>0, <1>1, <1>5, <1>8, <2>1, <2>2, <2>3, <2>4, SentLink, Zenon
  <1>10. ASSUME NEW u \in Task \ {t} PROVE TaskLink(s, r, u)
    <2>1. SameThread(k, r, u)
      BY <1>2, <1>4, <1>6, SchedulerAssumption DEF SameThread
    <2>2. SameView(s, s, u)
      BY DEF SameView
    <2> QED BY <1>0, <1>8, <2>1, <2>2, LinkKept
  <1>11. ASSUME NEW d \in CPU PROVE CpuLink(s, r, d)
    <2>1. CASE d = c /\ k.chain[c]
      <3>1. m \in Sw(c)
        BY <1>1, <1>3, <2>1 DEF Sw
      <3>2. Sent(k.channel, r.channel, Sw(c), m)
        BY <1>1, <1>2, <3>1, SendIn
      <3>3. CpuLink(s, k, c)
        BY <1>0, Zenon
      <3>4. CpuLink(s, r, c)
        BY <1>1, <1>2, <1>3, <2>1, <3>2, <3>3, CpuLinkSent, Zenon
      <3> QED BY <2>1, <3>4
    <2>2. CASE ~(d = c /\ k.chain[c])
      <3>1. m \notin Sw(d)
        BY <1>3, <2>2 DEF Sw
      <3>2. SameMail(k.channel, r.channel, Sw(d))
        BY <1>1, <1>2, <3>1, SendOther
      <3>3. r.chain[d] <=> k.chain[d]
        BY <1>2, <2>2
      <3>4. CpuLink(s, k, d)
        BY <1>0
      <3> QED BY <3>2, <3>3, <3>4, CpuLinkKept, Zenon
    <2> QED BY <2>1, <2>2
  <1>12. Linked(s, r)
    BY <1>0, <1>7, <1>9, <1>10, <1>11 DEF Linked
  <1>13. Steady(s, k, r)
    <2>1. \A u \in Task : Settling(k, u) => Settling(r, u)
      BY <1>2, <1>4, <1>6 DEF Settling, SameMail
    <2>2. \A d \in CPU : k.running[d] = NoTask => r.running[d] = NoTask
      BY <1>2
    <2> QED BY <1>2, <2>1, <2>2, Zenon DEF Steady
  <1> QED BY <1>12, <1>13

(* A step that changes nothing the links speak of.                         *)
Idle(k, r) ==
    /\ r \in Kernel
    /\ r.thread = k.thread /\ r.running = k.running /\ r.chain = k.chain
    /\ r.channel = k.channel

(* A step that changes no thread and sends no message keeps the links.     *)
LEMMA IdleKeeps ==
    ASSUME NEW s, NEW k, NEW r, Linked(s, k), Idle(k, r),
           \A t \in Task : SameTxn(s, k, r, t)
    PROVE  Linked(s, r)
  <1>0. /\ Placed(s) /\ s.ok /\ KernelInv(k) /\ k \in Kernel
        /\ \A u \in Task : TaskLink(s, k, u) /\ Where(s, u)
        /\ \A d \in CPU : CpuLink(s, k, d)
    BY Zenon DEF Linked, Placed, KernelInv
  <1>1. \A K : SameMail(k.channel, r.channel, K)
    BY DEF SameMail, Idle
  <1>2. KernelInv(r)
    <2>1. k.channel \in Seq(KernelMsg) /\ \A d \in CPU : k.chain[d] => k.running[d] # NoTask
      BY <1>0 DEF KernelInv
    <2>2. /\ r \in Kernel /\ r.thread = k.thread /\ r.running = k.running
          /\ r.chain = k.chain /\ r.channel = k.channel
      BY DEF Idle
    <2>3. \A d \in CPU : RunStays(k, r, d)
      BY <2>1, <2>2 DEF RunStays
    <2> QED BY <1>0, <2>1, <2>2, <2>3, RunsKept
  <1>3. ASSUME NEW u \in Task PROVE TaskLink(s, r, u)
    <2>1. SameThread(k, r, u)
      BY <1>1 DEF SameThread, Idle
    <2>2. SameView(s, s, u)
      BY DEF SameView
    <2> QED BY <1>0, <2>1, <2>2, LinkKept
  <1>4. ASSUME NEW d \in CPU PROVE CpuLink(s, r, d)
    <2>1. SameMail(k.channel, r.channel, Sw(d)) /\ (r.chain[d] <=> k.chain[d])
      BY <1>1 DEF Idle
    <2> QED BY <1>0, <2>1, CpuLinkKept
  <1> QED BY <1>0, <1>2, <1>3, <1>4 DEF Linked

(* A thread the agent has preempted leaves its CPU.                        *)
LEMMA ThreadLeavesKeeps ==
    ASSUME Linked(sched, kern), NEW t \in Task, ThreadLeaves(t)
    PROVE  Linked(sched, kern') /\ Steady(sched, kern, kern')
  <1> DEFINE s == sched
             k == kern
             r == [kern EXCEPT !.thread[t] = "runnable"]
             q == [kern EXCEPT !.thread[t] = "blocked"]
  <1>0. /\ Placed(s) /\ s.ok /\ KernelInv(k) /\ k \in Kernel /\ s \in Scheduler
        /\ \A u \in Task : TaskLink(s, k, u) /\ Where(s, u)
        /\ \A d \in CPU : CpuLink(s, k, d)
    BY DEF Linked, Placed, KernelInv, Sane
  <1>1. k.thread[t] = "leaving"
    BY DEF ThreadLeaves
  <1>2. CASE kern' = r
    <2>1. r \in Kernel
      BY <1>0, Zenon DEF Kernel, ThreadState
    <2>2. /\ r.thread[t] = "runnable" /\ \A u \in Task \ {t} : r.thread[u] = k.thread[u]
          /\ r.running = k.running /\ r.chain = k.chain
          /\ r.txn = k.txn /\ r.target = k.target /\ r.channel = k.channel
      BY <1>0 DEF Kernel
    <2> HIDE DEF r
    <2>3. ~Waits(k, t) /\ k.channel \in Seq(Message)
      BY <1>0, <1>1, OffChain DEF Waits, Kernel
    <2>4. /\ Silent(k.channel, Of(t)) =>
                /\ t \in s.alive /\ s.run_state[t] # "BLOCKED"
                /\ s.run_state[t] = "PENDING" => Own(k, s.cpu[t], t)
                /\ s.run_state[t] = "ON_CPU" => Own(k, s.cpu[t], t)
          /\ \A m \in Message : ~IsLast(k.channel, Of(t), m)
          /\ ~s.preempted[t]
      BY <1>0, <1>1, <2>3, RunsKnown, Zenon
    <2>5. Silent(k.channel, Of(t))
      BY <2>3, <2>4, MailFacts
    <2>6. \A d \in CPU : ~Own(k, d, t) /\ k.running[d] # t
      BY <1>0, <1>1, SchedulerAssumption DEF Own, KernelInv
    <2>7. s.run_state[t] \in {"QUEUED", "YIELDING"}
      <3>1. s.run_state[t] \in RunState
        BY <1>0 DEF Scheduler
      <3>2. s.run_state[t] \in {"ON_CPU", "PENDING"} => s.cpu[t] \in CPU
        BY <1>0 DEF Where
      <3> QED BY <2>4, <2>5, <2>6, <3>1, <3>2 DEF RunState
    <2>8. TaskLink(s, r, t)
      BY <2>2, <2>3, <2>4, <2>5, <2>7, QueuedLink
    <2>9. \A K : SameMail(k.channel, r.channel, K)
      BY <2>2 DEF SameMail
    <2>10. ASSUME NEW u \in Task \ {t} PROVE TaskLink(s, r, u)
      <3>1. SameThread(k, r, u) /\ SameView(s, s, u) /\ SameTxn(s, k, r, u)
        BY <2>2, <2>9 DEF SameThread, SameView, SameTxn
      <3> QED BY <1>0, <3>1, LinkKept
    <2>11. ASSUME NEW d \in CPU PROVE CpuLink(s, r, d)
      <3>1. SameMail(k.channel, r.channel, Sw(d)) /\ (r.chain[d] <=> k.chain[d])
        BY <2>2, <2>9
      <3> QED BY <1>0, <3>1, CpuLinkKept
    <2>12. KernelInv(r)
      <3>1. \A c \in CPU : k.running[c] \in Task \cup {NoTask}
        BY <1>0 DEF Kernel
      <3>2. k.channel \in Seq(KernelMsg) /\ \A d \in CPU : k.chain[d] => k.running[d] # NoTask
        BY <1>0 DEF KernelInv
      <3>3. \A c \in CPU : RunStays(k, r, c)
        BY <2>1, <2>2, <2>6, <3>1, <3>2 DEF RunStays
      <3> QED BY <1>0, <2>1, <2>2, <3>2, <3>3, RunsKept
    <2>13. Linked(s, r)
      BY <1>0, <2>8, <2>10, <2>11, <2>12 DEF Linked
    <2>14. Steady(s, k, r)
      <3>1. \A u \in Task : Settling(k, u) => Settling(r, u)
        BY <1>1, <2>2 DEF Settling
      <3> QED BY <2>2, <3>1 DEF Steady
    <2> QED BY <1>2, <2>13, <2>14
  <1>3. CASE kern' = Send(q, Msg("BLOCKED", t, NoCpu, FALSE, FALSE))
    <2>1. kern' = Send(q, OffCpuMsg(t, "blocked"))
      BY <1>3 DEF OffCpuMsg
    <2>2. PICK j : j = q
      BY Zenon
    <2>3. kern' = Send(j, OffCpuMsg(t, "blocked"))
      BY <2>1, <2>2
    <2> QED BY <1>1, <2>2, <2>3, OffCpuKeeps
  <1> QED BY <1>2, <1>3, Zenon DEF ThreadLeaves, KernelDoes

(* Two steady steps make a steady step.                                    *)
LEMMA SteadyChain ==
    ASSUME NEW s, NEW k, NEW q, NEW r, Steady(s, k, q), Steady(s, q, r)
    PROVE  Steady(s, k, r)
  <1>1. \A c \in CPU : r.txn[c] \in {"open", "submitted"} =>
           r.txn[c] = k.txn[c] /\ r.target[c] = k.target[c]
    BY DEF Steady
  <1> QED BY <1>1 DEF Steady

(* A step that changes no thread, message or transaction is steady.        *)
LEMMA IdleSteady ==
    ASSUME NEW s, NEW k, NEW r, Idle(k, r), r.txn = k.txn, r.target = k.target
    PROVE  Steady(s, k, r)
  BY DEF Idle, Steady, Settling

(* The message about a thread that stops on CPU c.                         *)
LEMMA StopMsg ==
    ASSUME NEW k \in Kernel, NEW c \in CPU, NEW t \in Task,
           NEW type \in {"BLOCKED", "PREEMPT", "YIELD"}
    PROVE  LET m == Msg(type, t, c, k.chain[c], FALSE)
           IN  /\ m \in KernelMsg /\ m.task = t /\ m.type = type /\ m.cpu = c
               /\ m.from_switchto <=> k.chain[c]
  <1>1. PICK f \in BOOLEAN : f = k.chain[c]
    BY DEF Kernel
  <1> QED BY <1>1 DEF Msg, KernelMsg, Message, MsgType

(* The new kernel of an action that stops a thread.                        *)
LEMMA StopsIs ==
    ASSUME NEW k \in Kernel, NEW c \in CPU, NEW t \in Task, NEW st \in ThreadState, NEW m,
           m \in KernelMsg, m.task = t,
           m.from_switchto <=> k.chain[c],
           m.from_switchto => m.cpu = c,
           \/ m.type = "BLOCKED" /\ st = "blocked"
           \/ m.type \in {"PREEMPT", "YIELD"} /\ st = "runnable"
           \/ m.type = "DEPARTED" /\ st = "absent"
    PROVE  Stops(k, Send([k EXCEPT !.running[c] = NoTask, !.chain[c] = FALSE,
                                   !.thread[t] = st], m), c, t, st, m)
  <1> DEFINE f == [k.thread EXCEPT ![t] = st]
             g == [k.running EXCEPT ![c] = NoTask]
             h == [k.chain EXCEPT ![c] = FALSE]
             r == [k EXCEPT !.running = g, !.chain = h, !.thread = f,
                            !.channel = Append(k.channel, m)]
  <1>1. /\ f \in [Task -> ThreadState] /\ f[t] = st
        /\ \A u \in Task \ {t} : f[u] = k.thread[u]
    BY DEF Kernel
  <1>2. /\ g \in [CPU -> Task \cup {NoTask}] /\ g[c] = NoTask
        /\ \A d \in CPU \ {c} : g[d] = k.running[d]
    BY DEF Kernel
  <1>3. /\ h \in [CPU -> BOOLEAN] /\ ~h[c]
        /\ \A d \in CPU \ {c} : h[d] = k.chain[d]
    BY DEF Kernel
  <1>4. Append(k.channel, m) \in Seq(Message)
    BY DEF Kernel, KernelMsg
  <1>5. Send([k EXCEPT !.running[c] = NoTask, !.chain[c] = FALSE,
                       !.thread[t] = st], m) = r
    BY DEF Send, Kernel
  <1> HIDE DEF f, g, h
  <1>6. r \in Kernel
    BY <1>1, <1>2, <1>3, <1>4, Zenon DEF Kernel
  <1>7. /\ r.thread = f /\ r.running = g /\ r.chain = h /\ r.txn = k.txn
        /\ r.target = k.target /\ r.channel = Append(k.channel, m)
    BY DEF Kernel
  <1> HIDE DEF r
  <1>8. Stops(k, r, c, t, st, m)
    BY <1>1, <1>2, <1>3, <1>6, <1>7 DEF Stops
  <1> QED BY <1>5, <1>8

(* A running thread blocks: BLOCKED.                                       *)
LEMMA ThreadBlocksKeeps ==
    ASSUME Linked(sched, kern), NEW c \in CPU, ThreadBlocks(c)
    PROVE  Linked(sched, kern') /\ Steady(sched, kern, kern')
  <1>0. kern \in Kernel
    BY DEF Linked, KernelInv
  <1>1. PICK t \in Task : kern.running[c] = t
    BY <1>0 DEF ThreadBlocks, ThreadStops, Kernel
  <1> DEFINE m == Msg("BLOCKED", t, c, kern.chain[c], FALSE)
  <1>2. kern' = Send([kern EXCEPT !.running[c] = NoTask, !.chain[c] = FALSE,
                                  !.thread[t] = "blocked"], m)
    BY <1>1 DEF ThreadBlocks, ThreadStops, KernelDoes
  <1>3. /\ m \in KernelMsg /\ m.task = t /\ m.type = "BLOCKED" /\ m.cpu = c
        /\ m.from_switchto <=> kern.chain[c]
    BY <1>0, StopMsg, Zenon
  <1> HIDE DEF m
  <1>4. Stops(kern, kern', c, t, "blocked", m)
    BY <1>0, <1>2, <1>3, StopsIs, Zenon DEF ThreadState
  <1> QED BY <1>1, <1>4, StopsKeeps, Zenon

(* A running thread yields: YIELD.                                         *)
LEMMA ThreadYieldsKeeps ==
    ASSUME Linked(sched, kern), NEW c \in CPU, ThreadYields(c)
    PROVE  Linked(sched, kern') /\ Steady(sched, kern, kern')
  <1>0. kern \in Kernel
    BY DEF Linked, KernelInv
  <1>1. PICK t \in Task : kern.running[c] = t
    BY <1>0 DEF ThreadYields, ThreadStops, Kernel
  <1> DEFINE m == Msg("YIELD", t, c, kern.chain[c], FALSE)
  <1>2. kern' = Send([kern EXCEPT !.running[c] = NoTask, !.chain[c] = FALSE,
                                  !.thread[t] = "runnable"], m)
    BY <1>1 DEF ThreadYields, ThreadStops, KernelDoes
  <1>3. /\ m \in KernelMsg /\ m.task = t /\ m.type = "YIELD" /\ m.cpu = c
        /\ m.from_switchto <=> kern.chain[c]
    BY <1>0, StopMsg, Zenon
  <1> HIDE DEF m
  <1>4. Stops(kern, kern', c, t, "runnable", m)
    BY <1>0, <1>2, <1>3, StopsIs, Zenon DEF ThreadState
  <1> QED BY <1>1, <1>4, StopsKeeps, Zenon

(* A thread another one switched to leaves the enclave: DEPARTED.          *)
LEMMA ChainDepartsKeeps ==
    ASSUME Linked(sched, kern), NEW c \in CPU, ChainDeparts(c)
    PROVE  Linked(sched, kern') /\ Steady(sched, kern, kern')
  <1>0. kern \in Kernel /\ sched.alive \subseteq Task
    BY DEF Linked, KernelInv, Placed, Sane, Scheduler
  <1>1. PICK t \in Task : kern.running[c] = t
    BY <1>0 DEF ChainDeparts
  <1> DEFINE m == Msg("DEPARTED", t, c, TRUE, FALSE)
  <1>2. /\ kern' = Send([kern EXCEPT !.running[c] = NoTask, !.chain[c] = FALSE,
                                     !.thread[t] = "absent"], m)
        /\ kern.chain[c] /\ t \in sched.alive
    BY <1>1 DEF ChainDeparts, KernelDoes
  <1>3. /\ m \in KernelMsg /\ m.task = t /\ m.type = "DEPARTED" /\ m.cpu = c
        /\ m.from_switchto
    BY Zenon DEF Msg, KernelMsg, Message, MsgType
  <1> HIDE DEF m
  <1>4. Stops(kern, kern', c, t, "absent", m)
    BY <1>0, <1>2, <1>3, StopsIs, Zenon DEF ThreadState
  <1> QED BY <1>1, <1>2, <1>4, StopsKeeps

(* Another scheduling class takes a CPU.                                   *)
Cleared(s, k, r, c) ==
    /\ Linked(s, r) /\ Steady(s, k, r)
    /\ r.running[c] = NoTask /\ r.txn = k.txn /\ r.target = k.target
    /\ \A d \in CPU \ {c} : r.running[d] = k.running[d]

(* Preempting the thread of a CPU clears that CPU.                         *)
LEMMA PreemptKeeps ==
    ASSUME NEW s, NEW k, NEW c \in CPU, Linked(s, k)
    PROVE  Cleared(s, k, Preempt(k, c), c)
  <1>0. k \in Kernel
    BY DEF Linked, KernelInv
  <1>1. CASE k.running[c] = NoTask
    <2>1. Preempt(k, c) = k
      BY <1>1 DEF Preempt
    <2>2. Steady(s, k, k)
      BY DEF Steady
    <2> QED BY <1>1, <2>1, <2>2 DEF Cleared
  <1>2. CASE k.running[c] # NoTask
    <2>1. PICK t \in Task : k.running[c] = t
      BY <1>0, <1>2 DEF Kernel
    <2> DEFINE m == Msg("PREEMPT", t, c, k.chain[c], FALSE)
               r == Preempt(k, c)
    <2>2. r = Send([k EXCEPT !.running[c] = NoTask, !.chain[c] = FALSE,
                             !.thread[t] = "runnable"], m)
      BY <1>2, <2>1 DEF Preempt
    <2>3. /\ m \in KernelMsg /\ m.task = t /\ m.type = "PREEMPT" /\ m.cpu = c
          /\ m.from_switchto <=> k.chain[c]
      BY <1>0, StopMsg, Zenon
    <2> HIDE DEF m, r
    <2>4. Stops(k, r, c, t, "runnable", m)
      BY <1>0, <2>2, <2>3, StopsIs, Zenon DEF ThreadState
    <2>5. Linked(s, r) /\ Steady(s, k, r)
      BY <2>1, <2>4, StopsKeeps, Zenon
    <2> QED BY <2>4, <2>5 DEF Stops, Cleared, r
  <1> QED BY <1>1, <1>2

(* CFS takes a CPU, and what ran there is preempted.                       *)
LEMMA CfsTakesKeeps ==
    ASSUME Linked(sched, kern), NEW c \in CPU, CfsTakes(c)
    PROVE  Linked(sched, kern') /\ Steady(sched, kern, kern')
  <1>0. kern \in Kernel
    BY DEF Linked, KernelInv
  <1>1. CASE c = agent.global_cpuid_
    <2>1. kern' = [kern EXCEPT !.boosted = TRUE]
      BY <1>1 DEF CfsTakes, KernelDoes
    <2>2. Idle(kern, kern') /\ kern'.txn = kern.txn /\ kern'.target = kern.target
      BY <1>0, <2>1, Zenon DEF Idle, Kernel
    <2>3. \A t \in Task : SameTxn(sched, kern, kern', t)
      BY <2>2 DEF SameTxn
    <2> QED BY <2>2, <2>3, IdleKeeps, IdleSteady
  <1>2. CASE c # agent.global_cpuid_
    <2> DEFINE k == [kern EXCEPT !.cfs[c] = TRUE]
    <2>1. kern' = Preempt(k, c)
      BY <1>2 DEF CfsTakes, KernelDoes
    <2>2. Idle(kern, k) /\ k.txn = kern.txn /\ k.target = kern.target
      BY <1>0, Zenon DEF Idle, Kernel
    <2> HIDE DEF k
    <2>3. \A t \in Task : SameTxn(sched, kern, k, t)
      BY <2>2 DEF SameTxn
    <2>4. Linked(sched, k) /\ Steady(sched, kern, k)
      BY <2>2, <2>3, IdleKeeps, IdleSteady
    <2>5. Cleared(sched, k, kern', c)
      BY <2>1, <2>4, PreemptKeeps
    <2> QED BY <2>4, <2>5, SteadyChain DEF Cleared
  <1> QED BY <1>1, <1>2

(* CFS gives a CPU back.                                                   *)
LEMMA CfsReleasesKeeps ==
    ASSUME Linked(sched, kern), NEW c \in CPU, CfsReleases(c)
    PROVE  Linked(sched, kern') /\ Steady(sched, kern, kern')
  <1>0. kern \in Kernel
    BY DEF Linked, KernelInv
  <1>1. Idle(kern, kern') /\ kern'.txn = kern.txn /\ kern'.target = kern.target
    <2>1. CASE c = agent.global_cpuid_
      <3>1. kern' = [kern EXCEPT !.boosted = FALSE]
        BY <2>1 DEF CfsReleases, KernelDoes
      <3> QED BY <1>0, <3>1, Zenon DEF Idle, Kernel
    <2>2. CASE c # agent.global_cpuid_
      <3>1. kern' = [kern EXCEPT !.cfs[c] = FALSE]
        BY <2>2 DEF CfsReleases, KernelDoes
      <3> QED BY <1>0, <3>1, Zenon DEF Idle, Kernel
    <2> QED BY <2>1, <2>2
  <1>2. \A t \in Task : SameTxn(sched, kern, kern', t)
    BY <1>1 DEF SameTxn
  <1> QED BY <1>1, <1>2, IdleKeeps, IdleSteady

(* The thread t hands its CPU c to the thread u.                           *)
Switched(k, r, c, t, u) ==
    /\ r \in Kernel
    /\ r.thread[t] = "blocked" /\ r.thread[u] = "running"
    /\ \A v \in Task \ {t, u} : r.thread[v] = k.thread[v]
    /\ r.running[c] = u /\ \A d \in CPU \ {c} : r.running[d] = k.running[d]
    /\ r.chain[c] /\ \A d \in CPU \ {c} : r.chain[d] = k.chain[d]
    /\ r.txn = k.txn /\ r.target = k.target

(* The new kernel of ThreadSwitchesTo.                                     *)
LEMMA SwitchedIs ==
    ASSUME NEW c \in CPU, NEW t \in Task, NEW u \in Task, t # u,
           kern \in Kernel, kern.running[c] = t, ThreadSwitchesTo(c, u)
    PROVE  /\ Switched(kern, kern', c, t, u)
           /\ kern.chain[c] => kern'.channel = kern.channel
           /\ ~kern.chain[c] =>
                kern'.channel = Append(kern.channel, Msg("SWITCHTO", t, c, FALSE, FALSE))
  <1> DEFINE m == Msg("SWITCHTO", t, c, FALSE, FALSE)
             f == [kern.thread EXCEPT ![t] = "blocked", ![u] = "running"]
             g == [kern.running EXCEPT ![c] = u]
             h == [kern.chain EXCEPT ![c] = TRUE]
             ch == IF kern.chain[c] THEN kern.channel ELSE Append(kern.channel, m)
             r == [kern EXCEPT !.running = g, !.chain = h, !.thread = f, !.channel = ch]
  <1>0. m \in Message
    BY DEF Msg, Message, MsgType
  <1>1. kern' = r
    <2>1. [kern EXCEPT !.running[c] = u, !.chain[c] = TRUE,
                       !.thread[t] = "blocked", !.thread[u] = "running"]
            = [kern EXCEPT !.running = g, !.chain = h, !.thread = f]
      BY Zenon DEF Kernel
    <2> DEFINE k == [kern EXCEPT !.running = g, !.chain = h, !.thread = f]
    <2>2. kern' = IF kern.chain[c] THEN k ELSE Send(k, m)
      BY <2>1 DEF ThreadSwitchesTo, KernelDoes
    <2> HIDE DEF f, g, h, m
    <2> QED BY <2>2, Zenon DEF Send, Kernel
  <1>2. /\ f \in [Task -> ThreadState] /\ f[t] = "blocked" /\ f[u] = "running"
        /\ \A v \in Task \ {t, u} : f[v] = kern.thread[v]
    BY DEF Kernel, ThreadState
  <1>3. /\ g \in [CPU -> Task \cup {NoTask}] /\ g[c] = u
        /\ \A d \in CPU \ {c} : g[d] = kern.running[d]
    BY DEF Kernel
  <1>4. /\ h \in [CPU -> BOOLEAN] /\ h[c]
        /\ \A d \in CPU \ {c} : h[d] = kern.chain[d]
    BY DEF Kernel
  <1>5. ch \in Seq(Message)
    <2>1. kern.channel \in Seq(Message)
      BY DEF Kernel
    <2> HIDE DEF m
    <2>2. Append(kern.channel, m) \in Seq(Message)
      BY <1>0, <2>1
    <2> QED BY <2>1, <2>2
  <1> HIDE DEF f, g, h
  <1>6. r \in Kernel
    <2> HIDE DEF ch
    <2> QED BY <1>2, <1>3, <1>4, <1>5, Zenon DEF Kernel
  <1>7. /\ r.thread = f /\ r.running = g /\ r.chain = h /\ r.txn = kern.txn
        /\ r.target = kern.target /\ r.channel = ch
    <2> HIDE DEF ch
    <2> QED BY DEF Kernel
  <1> HIDE DEF r
  <1>8. Switched(kern, r, c, t, u)
    BY <1>2, <1>3, <1>4, <1>6, <1>7 DEF Switched
  <1>9. /\ kern.chain[c] => kern'.channel = kern.channel
        /\ ~kern.chain[c] => kern'.channel = Append(kern.channel, m)
    BY <1>1, <1>7, Zenon
  <1> QED BY <1>1, <1>8, <1>9, Zenon

(* A running thread switches to a blocked one: SWITCHTO.                   *)
LEMMA ThreadSwitchesToKeeps ==
    ASSUME Linked(sched, kern), NEW c \in CPU, NEW u \in Task, ThreadSwitchesTo(c, u)
    PROVE  Linked(sched, kern') /\ Steady(sched, kern, kern')
  <1> DEFINE s == sched
             k == kern
             r == kern'
  <1>0. /\ Placed(s) /\ s.ok /\ KernelInv(k) /\ k \in Kernel /\ s \in Scheduler
        /\ \A v \in Task : TaskLink(s, k, v) /\ Where(s, v)
        /\ \A d \in CPU : CpuLink(s, k, d)
    BY DEF Linked, Placed, KernelInv, Sane
  <1>1. PICK t \in Task : k.running[c] = t
    BY <1>0 DEF ThreadSwitchesTo, Kernel
  <1>2. /\ t # NoTask /\ u # NoTask /\ k.thread[t] = "running" /\ k.thread[u] = "blocked"
        /\ t # u
        /\ \A d \in CPU : k.running[d] = t => d = c
        /\ \A d \in CPU : k.running[d] # u
    BY <1>0, <1>1, SchedulerAssumption DEF KernelInv, ThreadSwitchesTo
  <1> DEFINE m == Msg("SWITCHTO", t, c, FALSE, FALSE)
  <1>3. m \in KernelMsg /\ m \in Message /\ m.task = t /\ m.type = "SWITCHTO" /\ m.cpu = c
        /\ ~m.from_switchto
    BY Zenon DEF Msg, Message, MsgType, KernelMsg
  <1>4. /\ Switched(k, r, c, t, u)
        /\ k.chain[c] => r.channel = k.channel
        /\ ~k.chain[c] => r.channel = Append(k.channel, m)
    BY <1>0, <1>1, <1>2, SwitchedIs, Zenon
  <1>5. k.channel \in Seq(Message) /\ k.channel \in Seq(KernelMsg)
    BY <1>0 DEF KernelInv, Kernel
  <1> HIDE DEF m, s, k, r
  <1>6. /\ r \in Kernel
        /\ r.thread[t] = "blocked" /\ r.thread[u] = "running"
        /\ \A v \in Task \ {t, u} : r.thread[v] = k.thread[v]
        /\ r.running[c] = u /\ \A d \in CPU \ {c} : r.running[d] = k.running[d]
        /\ r.chain[c] /\ \A d \in CPU \ {c} : r.chain[d] = k.chain[d]
        /\ r.txn = k.txn /\ r.target = k.target
    BY <1>4 DEF Switched
  <1>7. ASSUME NEW v \in Task \ {t} PROVE SameMail(k.channel, r.channel, Of(v))
    <2>1. m \notin Of(v)
      BY <1>3 DEF Of
    <2>2. CASE k.chain[c]
      BY <1>4, <2>2 DEF SameMail
    <2>3. CASE ~k.chain[c]
      BY <1>3, <1>4, <1>5, <2>1, <2>3, SendOther, Zenon
    <2> QED BY <2>2, <2>3
  <1>8. \A v \in Task : SameTxn(s, k, r, v)
    BY <1>6 DEF SameTxn
  <1>9. KernelInv(r)
    <2>1. r.channel \in Seq(KernelMsg)
      BY <1>3, <1>4, <1>5
    <2>2. \A d \in CPU : k.running[d] \in Task \cup {NoTask}
      BY <1>0 DEF Kernel
    <2>3. ASSUME NEW d \in CPU \ {c} PROVE RunKept(k, r, u, d)
      <3>1. k.running[d] # t /\ k.running[d] # u
        BY <1>2
      <3> QED BY <1>6, <2>2, <3>1 DEF RunKept
    <2>4. RunsOn(r, c, u)
      BY <1>6, Zenon DEF RunsOn
    <2> QED BY <1>0, <1>6, <2>1, <2>3, <2>4, RunsAdded
  <1>10. TaskLink(s, r, u)
    <2>1. Waits(k, u) /\ Waits(r, u) /\ r.thread[u] # "absent"
      BY <1>2, <1>6 DEF Waits, OnChain
    <2>2. SameMail(k.channel, r.channel, Of(u)) /\ SameTxn(s, k, r, u)
      BY <1>2, <1>7, <1>8
    <2> QED BY <1>0, <2>1, <2>2, WaitsLink
  <1>11. TaskLink(s, r, t)
    <2>1. CASE k.chain[c]
      <3>1. Waits(k, t) /\ Waits(r, t) /\ r.thread[t] # "absent"
        BY <1>1, <1>6, <2>1, Zenon DEF Waits, OnChain, k
      <3>2. SameMail(k.channel, r.channel, Of(t)) /\ SameTxn(s, k, r, t)
        BY <1>4, <1>8, <2>1, Zenon DEF SameMail
      <3> QED BY <1>0, <3>1, <3>2, WaitsLink
    <2>2. CASE ~k.chain[c]
      <3>1. ~Waits(k, t) /\ FromX(m)
        BY <1>2, <1>3, <2>2 DEF Waits, OnChain, FromX
      <3>2. Linked(s, k)
        BY Zenon DEF s, k
      <3>3. /\ Silent(k.channel, Of(t)) => Fits(s, r, t, m)
            /\ \A x \in Message : IsLast(k.channel, Of(t), x) => Follows(x, m)
        BY <1>2, <1>3, <1>6, <3>1, <3>2, RunsFits, Zenon
      <3>4. Sent(k.channel, r.channel, Of(t), m)
        <4>1. m \in Of(t)
          BY <1>3 DEF Of
        <4> QED BY <1>3, <1>4, <1>5, <2>2, <4>1, SendIn, Zenon
      <3>5. ~s.preempted[t]
        BY <1>0, <1>2, Zenon DEF TaskLink, Settling
      <3>6. Settled(r, t, m) /\ r.thread[t] # "absent"
        BY <1>3, <1>6 DEF Settled, NewRunnable, Waits
      <3> QED BY <1>0, <1>3, <1>8, <3>3, <3>4, <3>5, <3>6, SentLink, Zenon
    <2> QED BY <2>1, <2>2
  <1>12. ASSUME NEW v \in Task \ {t, u} PROVE TaskLink(s, r, v)
    <2>1. SameMail(k.channel, r.channel, Of(v))
      BY <1>7
    <2>2. k.running[c] # v
      BY <1>1, Zenon DEF k
    <2>3. SameThread(k, r, v)
      BY <1>6, <2>1, <2>2 DEF SameThread
    <2>4. SameView(s, s, v)
      BY DEF SameView
    <2> QED BY <1>0, <1>8, <2>3, <2>4, LinkKept
  <1>13. ASSUME NEW d \in CPU PROVE CpuLink(s, r, d)
    <2>0. CpuLink(s, k, d)
      BY <1>0, Zenon
    <2>1. CASE d = c /\ ~k.chain[c]
      <3>1. m \in Sw(d)
        BY <1>3, <2>1 DEF Sw
      <3>2. Sent(k.channel, r.channel, Sw(d), m)
        BY <1>3, <1>4, <1>5, <2>1, <3>1, SendIn, Zenon
      <3> QED BY <1>3, <1>6, <2>0, <2>1, <3>2, CpuLinkSent
    <2>2. CASE k.chain[c]
      <3>1. SameMail(k.channel, r.channel, Sw(d)) /\ (r.chain[d] <=> k.chain[d])
        BY <1>4, <1>6, <2>2, Zenon DEF SameMail
      <3> QED BY <2>0, <3>1, CpuLinkKept
    <2>3. CASE d # c /\ ~k.chain[c]
      <3>1. m \notin Sw(d)
        BY <1>3, <2>3 DEF Sw
      <3>2. SameMail(k.channel, r.channel, Sw(d)) /\ (r.chain[d] <=> k.chain[d])
        BY <1>3, <1>4, <1>5, <1>6, <2>3, <3>1, SendOther, Zenon
      <3> QED BY <2>0, <3>2, CpuLinkKept
    <2> QED BY <2>1, <2>2, <2>3
  <1>14. Linked(s, r)
    BY <1>0, <1>9, <1>10, <1>11, <1>12, <1>13 DEF Linked
  <1>15. Steady(s, k, r)
    <2>1. \A v \in Task : Settling(k, v) => Settling(r, v)
      BY <1>2, <1>6, <1>7, Zenon DEF Settling, SameMail
    <2>2. \A d \in CPU : k.running[d] = NoTask => r.running[d] = NoTask
      BY <1>1, <1>2, <1>6 DEF k
    <2> QED BY <1>6, <2>1, <2>2 DEF Steady
  <1> QED BY <1>14, <1>15 DEF s, k, r

(***************************************************************************)
(* Transactions.                                                           *)
(***************************************************************************)
(* CPU c is empty, and only the thread that ran there has changed.         *)
Empties(s, k, r, c) ==
    /\ Linked(s, r)
    /\ r.running[c] = NoTask /\ ~r.chain[c]
    /\ \A d \in CPU \ {c} : r.running[d] = k.running[d]
    /\ r.txn = k.txn /\ r.target = k.target /\ r.cfs = k.cfs
    /\ \A u \in Task : k.running[c] # u =>
          /\ r.thread[u] = k.thread[u]
          /\ Silent(k.channel, Of(u)) => Silent(r.channel, Of(u))

(* The thread v leaves CPU c, on which it ran in its own right.            *)
Quits(k, r, c, v) ==
    /\ r \in Kernel
    /\ r.thread[v] = "leaving" /\ \A u \in Task \ {v} : r.thread[u] = k.thread[u]
    /\ r.running[c] = NoTask /\ \A d \in CPU \ {c} : r.running[d] = k.running[d]
    /\ r.chain = k.chain /\ ~k.chain[c]
    /\ r.txn = k.txn /\ r.target = k.target /\ r.cfs = k.cfs
    /\ r.channel = k.channel

(* What evicting a thread that runs in its own right does.                 *)
LEMMA QuitsIs ==
    ASSUME NEW k \in Kernel, NEW c \in CPU, NEW v \in Task, k.running[c] = v, v # NoTask,
           ~k.chain[c]
    PROVE  Quits(k, Evict(k, c), c, v)
  <1> DEFINE f == [k.thread EXCEPT ![v] = "leaving"]
             g == [k.running EXCEPT ![c] = NoTask]
             h == [k.chain EXCEPT ![c] = FALSE]
             r == [k EXCEPT !.running = g, !.chain = h, !.thread = f]
  <1>1. /\ f \in [Task -> ThreadState] /\ f[v] = "leaving"
        /\ \A u \in Task \ {v} : f[u] = k.thread[u]
    BY DEF Kernel, ThreadState
  <1>2. /\ g \in [CPU -> Task \cup {NoTask}] /\ g[c] = NoTask
        /\ \A d \in CPU \ {c} : g[d] = k.running[d]
    BY DEF Kernel
  <1>3. h = k.chain
    <2>1. k.chain \in [CPU -> BOOLEAN] /\ k.chain[c] = FALSE
      BY DEF Kernel
    <2> QED BY <2>1, Zenon
  <1>4. Evict(k, c) = r
    <2>1. Evict(k, c) = [[k EXCEPT !.running[c] = NoTask, !.chain[c] = FALSE]
                            EXCEPT !.thread[v] = "leaving"]
      BY DEF Evict
    <2> QED BY <2>1 DEF Kernel
  <1> HIDE DEF f, g, h
  <1>5. r \in Kernel
    BY <1>1, <1>2, <1>3, Zenon DEF Kernel
  <1>6. /\ r.thread = f /\ r.running = g /\ r.chain = h /\ r.txn = k.txn
        /\ r.target = k.target /\ r.cfs = k.cfs /\ r.channel = k.channel
    BY DEF Kernel
  <1> HIDE DEF r
  <1>7. Quits(k, r, c, v)
    BY <1>1, <1>2, <1>3, <1>5, <1>6 DEF Quits
  <1> QED BY <1>4, <1>7

(* The agent takes CPU c from the thread v, which the scheduler has put    *)
(* back into a queue.                                                      *)
LEMMA QuitsKeeps ==
    ASSUME NEW s, NEW k, NEW r, NEW c \in CPU, NEW v \in Task, Linked(s, k),
           Quits(k, r, c, v), k.running[c] = v, s.current[c] = NoTask,
           s.next[c] = NoTask \/ k.txn[c] # "complete"
    PROVE  Linked(s, r)
  <1>0. /\ Placed(s) /\ s.ok /\ KernelInv(k) /\ k \in Kernel /\ s \in Scheduler
        /\ \A u \in Task : TaskLink(s, k, u) /\ Where(s, u)
        /\ \A d \in CPU : CpuLink(s, k, d)
    BY Zenon DEF Linked, Placed, KernelInv, Sane
  <1>1. /\ r \in Kernel
        /\ r.thread[v] = "leaving" /\ \A u \in Task \ {v} : r.thread[u] = k.thread[u]
        /\ r.running[c] = NoTask /\ \A d \in CPU \ {c} : r.running[d] = k.running[d]
        /\ r.chain = k.chain /\ ~k.chain[c]
        /\ r.txn = k.txn /\ r.target = k.target
        /\ r.channel = k.channel
    BY Zenon DEF Quits
  <1>2. /\ v # NoTask /\ k.thread[v] = "running"
        /\ \A d \in CPU : k.running[d] = v => d = c
    BY <1>0, SchedulerAssumption, Zenon DEF KernelInv
  <1>3. k.channel \in Seq(Message) /\ \A K : SameMail(k.channel, r.channel, K)
    BY <1>0, <1>1, Zenon DEF Kernel, SameMail
  <1>4. ~Waits(k, v)
    BY <1>1, <1>2, Zenon DEF Waits, OnChain
  <1>5. /\ Silent(k.channel, Of(v)) =>
              /\ v \in s.alive /\ s.run_state[v] # "BLOCKED"
              /\ s.run_state[v] = "PENDING" => k.txn[s.cpu[v]] = "complete"
              /\ s.run_state[v] = "PENDING" => Own(k, s.cpu[v], v)
              /\ s.run_state[v] = "ON_CPU" => Own(k, s.cpu[v], v)
        /\ \A m \in Message : IsLast(k.channel, Of(v), m) =>
              NewRunnable(m) /\ k.thread[v] = "arriving"
        /\ ~s.preempted[v]
    BY <1>0, <1>2, <1>4, RunsKnown, Zenon
  <1>6. Silent(k.channel, Of(v))
    BY <1>2, <1>3, <1>5, MailFacts, Zenon
  <1>7. s.run_state[v] \in {"QUEUED", "YIELDING"}
    <2>1. s.run_state[v] \in RunState
      BY <1>0 DEF Scheduler
    <2>2. Where(s, v)
      BY <1>0, Zenon
    <2>3. s.run_state[v] \in {"ON_CPU", "PENDING"} =>
             s.cpu[v] = c /\ (s.run_state[v] = "PENDING" => k.txn[c] = "complete")
      BY <1>2, <1>5, <1>6, <2>2, Zenon DEF Own, Where
    <2>4. s.run_state[v] # "ON_CPU" /\ s.run_state[v] # "PENDING"
      BY <1>2, <2>2, <2>3, Zenon DEF Where
    <2> QED BY <1>5, <1>6, <2>1, <2>4, Zenon DEF RunState
  <1>8. TaskLink(s, r, v)
    <2>1. r.channel \in Seq(Message) /\ Silent(r.channel, Of(v)) /\ v \in s.alive
      BY <1>1, <1>3, <1>5, <1>6, Zenon
    <2> QED BY <1>1, <1>5, <1>7, <2>1, QueuedLink, Zenon
  <1>9. ASSUME NEW u \in Task \ {v} PROVE TaskLink(s, r, u)
    <2>1. SameThread(k, r, u)
      BY <1>1, <1>3, SchedulerAssumption DEF SameThread
    <2>2. SameView(s, s, u) /\ SameTxn(s, k, r, u)
      BY <1>1, Zenon DEF SameView, SameTxn
    <2> QED BY <1>0, <2>1, <2>2, LinkKept, Zenon
  <1>10. ASSUME NEW d \in CPU PROVE CpuLink(s, r, d)
    BY <1>0, <1>1, <1>3, CpuLinkKept, Zenon
  <1>11. KernelInv(r)
    <2>1. \A d \in CPU : k.running[d] \in Task \cup {NoTask}
      BY <1>0 DEF Kernel
    <2>2. \A d \in CPU : r.running[d] # NoTask =>
             d # c /\ r.running[d] = k.running[d] /\ r.running[d] # v
      BY <1>1, <1>2, Zenon
    <2>3. r.channel \in Seq(KernelMsg) /\ \A d \in CPU : k.chain[d] => k.running[d] # NoTask
      BY <1>0, <1>1 DEF KernelInv
    <2>4. ASSUME NEW d \in CPU PROVE RunStays(k, r, d)
      BY <1>1, <2>1, <2>2, <2>3 DEF RunStays
    <2> QED BY <1>0, <1>1, <2>3, <2>4, RunsKept, Zenon
  <1> QED BY <1>0, <1>8, <1>9, <1>10, <1>11, Zenon DEF Linked

(* Evict, once the scheduler has no current task on the CPU.               *)
LEMMA EvictKeeps ==
    ASSUME NEW s, NEW k, NEW c \in CPU, Linked(s, k), s.current[c] = NoTask,
           s.next[c] = NoTask \/ k.txn[c] # "complete"
    PROVE  Empties(s, k, Evict(k, c), c)
  <1> DEFINE r == Evict(k, c)
  <1>0. /\ KernelInv(k) /\ k \in Kernel /\ k.channel \in Seq(Message)
    BY Zenon DEF Linked, KernelInv, Kernel
  <1>1. CASE k.running[c] = NoTask
    <2>1. r = k
      BY <1>1 DEF Evict
    <2>2. ~k.chain[c]
      BY <1>0, <1>1 DEF KernelInv
    <2> QED BY <1>1, <2>1, <2>2 DEF Empties
  <1>2. CASE k.running[c] # NoTask
    <2>1. PICK v \in Task : k.running[c] = v
      BY <1>0, <1>2 DEF Kernel
    <2>2. CASE k.chain[c]
      <3> DEFINE m == Msg("PREEMPT", v, c, TRUE, FALSE)
      <3>1. r = Send([k EXCEPT !.running[c] = NoTask, !.chain[c] = FALSE,
                               !.thread[v] = "runnable"], m)
        BY <1>0, <1>2, <2>1, <2>2 DEF Evict
      <3>2. /\ m \in KernelMsg /\ m \in Message /\ m.task = v /\ m.type = "PREEMPT"
            /\ m.cpu = c /\ m.from_switchto
        BY DEF Msg, KernelMsg, Message, MsgType
      <3>3. r.cfs = k.cfs
        BY <3>1 DEF Send, Kernel
      <3> HIDE DEF m, r
      <3>4. Stops(k, r, c, v, "runnable", m)
        BY <1>0, <2>2, <3>1, <3>2, StopsIs, Zenon DEF ThreadState
      <3>5. Linked(s, r)
        BY <2>1, <3>4, StopsKeeps, Zenon
      <3>6. ASSUME NEW u \in Task, u # v, Silent(k.channel, Of(u))
            PROVE  Silent(r.channel, Of(u))
        <4>1. m \notin Of(u)
          BY <3>2, <3>6 DEF Of
        <4>2. r.channel = Append(k.channel, m)
          BY <3>4 DEF Stops
        <4>3. SameMail(k.channel, r.channel, Of(u))
          BY <1>0, <3>2, <4>1, <4>2, SendOther, Zenon
        <4> QED BY <3>6, <4>3 DEF SameMail
      <3>7. Empties(s, k, r, c)
        BY <2>1, <3>3, <3>4, <3>5, <3>6 DEF Empties, Stops
      <3> QED BY <3>7 DEF r
    <2>3. CASE ~k.chain[c]
      <3>1. Quits(k, r, c, v)
        BY <1>0, <1>2, <2>1, <2>3, QuitsIs
      <3> HIDE DEF r
      <3>2. Linked(s, r)
        BY <2>1, <3>1, QuitsKeeps
      <3>3. Empties(s, k, r, c)
        BY <2>1, <3>1, <3>2 DEF Empties, Quits
      <3> QED BY <3>3 DEF r
    <2> QED BY <2>2, <2>3
  <1> QED BY <1>1, <1>2, Zenon

(* The thread t starts on CPU c, which is empty.                           *)
Starts(k, r, c, t) ==
    /\ r \in Kernel
    /\ r.thread[t] = "running" /\ \A u \in Task \ {t} : r.thread[u] = k.thread[u]
    /\ r.running[c] = t /\ \A d \in CPU \ {c} : r.running[d] = k.running[d]
    /\ r.chain = k.chain /\ r.channel = k.channel
    /\ r.txn[c] = "complete" /\ \A d \in CPU \ {c} : r.txn[d] = k.txn[d]
    /\ r.target[c] = NoTask /\ \A d \in CPU \ {c} : r.target[d] = k.target[d]

(* The kernel after a transaction for t on CPU c that commits, and after   *)
(* one that does not.                                                      *)
Succeeds(k, c, t) == Outcome(k, c, t, TRUE)
Fails(k, c, t) == Outcome(k, c, t, FALSE)

(* What a transaction that completes does once its CPU is free.            *)
LEMMA StartsIs ==
    ASSUME NEW k, NEW e \in Kernel, NEW c \in CPU, NEW t \in Task, e = Evict(k, c)
    PROVE  Starts(e, Succeeds(k, c, t), c, t)
  <1> DEFINE f == [e.thread EXCEPT ![t] = "running"]
             g == [e.running EXCEPT ![c] = t]
             x == [e.txn EXCEPT ![c] = "complete"]
             y == [e.target EXCEPT ![c] = NoTask]
             r == [e EXCEPT !.running = g, !.thread = f, !.txn = x, !.target = y]
  <1>1. /\ f \in [Task -> ThreadState] /\ f[t] = "running"
        /\ \A u \in Task \ {t} : f[u] = e.thread[u]
    BY DEF Kernel, ThreadState
  <1>2. /\ g \in [CPU -> Task \cup {NoTask}] /\ g[c] = t
        /\ \A d \in CPU \ {c} : g[d] = e.running[d]
    BY DEF Kernel
  <1>3. /\ x \in [CPU -> TxnState] /\ x[c] = "complete"
        /\ \A d \in CPU \ {c} : x[d] = e.txn[d]
    BY DEF Kernel, TxnState
  <1>4. /\ y \in [CPU -> Task \cup {NoTask}] /\ y[c] = NoTask
        /\ \A d \in CPU \ {c} : y[d] = e.target[d]
    BY DEF Kernel
  <1>5. Succeeds(k, c, t) = r
    <2>1. Succeeds(k, c, t)
            = [[e EXCEPT !.running[c] = t, !.thread[t] = "running", !.txn[c] = "complete"]
                  EXCEPT !.target[c] = NoTask]
      BY DEF Succeeds, Outcome, Run
    <2> QED BY <2>1 DEF Kernel
  <1> HIDE DEF f, g, x, y
  <1>6. r \in Kernel
    BY <1>1, <1>2, <1>3, <1>4, Zenon DEF Kernel
  <1>7. /\ r.thread = f /\ r.running = g /\ r.chain = e.chain /\ r.txn = x
        /\ r.target = y /\ r.channel = e.channel
    BY DEF Kernel
  <1> HIDE DEF r
  <1>8. Starts(e, r, c, t)
    BY <1>1, <1>2, <1>3, <1>4, <1>6, <1>7 DEF Starts
  <1> QED BY <1>5, <1>8

(* The scheduler q has t on CPU c, and the other tasks as in s, where c    *)
(* has no pending task.                                                    *)
Hosts(s, q, c, t) ==
    /\ Placed(q) /\ q.ok /\ q.in_switchto = s.in_switchto
    /\ t \in q.alive /\ q.run_state[t] \in {"ON_CPU", "PENDING"} /\ q.cpu[t] = c
    /\ ~q.preempted[t]
    /\ \A u \in Task \ {t} : /\ SameView(s, q, u)
                             /\ s.run_state[u] = "PENDING" => s.cpu[u] # c

(* The thread t can start on CPU c.                                        *)
Vacant(k, c, t) ==
    /\ k.running[c] = NoTask /\ ~k.chain[c]
    /\ k.thread[t] = "runnable" /\ Silent(k.channel, Of(t))
    /\ enforce_affinity_mask_ => c \in allowed_cpulist[t]

(* The thread t, which the scheduler q has on CPU c, starts there.         *)
LEMMA StartsKeeps ==
    ASSUME NEW s, NEW q, NEW k, NEW r, NEW c \in CPU, NEW t \in Task, Linked(s, k),
           Starts(k, r, c, t), Vacant(k, c, t), Hosts(s, q, c, t)
    PROVE  Linked(q, r)
  <1>0. /\ Placed(s) /\ s.ok /\ KernelInv(k) /\ k \in Kernel
        /\ \A u \in Task : TaskLink(s, k, u) /\ Where(s, u)
        /\ \A d \in CPU : CpuLink(s, k, d)
    BY Zenon DEF Linked, Placed, KernelInv
  <1>1. /\ r \in Kernel
        /\ r.thread[t] = "running" /\ \A u \in Task \ {t} : r.thread[u] = k.thread[u]
        /\ r.running[c] = t /\ \A d \in CPU \ {c} : r.running[d] = k.running[d]
        /\ r.chain = k.chain /\ r.channel = k.channel
        /\ r.txn[c] = "complete" /\ \A d \in CPU \ {c} : r.txn[d] = k.txn[d]
    BY Zenon DEF Starts
  <1>2. /\ t # NoTask /\ \A d \in CPU : k.running[d] # t
    BY <1>0, SchedulerAssumption, Zenon DEF KernelInv, Vacant
  <1>3. k.channel \in Seq(Message) /\ \A K : SameMail(k.channel, r.channel, K)
    BY <1>0, <1>1, Zenon DEF Kernel, SameMail
  <1>4. TaskLink(q, r, t)
    <2>1. /\ \A x \in Message : ~IsFirst(r.channel, Of(t), x) /\ ~IsLast(r.channel, Of(t), x)
          /\ \A x, y \in Message : ~IsStep(r.channel, Of(t), x, y)
      BY <1>1, <1>3, MailFacts, Zenon DEF Vacant
    <2>2. Own(r, c, t)
      BY <1>1, Zenon DEF Own, Vacant
    <2>3. Quiet(q, r, t)
      BY <1>1, <2>2, Zenon DEF Quiet, Hosts
    <2> QED BY <2>1, <2>3, Zenon DEF TaskLink, Hosts
  <1>5. ASSUME NEW u \in Task \ {t} PROVE TaskLink(q, r, u)
    <2>1. k.running[c] # u
      BY SchedulerAssumption, Zenon DEF Vacant
    <2>2. SameThread(k, r, u)
      BY <1>1, <1>3, <2>1 DEF SameThread
    <2>3. SameTxn(s, k, r, u)
      <3>1. Where(s, u)
        BY <1>0, Zenon
      <3>2. s.run_state[u] = "PENDING" => s.cpu[u] \in CPU \ {c}
        BY <3>1, Zenon DEF Where, Hosts
      <3> QED BY <1>1, <3>2 DEF SameTxn
    <2>4. SameView(s, q, u) /\ Where(s, u) /\ TaskLink(s, k, u)
      BY <1>0, Zenon DEF Hosts
    <2> QED BY <2>2, <2>3, <2>4, LinkKept, Zenon
  <1>6. ASSUME NEW d \in CPU PROVE CpuLink(q, r, d)
    <2>1. (Chained(q, d) <=> Chained(s, d)) /\ (r.chain[d] <=> k.chain[d])
      BY <1>1, Zenon DEF Chained, Hosts
    <2> QED BY <1>0, <1>3, <2>1, CpuLinkKept, Zenon
  <1>7. KernelInv(r)
    <2>1. \A d \in CPU : k.running[d] \in Task \cup {NoTask}
      BY <1>0, Zenon DEF Kernel
    <2>2. r.channel \in Seq(KernelMsg)
      BY <1>0, <1>1, Zenon DEF KernelInv
    <2>3. ASSUME NEW d \in CPU \ {c} PROVE RunKept(k, r, t, d)
      BY <1>1, <1>2, <2>1, Zenon DEF RunKept
    <2>4. KernelInv(k) /\ r \in Kernel /\ RunsOn(r, c, t)
      BY <1>0, <1>1, Zenon DEF RunsOn, Vacant
    <2> QED BY <2>2, <2>3, <2>4, RunsAdded
  <1> QED BY <1>4, <1>5, <1>6, <1>7, Zenon DEF Linked, Hosts

(* A transaction of CPU c fails.                                           *)
Refused(k, r, c) ==
    /\ Idle(k, r)
    /\ r.txn[c] \in {"unavail", "failed"} /\ \A d \in CPU \ {c} : r.txn[d] = k.txn[d]
    /\ \A d \in CPU \ {c} : r.target[d] = k.target[d]

(* What a transaction that fails does.                                     *)
LEMMA RefusedIs ==
    ASSUME NEW k \in Kernel, NEW c \in CPU, NEW t
    PROVE  Refused(k, Fails(k, c, t), c)
  <1> DEFINE v == IF k.cfs[c] THEN "unavail" ELSE "failed"
             x == [k.txn EXCEPT ![c] = v]
             y == [k.target EXCEPT ![c] = NoTask]
             r == [k EXCEPT !.txn = x, !.target = y]
  <1>0. v \in {"unavail", "failed"}
    OBVIOUS
  <1>1. Fails(k, c, t) = r
    BY DEF Fails, Outcome, Refuse, Kernel
  <1> HIDE DEF v
  <1>2. /\ x \in [CPU -> TxnState] /\ x[c] = v
        /\ \A d \in CPU \ {c} : x[d] = k.txn[d]
    BY <1>0 DEF Kernel, TxnState
  <1>3. /\ y \in [CPU -> Task \cup {NoTask}]
        /\ \A d \in CPU \ {c} : y[d] = k.target[d]
    BY DEF Kernel
  <1> HIDE DEF x, y
  <1>4. r \in Kernel
    BY <1>2, <1>3, Zenon DEF Kernel
  <1>5. /\ r.thread = k.thread /\ r.running = k.running /\ r.chain = k.chain /\ r.txn = x
        /\ r.target = y /\ r.channel = k.channel
    BY DEF Kernel
  <1> HIDE DEF r
  <1>6. Refused(k, r, c)
    BY <1>0, <1>2, <1>3, <1>4, <1>5 DEF Refused, Idle
  <1> QED BY <1>1, <1>6

(* Unseen, as a statement about the channel.                               *)
LEMMA UnseenIs ==
    ASSUME NEW k, NEW t, k.channel \in Seq(Message)
    PROVE  Unseen(k, t) <=> ~Silent(k.channel, Of(t))
  BY DEF Unseen, Silent, Hits, Of

(* The kernel commits a transaction, whatever its outcome.                 *)
LEMMA CommitKeeps ==
    ASSUME Linked(sched, kern), TxnLink(sched, kern), NEW c \in CPU, Commit(c)
    PROVE  Linked(sched, kern') /\ Steady(sched, kern, kern')
  <1> DEFINE s == sched
             k == kern
             r == kern'
             t == s.next[c]
  <1>0. /\ Placed(s) /\ s.ok /\ KernelInv(k) /\ k \in Kernel /\ s \in Scheduler
        /\ \A u \in Task : Where(s, u) /\ Flags(s, u)
        /\ Exclusive(s) /\ k.channel \in Seq(Message)
    BY Zenon DEF Linked, Placed, KernelInv, Sane, Kernel
  <1>1. k.txn[c] = "submitted" /\ t \in Task /\ k.target[c] = t
    BY <1>0, SchedulerAssumption, Zenon DEF Commit, TxnLink, Scheduler
  <1>2. /\ s.run_state[t] = "PENDING" /\ s.cpu[t] = c /\ t \in s.alive
        /\ s.current[c] = NoTask /\ ~s.preempted[t]
    <2>1. Where(s, t) /\ Flags(s, t)
      BY <1>0, <1>1
    <2>2. s.run_state[t] = "PENDING" /\ s.cpu[t] = c
      BY <2>1 DEF Where
    <2>3. t # NoTask
      BY <1>1, SchedulerAssumption
    <2> QED BY <1>0, <2>1, <2>2, <2>3, Zenon DEF Where, Flags, Exclusive
  <1>3. PICK commits \in BOOLEAN :
           Transact(k, c, t, commits) /\ r = Outcome(k, c, t, commits)
    BY <1>1 DEF Commit, KernelDoes
  <1>4. CASE commits
    <2> DEFINE e == Evict(k, c)
    <2>1. /\ k.thread[t] = "runnable" /\ Silent(k.channel, Of(t))
      BY <1>0, <1>3, <1>4, UnseenIs, Zenon DEF Transact, CanRun
    <2>2. k.running[c] # t
      BY <1>0, <1>1, <2>1, SchedulerAssumption, Zenon DEF KernelInv
    <2>3. Empties(s, k, e, c)
      <3>1. k.txn[c] # "complete"
        BY <1>1
      <3> HIDE DEF e, t
      <3>2. Empties(s, k, Evict(k, c), c)
        BY <1>2, <3>1, EvictKeeps, Zenon
      <3> QED BY <3>2 DEF e
    <2>4. e \in Kernel /\ Linked(s, e)
      <3> HIDE DEF e
      <3> QED BY <2>3, Zenon DEF Empties, Linked, KernelInv
    <2>5. Starts(e, r, c, t)
      <3>1. r = Succeeds(k, c, t)
        BY <1>3, <1>4 DEF Succeeds
      <3> HIDE DEF e, t, r
      <3>2. e = Evict(k, c)
        BY DEF e
      <3>3. Starts(e, Succeeds(k, c, t), c, t)
        BY <1>1, <2>4, <3>2, StartsIs
      <3> QED BY <3>1, <3>3
    <2> HIDE DEF e, t, s, k, r
    <2>6. /\ e.running[c] = NoTask /\ ~e.chain[c]
          /\ \A d \in CPU \ {c} : e.running[d] = k.running[d]
          /\ e.txn = k.txn /\ e.target = k.target
          /\ \A u \in Task : k.running[c] # u =>
                /\ e.thread[u] = k.thread[u]
                /\ Silent(k.channel, Of(u)) => Silent(e.channel, Of(u))
      BY <2>3 DEF Empties
    <2>7. e.thread[t] = "runnable" /\ Silent(e.channel, Of(t))
      BY <1>1, <2>1, <2>2, <2>6
    <2>8. \A u \in Task \ {t} : /\ SameView(s, s, u)
                                /\ s.run_state[u] = "PENDING" => s.cpu[u] # c
      <3> TAKE u \in Task \ {t}
      <3>1. Where(s, u) /\ s.next[c] # u
        BY <1>0 DEF t
      <3> QED BY <3>1 DEF Where, SameView
    <2>9. enforce_affinity_mask_ => c \in allowed_cpulist[t]
      BY <1>1, SchedulerAssumption DEF TxnLink, t, s, k
    <2>10. Linked(s, r)
      <3>1. Vacant(e, c, t)
        BY <2>6, <2>7, <2>9, Zenon DEF Vacant
      <3>2. Hosts(s, s, c, t)
        BY <1>0, <1>1, <1>2, <2>8 DEF Hosts
      <3> QED BY <1>1, <2>4, <2>5, <3>1, <3>2, StartsKeeps
    <2>11. Steady(s, k, r)
      <3>1. ASSUME NEW u \in Task, Settling(k, u), s.run_state[u] # "PENDING"
            PROVE  Settling(r, u)
        <4>1. u # t
          BY <1>2, <3>1, Zenon
        <4>2. k.running[c] # u
          BY <1>0, <3>1, SchedulerAssumption DEF KernelInv, Settling
        <4> QED BY <2>5, <2>6, <3>1, <4>1, <4>2 DEF Settling, Starts
      <3>2. s.next[c] # NoTask
        BY <1>1, SchedulerAssumption DEF t
      <3>3. \A d \in CPU : k.running[d] = NoTask /\ s.next[d] = NoTask => r.running[d] = NoTask
        BY <2>5, <2>6, <3>2 DEF Starts
      <3>4. \A d \in CPU : r.txn[d] \in {"open", "submitted"} =>
               r.txn[d] = k.txn[d] /\ r.target[d] = k.target[d]
        BY <2>5, <2>6 DEF Starts
      <3>5. \A d \in CPU : k.txn[d] = "open" => r.txn[d] = "open"
        BY <1>1, <2>5, <2>6 DEF Starts
      <3> QED BY <3>1, <3>3, <3>4, <3>5, Zenon DEF Steady
    <2> QED BY <2>10, <2>11, Zenon DEF s, k, r
  <1>5. CASE ~commits
    <2>1. r = Fails(k, c, t)
      BY <1>3, <1>5, Zenon DEF Fails
    <2> HIDE DEF t, s, k, r
    <2>2. Refused(k, r, c)
      BY <1>0, <2>1, RefusedIs
    <2>3. /\ Idle(k, r) /\ r.txn[c] \in {"unavail", "failed"}
          /\ \A d \in CPU \ {c} : r.txn[d] = k.txn[d] /\ r.target[d] = k.target[d]
      BY <2>2 DEF Refused
    <2>4. ASSUME NEW u \in Task PROVE SameTxn(s, k, r, u)
      <3>1. Where(s, u)
        BY <1>0
      <3>2. s.run_state[u] = "PENDING" => s.cpu[u] \in CPU
        BY <3>1 DEF Where
      <3> QED BY <1>1, <2>3, <3>2 DEF SameTxn
    <2>5. Linked(s, k)
      BY Zenon DEF s, k
    <2>6. Linked(s, r)
      BY <2>3, <2>4, <2>5, IdleKeeps, Zenon
    <2>7. Steady(s, k, r)
      BY <1>1, <2>3, Zenon DEF Idle, Steady, Settling
    <2> QED BY <2>6, <2>7 DEF s, k, r
  <1> QED BY <1>4, <1>5

(***************************************************************************)
(* The steps of the agent, as far as they change the scheduler only.       *)
(***************************************************************************)
(* The task t goes back into a queue; its transaction has completed; it    *)
(* gets one.                                                               *)
Requeues(s, q, t) ==
    /\ s.run_state[t] # "BLOCKED" /\ q.run_state[t] \in {"QUEUED", "YIELDING"}
    /\ q.preempted[t] => s.preempted[t]

(* The PENDING task t is now ON_CPU: its transaction is complete.          *)
Lands(s, q, k, t) ==
    /\ s.run_state[t] = "PENDING" /\ k.txn[s.cpu[t]] = "complete"
    /\ q.run_state[t] = "ON_CPU" /\ q.cpu[t] = s.cpu[t]
    /\ ~q.preempted[t]

(* The task t is now PENDING: its thread can run and has no message under  *)
(* way.                                                                    *)
Books(s, q, k, t) ==
    /\ Silent(k.channel, Of(t)) /\ k.thread[t] = "runnable"
    /\ q.run_state[t] = "PENDING" /\ k.txn[q.cpu[t]] # "complete"
    /\ ~q.preempted[t]

(* What a step of the agent may do with t.                                 *)
Moves(s, q, k, t) ==
    \/ SameView(s, q, t)
    \/ /\ t \in s.alive /\ t \in q.alive
       /\ Requeues(s, q, t) \/ Lands(s, q, k, t) \/ Books(s, q, k, t)

(* A task that goes back to a queue keeps its link.                        *)
LEMMA RequeuesLink ==
    ASSUME NEW s, NEW q, NEW k, NEW t \in Task, TaskLink(s, k, t), Where(s, t),
           KernelInv(k), s \in Scheduler, t \in s.alive, t \in q.alive, Requeues(s, q, t)
    PROVE  TaskLink(q, k, t)
  <1>1. \A m \in Message : IsFirst(k.channel, Of(t), m) => Fits(q, k, t, m)
    BY Zenon DEF TaskLink, Fits, Requeues
  <1>2. ASSUME NEW c \in CPU, Own(k, c, t)
        PROVE  k.thread[t] = "running" /\ ~OnChain(k, t)
    BY <1>2, SchedulerAssumption, Zenon DEF Own, OnChain, KernelInv
  <1>3. ASSUME Silent(k.channel, Of(t)) PROVE Quiet(q, k, t)
    <2>1. Quiet(s, k, t)
      BY <1>3, Zenon DEF TaskLink
    <2>2. s.run_state[t] \in RunState
      BY Zenon DEF Scheduler
    <2>3. s.run_state[t] \in {"ON_CPU", "PENDING"} => s.cpu[t] \in CPU
      BY Zenon DEF Where
    <2>4. \/ k.thread[t] \in {"runnable", "leaving", "arriving"}
          \/ k.thread[t] = "running" /\ ~OnChain(k, t)
      BY <1>2, <2>1, <2>2, <2>3, Zenon DEF Quiet, Requeues, RunState
    <2> QED BY <2>4, Zenon DEF Quiet, Requeues
  <1> QED BY <1>1, <1>3, Zenon DEF TaskLink, Requeues

(* A task whose transaction is complete keeps its link.                    *)
LEMMA LandsLink ==
    ASSUME NEW s, NEW q, NEW k, NEW t \in Task, TaskLink(s, k, t),
           t \in s.alive, t \in q.alive, Lands(s, q, k, t)
    PROVE  TaskLink(q, k, t)
  <1>1. \A m \in Message : IsFirst(k.channel, Of(t), m) => Fits(q, k, t, m)
    BY Zenon DEF TaskLink, Fits, Lands
  <1>2. ASSUME Silent(k.channel, Of(t)) PROVE Quiet(q, k, t)
    <2>1. Quiet(s, k, t)
      BY <1>2, Zenon DEF TaskLink
    <2>2. Own(k, q.cpu[t], t)
      BY <2>1, Zenon DEF Quiet, Lands
    <2> QED BY <2>2, Zenon DEF Quiet, Lands
  <1> QED BY <1>1, <1>2, Zenon DEF TaskLink, Lands

(* A task that is assigned a CPU has its link.                             *)
LEMMA BooksLink ==
    ASSUME NEW s, NEW q, NEW k, NEW t \in Task, k.channel \in Seq(Message),
           t \in q.alive, Books(s, q, k, t)
    PROVE  TaskLink(q, k, t)
  <1>1. /\ \A x \in Message : ~IsFirst(k.channel, Of(t), x) /\ ~IsLast(k.channel, Of(t), x)
        /\ \A x, y \in Message : ~IsStep(k.channel, Of(t), x, y)
    BY MailFacts, Zenon DEF Books
  <1>2. Quiet(q, k, t)
    BY DEF Quiet, Books
  <1> QED BY <1>1, <1>2, Zenon DEF TaskLink, Books

(* A step of the agent that does not change the kernel.                    *)
LEMMA MovesKeep ==
    ASSUME NEW s, NEW q, NEW k, Linked(s, k), Placed(q), q.ok,
           q.in_switchto = s.in_switchto, \A t \in Task : Moves(s, q, k, t)
    PROVE  Linked(q, k)
  <1>0. /\ Placed(s) /\ KernelInv(k) /\ s \in Scheduler /\ k.channel \in Seq(Message)
        /\ \A u \in Task : TaskLink(s, k, u) /\ Where(s, u)
        /\ \A d \in CPU : CpuLink(s, k, d)
    BY Zenon DEF Linked, Placed, Sane, KernelInv, Kernel
  <1>1. ASSUME NEW t \in Task PROVE TaskLink(q, k, t)
    <2>0. Where(s, t) /\ TaskLink(s, k, t) /\ Moves(s, q, k, t)
      BY <1>0
    <2>1. CASE SameView(s, q, t)
      <3>1. SameThread(k, k, t) /\ SameTxn(s, k, k, t)
        BY Zenon DEF SameThread, SameTxn, SameMail
      <3> QED BY <2>0, <2>1, <3>1, LinkKept, Zenon
    <2>2. CASE t \in s.alive /\ t \in q.alive /\ Requeues(s, q, t)
      BY <1>0, <2>0, <2>2, RequeuesLink, Zenon
    <2>3. CASE t \in s.alive /\ t \in q.alive /\ Lands(s, q, k, t)
      BY <1>0, <2>0, <2>3, LandsLink, Zenon
    <2>4. CASE t \in s.alive /\ t \in q.alive /\ Books(s, q, k, t)
      BY <1>0, <2>0, <2>4, BooksLink, Zenon
    <2> QED BY <2>0, <2>1, <2>2, <2>3, <2>4, Zenon DEF Moves
  <1>2. ASSUME NEW d \in CPU PROVE CpuLink(q, k, d)
    <2>1. Chained(q, d) <=> Chained(s, d)
      BY Zenon DEF Chained
    <2>2. SameMail(k.channel, k.channel, Sw(d)) /\ CpuLink(s, k, d)
      BY <1>0 DEF SameMail
    <2> QED BY <2>1, <2>2, CpuLinkKept
  <1> QED BY <1>0, <1>1, <1>2, Zenon DEF Linked

(* No step of the kernel disturbs the agent.                               *)
LEMMA SteadyKeeps ==
    ASSUME NEW s, NEW k, NEW r, NEW a, Invariant(s, k, a), Linked(s, r), Steady(s, k, r)
    PROVE  Invariant(s, r, a)
  <1>1. TxnLink(s, r)
    BY Zenon DEF Invariant, TxnLink, Steady
  <1>2. AgentLink(s, r, a)
    <2>1. a.assigned_cpus = {c \in CPU : r.txn[c] = "open"}
      BY DEF Invariant, AgentLink, Steady
    <2>2. ASSUME a.pc = "drain", NEW t \in Yielding(s) PROVE Settling(r, t)
      <3>1. /\ Settling(k, t) /\ Placed(s)
        BY <2>2, Zenon DEF Invariant, AgentLink, Linked
      <3>2. t \in Task
        <4>1. s.yielding_tasks_ \in Seq(Task)
          BY <3>1, Zenon DEF Placed, Sane, Scheduler
        <4> QED BY <2>2, <4>1 DEF Yielding, Range
      <3>3. s.run_state[t] = "YIELDING"
        BY <2>2, <3>1, <3>2, Zenon DEF Placed, Where
      <3> QED BY <3>1, <3>2, <3>3, Zenon DEF Steady
    <2>3. a \in Agent /\ r.running[a.global_cpuid_] = NoTask
      <3>1. a \in Agent /\ a.global_cpuid_ \in CPU
        BY DEF Invariant, AgentLink, Agent
      <3> QED BY <3>1, Zenon DEF Invariant, AgentLink, Steady
    <2> QED BY <2>1, <2>2, <2>3, Zenon DEF Invariant, AgentLink
  <1> QED BY <1>1, <1>2, Zenon DEF Invariant

(***************************************************************************)
(* Lemmas about the agent's steps that need nothing of the scheduler's     *)
(* operations, and what the invariant implies.                             *)
(***************************************************************************)
(* The loop of AgentThread starts a round.                                 *)
LEMMA StartRoundKeeps ==
    ASSUME Invariant(sched, kern, agent), StartRound
    PROVE  Invariant(sched', kern', agent')
  <1>1. /\ agent' = [agent EXCEPT !.pc = "drain"] /\ sched' = sched /\ kern' = kern
        /\ agent.pc = "top"
    BY DEF StartRound, At
  <1>2. agent \in Agent
    BY DEF Invariant, AgentLink
  <1>3. /\ agent' \in Agent /\ agent'.pc = "drain"
        /\ agent'.global_cpuid_ = agent.global_cpuid_
        /\ agent'.avail_cpus = agent.avail_cpus
        /\ agent'.avail_cpus_low_priority = agent.avail_cpus_low_priority
        /\ agent'.assigned_cpus = agent.assigned_cpus
    BY <1>1, <1>2 DEF Agent
  <1>4. AgentLink(sched, kern, agent')
    BY <1>1, <1>3 DEF Invariant, AgentLink
  <1> QED BY <1>1, <1>4 DEF Invariant

(* The channel is empty: GlobalSchedule starts.                            *)
LEMMA DrainedKeeps ==
    ASSUME Invariant(sched, kern, agent), Drained
    PROVE  Invariant(sched', kern', agent')
  <1>1. /\ agent' = [agent EXCEPT !.pc = "scan"] /\ sched' = sched /\ kern' = kern
        /\ agent.pc = "drain"
    BY DEF Drained, At
  <1>2. agent \in Agent
    BY DEF Invariant, AgentLink
  <1>3. /\ agent' \in Agent /\ agent'.pc = "scan"
        /\ agent'.global_cpuid_ = agent.global_cpuid_
        /\ agent'.avail_cpus = agent.avail_cpus
        /\ agent'.avail_cpus_low_priority = agent.avail_cpus_low_priority
        /\ agent'.assigned_cpus = agent.assigned_cpus
    BY <1>1, <1>2 DEF Agent
  <1>4. AgentLink(sched, kern, agent')
    BY <1>1, <1>3 DEF Invariant, AgentLink
  <1> QED BY <1>1, <1>4 DEF Invariant

(* The agent after ScanCpu: the CPU it has looked at may be in its lists.  *)
Scanned(s, a, b, c) ==
    /\ b \in Agent /\ b.pc \in {"scan", "place"}
    /\ b.global_cpuid_ = a.global_cpuid_ /\ b.assigned_cpus = a.assigned_cpus
    /\ \A d \in b.avail_cpus :
          d \in a.avail_cpus \/ (d = c /\ ScanSyncs(c) /\ c # a.global_cpuid_ /\ s.current[c] = NoTask)
    /\ \A d \in b.avail_cpus_low_priority :
          \/ d \in a.avail_cpus_low_priority
          \/ d = c /\ ScanSyncs(c) /\ c # a.global_cpuid_ /\ s.current[c] # NoTask

(* What the scan of one CPU changes.                                       *)
LEMMA ScannedIs ==
    ASSUME agent \in Agent, ScanCpu
    PROVE  Scanned(sched', agent, agent', agent.scan)
  <1> DEFINE c == agent.scan
  <1>0. c \in CPU /\ c \in Nat /\ NumCpus \in Nat /\ c < NumCpus /\ 0 \in CPU
    BY SchedulerAssumption DEF Agent, CPU
  <1>1. PICK A, L, p, n :
           /\ agent' = [agent EXCEPT !.pc = p, !.scan = n, !.avail_cpus = A,
                                     !.avail_cpus_low_priority = L]
           /\ p = IF LastCpu(c) THEN "place" ELSE "scan"
           /\ n = IF LastCpu(c) THEN 0 ELSE c + 1
           /\ A \in {agent.avail_cpus, agent.avail_cpus \cup {c}}
           /\ A # agent.avail_cpus =>
                 ScanSyncs(c) /\ Available(kern, c) /\ sched'.current[c] = NoTask
           /\ L \in {agent.avail_cpus_low_priority, agent.avail_cpus_low_priority \cup {c}}
           /\ L # agent.avail_cpus_low_priority =>
                 ScanSyncs(c) /\ Available(kern, c) /\ sched'.current[c] # NoTask
    BY Zenon DEF ScanCpu
  <1>2. p \in {"place", "scan"} /\ n \in CPU /\ A \subseteq CPU /\ L \subseteq CPU
    <2>1. n \in CPU
      BY <1>0, <1>1 DEF LastCpu, CPU
    <2> QED BY <1>0, <1>1, <2>1 DEF Agent
  <1>3. /\ agent' \in Agent /\ agent'.pc \in {"scan", "place"}
        /\ agent'.global_cpuid_ = agent.global_cpuid_
        /\ agent'.assigned_cpus = agent.assigned_cpus
        /\ agent'.avail_cpus = A /\ agent'.avail_cpus_low_priority = L
    BY <1>1, <1>2, Zenon DEF Agent
  <1>4. ScanSyncs(c) /\ Available(kern, c) => c # agent.global_cpuid_
    BY DEF ScanSyncs
  <1> HIDE DEF c
  <1>5. Scanned(sched', agent, agent', c)
    BY <1>1, <1>3, <1>4 DEF Scanned
  <1> QED BY <1>5 DEF c

(* A task that the agent may place is runnable, and no message about it is *)
(* under way.                                                              *)
LEMMA EligibleIs ==
    ASSUME Linked(sched, kern), NEW t \in Task, t \in sched.alive,
           sched.run_state[t] = "QUEUED", ~Ineligible(t)
    PROVE  kern.thread[t] = "runnable" /\ Silent(kern.channel, Of(t))
  <1>1. kern.channel \in Seq(Message) /\ TaskLink(sched, kern, t)
    BY DEF Linked, KernelInv, Kernel
  <1>2. Silent(kern.channel, Of(t))
    BY <1>1, UnseenIs DEF Ineligible
  <1>3. Quiet(sched, kern, t)
    BY <1>1, <1>2 DEF TaskLink
  <1> QED BY <1>2, <1>3 DEF Quiet, Ineligible, on_cpu

(* Whether it succeeds or fails, replacing the task of CPU c changes what  *)
(* the agent and the kernel know of c alone.                               *)
OnlyCpu(s, r, k, l, c) ==
    /\ r.next = s.next /\ \A e \in CPU \ {c} : r.current[e] = s.current[e]
    /\ l.txn[c] \notin {"open", "submitted"}
    /\ \A e \in CPU \ {c} : /\ l.txn[e] = k.txn[e] /\ l.target[e] = k.target[e]
                            /\ l.running[e] = k.running[e]

(* The transactions still match the scheduler.                             *)
LEMMA OnlyCpuTxn ==
    ASSUME NEW s, NEW r, NEW k, NEW l, NEW c \in CPU,
           TxnLink(s, k), OnlyCpu(s, r, k, l, c)
    PROVE  TxnLink(r, l)
  <1>1. ASSUME NEW e \in CPU, l.txn[e] \in {"open", "submitted"}
        PROVE  r.next[e] # NoTask /\ l.target[e] = r.next[e]
    <2>1. e # c /\ r.next = s.next
      BY <1>1 DEF OnlyCpu
    <2>2. k.txn[e] \in {"open", "submitted"} /\ l.target[e] = k.target[e]
      BY <1>1, <2>1 DEF OnlyCpu
    <2> QED BY <2>1, <2>2 DEF TxnLink
  <1>2. enforce_affinity_mask_ =>
           \A e \in CPU : r.next[e] # NoTask => e \in allowed_cpulist[r.next[e]]
    BY DEF TxnLink, OnlyCpu
  <1> QED BY <1>1, <1>2 DEF TxnLink

(* The agent has turned to CPU c of avail_cpus_low_priority.               *)
TurnedTo(a, b, c) == b = [a EXCEPT !.avail_cpus_low_priority = @ \ {c}]

(* What the agent knows of the CPUs still holds.                           *)
LEMMA OnlyCpuAgent ==
    ASSUME NEW s, NEW r, NEW k, NEW l, NEW a, NEW b, NEW c \in CPU,
           AgentLink(s, k, a), a.pc = "place", c # a.global_cpuid_,
           k.txn[c] # "open", s.current[c] # NoTask,
           OnlyCpu(s, r, k, l, c), TurnedTo(a, b, c)
    PROVE  AgentLink(r, l, b)
  <1>1. /\ b \in Agent /\ b.pc = "place" /\ b.global_cpuid_ = a.global_cpuid_
        /\ b.avail_cpus = a.avail_cpus /\ b.assigned_cpus = a.assigned_cpus
        /\ b.avail_cpus_low_priority = a.avail_cpus_low_priority \ {c}
    <2>1. a \in Agent
      BY Zenon DEF AgentLink
    <2> QED BY <2>1 DEF TurnedTo, Agent
  <1>2. /\ a.global_cpuid_ \in CPU \ {c} /\ a.avail_cpus \subseteq CPU
        /\ a.avail_cpus_low_priority \subseteq CPU
    BY DEF AgentLink, Agent
  <1>3. /\ a.assigned_cpus = {e \in CPU : k.txn[e] = "open"}
        /\ \A e \in a.avail_cpus : e # a.global_cpuid_
              /\ s.current[e] = NoTask /\ s.next[e] = NoTask
        /\ \A e \in a.avail_cpus_low_priority :
              e # a.global_cpuid_ /\ s.current[e] # NoTask
        /\ s.current[a.global_cpuid_] = NoTask /\ s.next[a.global_cpuid_] = NoTask
        /\ k.running[a.global_cpuid_] = NoTask
    BY DEF AgentLink
  <1>4. b.assigned_cpus = {e \in CPU : l.txn[e] = "open"}
    <2>1. \A e \in CPU : l.txn[e] = "open" <=> k.txn[e] = "open"
      BY DEF OnlyCpu
    <2> QED BY <1>1, <1>3, <2>1
  <1>5. ASSUME NEW e \in b.avail_cpus
        PROVE  e # b.global_cpuid_ /\ r.current[e] = NoTask /\ r.next[e] = NoTask
    <2>1. e # a.global_cpuid_ /\ s.current[e] = NoTask /\ s.next[e] = NoTask
      BY <1>1, <1>3
    <2>2. e \in CPU \ {c}
      BY <1>1, <1>2, <2>1
    <2> QED BY <1>1, <2>1, <2>2 DEF OnlyCpu
  <1>6. \A e \in b.avail_cpus_low_priority :
           e # b.global_cpuid_ /\ r.current[e] # NoTask
    BY <1>1, <1>2, <1>3 DEF OnlyCpu
  <1>7. /\ r.current[b.global_cpuid_] = NoTask /\ r.next[b.global_cpuid_] = NoTask
        /\ l.running[b.global_cpuid_] = NoTask
    BY <1>1, <1>2, <1>3 DEF OnlyCpu
  <1> QED BY <1>1, <1>4, <1>5, <1>6, <1>7, Zenon DEF AgentLink

(* A CPU of avail_cpus_low_priority runs a task.                           *)
LEMMA ChallengeIs ==
    ASSUME Invariant(sched, kern, agent), agent.pc = "place", NEW d, NEW t, NEW c,
           InHand(sched, d, t), c \in agent.avail_cpus_low_priority
    PROVE  /\ \E prev \in Task : Challenges(d, t, c, prev)
           /\ c \in CPU /\ c # agent.global_cpuid_ /\ sched.current[c] # NoTask
           /\ kern.txn[c] # "open"
  <1>1. /\ Linked(sched, kern) /\ Placed(sched) /\ sched.ok /\ kern \in Kernel
        /\ AgentLink(sched, kern, agent) /\ TxnLink(sched, kern)
        /\ t \in Task /\ t \in sched.alive /\ sched.run_state[t] = "QUEUED"
        /\ \A u \in Task : Where(sched, u)
        /\ sched \in Scheduler /\ Exclusive(sched)
    BY Zenon DEF Invariant, Linked, InHand, KernelInv, AgentLink, Placed, Sane
  <1>2. c \in CPU /\ c # agent.global_cpuid_ /\ sched.current[c] # NoTask
    BY <1>1, Zenon DEF AgentLink, Agent
  <1>3. PICK prev \in Task : sched.current[c] = prev
    BY <1>1, <1>2 DEF Scheduler
  <1>4. sched.next[c] = NoTask /\ kern.txn[c] # "open"
    BY <1>1, <1>2 DEF Exclusive, TxnLink
  <1>5. sched.run_state[prev] = "ON_CPU" /\ prev \in sched.alive
    BY <1>1, <1>2, <1>3 DEF Where
  <1>6. Challenges(d, t, c, prev)
    BY <1>1, <1>2, <1>3, <1>4, <1>5, Zenon DEF Challenges
  <1> QED BY <1>2, <1>4, <1>6, Zenon

(* prev is queued and t put aside: scheduler and kernel still agree.       *)
LEMMA AsideLinked ==
    ASSUME NEW d, NEW t, NEW c, NEW prev, NEW s, NEW k, Challenges(d, t, c, prev),
           StaysOff(sched, s, c, prev, t), Linked(sched, k)
    PROVE  Linked(s, k)
  <1>1. /\ t \in Task /\ t \in sched.alive /\ sched.run_state[t] = "QUEUED"
        /\ prev \in Task /\ sched.run_state[prev] = "ON_CPU" /\ prev \in sched.alive
        /\ sched.ok
    BY DEF Challenges
  <1>2. /\ Placed(s) /\ s.ok /\ s.in_switchto = sched.in_switchto
        /\ s.alive = sched.alive
        /\ s.run_state[prev] = "QUEUED" /\ ~s.preempted[prev]
        /\ s.run_state[t] = "YIELDING" /\ s.preempted[t] = sched.preempted[t]
        /\ \A u \in Task \ {prev, t} : SameView(sched, s, u)
    BY <1>1 DEF StaysOff, Displaced
  <1>3. Requeues(sched, s, t)
    BY <1>1, <1>2 DEF Requeues
  <1>4. Requeues(sched, s, prev)
    BY <1>1, <1>2, Zenon DEF Requeues
  <1>5. ASSUME NEW u \in Task PROVE Moves(sched, s, k, u)
    BY <1>1, <1>2, <1>3, <1>4 DEF Moves
  <1> QED BY <1>2, <1>5, MovesKeep

(* The kernel after CPU c is emptied and its transaction committed.        *)
Emptied(q, k, r, c) ==
    /\ Linked(q, r)
    /\ r.txn[c] = "complete" /\ \A d \in CPU \ {c} : r.txn[d] = k.txn[d]
    /\ r.target = k.target

(* What PickNextGlobalCPU does to a CPU on which a task ran.               *)
LEMMA EmptyKeeps ==
    ASSUME NEW q, NEW k, NEW r, NEW c \in CPU, Linked(q, k),
           q.current[c] = NoTask, q.next[c] = NoTask,
           r = [Evict(k, c) EXCEPT !.txn[c] = "complete"]
    PROVE  Emptied(q, k, r, c)
  <1> DEFINE e == Evict(k, c)
             x == [e.txn EXCEPT ![c] = "complete"]
  <1>1. Empties(q, k, e, c)
    BY EvictKeeps
  <1>2. r = [e EXCEPT !.txn[c] = "complete"]
    OBVIOUS
  <1> HIDE DEF e
  <1>3. /\ Linked(q, e) /\ e \in Kernel /\ e.txn = k.txn /\ e.target = k.target
        /\ \A d \in CPU \ {c} : e.running[d] = k.running[d]
    BY <1>1 DEF Empties, Linked, KernelInv
  <1>4. /\ x \in [CPU -> TxnState] /\ x[c] = "complete"
        /\ \A d \in CPU \ {c} : x[d] = k.txn[d]
    BY <1>3 DEF Kernel, TxnState
  <1>5. r = [e EXCEPT !.txn = x]
    BY <1>2, <1>3, Zenon DEF Kernel
  <1> HIDE DEF x
  <1>6. Idle(e, r) /\ r.txn = x /\ r.target = k.target
    BY <1>3, <1>4, <1>5, Zenon DEF Idle, Kernel
  <1>7. ASSUME NEW u \in Task PROVE SameTxn(q, e, r, u)
    <2>1. Where(q, u) /\ q.next[c] # u
      BY SchedulerAssumption DEF Linked, Placed
    <2>2. q.run_state[u] = "PENDING" => q.cpu[u] \in CPU \ {c}
      BY <2>1 DEF Where
    <2> QED BY <1>3, <1>4, <1>6, <2>2 DEF SameTxn
  <1>8. Linked(q, r)
    BY <1>3, <1>6, <1>7, IdleKeeps
  <1> QED BY <1>4, <1>6, <1>8 DEF Emptied

(* KernelInv looks at no more than this of the kernel.                     *)
LEMMA KernelInvKept ==
    ASSUME NEW k, NEW r, KernelInv(k), r \in Kernel, r.channel \in Seq(KernelMsg),
           r.thread = k.thread, r.running = k.running, r.chain = k.chain
    PROVE  KernelInv(r)
  BY DEF KernelInv

(* The first message of the channel can be handled.                        *)
LEMMA HeadCanBeHandled ==
    ASSUME Invariant(sched, kern, agent), agent.pc = "drain", kern.channel # << >>
    PROVE  LET m == Head(kern.channel)
           IN  /\ CanHandle(sched, kern, m)
               /\ Taken(kern.channel, Tail(kern.channel), Of(m.task), m)
  <1> DEFINE ch == kern.channel
             m == Head(ch)
             t == m.task
  <1>0. /\ Placed(sched) /\ sched.ok /\ ch \in Seq(KernelMsg)
        /\ \A u \in Task : TaskLink(sched, kern, u)
        /\ \A c \in CPU : CpuLink(sched, kern, c)
        /\ \A u \in Yielding(sched) : Settling(kern, u)
    BY DEF Invariant, Linked, KernelInv, AgentLink
  <1> HIDE DEF ch
  <1>1. m \in KernelMsg /\ ch \in Seq(Message) /\ ch # << >>
    BY <1>0 DEF KernelMsg, ch
  <1> HIDE DEF m
  <1>2. m \in Message /\ t \in Task /\ m \in Of(t)
    BY <1>1 DEF KernelMsg, Message, Of
  <1>3. Taken(ch, Tail(ch), Of(t), m)
    BY <1>1, <1>2, TakeIn, Zenon DEF m
  <1> HIDE DEF t
  <1>4. Fits(sched, kern, t, m)
    BY <1>0, <1>2, <1>3, Zenon DEF Taken, TaskLink, ch
  <1>5. ~Silent(ch, Of(t))
    BY <1>2, <1>3, Zenon DEF Taken, IsFirst, Silent
  <1>6. ~sched.preempted[t] /\ t \notin Yielding(sched)
    BY <1>0, <1>2, <1>5, Zenon DEF TaskLink, Settling, ch
  <1>7. ASSUME m.type = "SWITCHTO" \/ m.from_switchto
        PROVE  m.type = "SWITCHTO" <=> ~Chained(sched, m.cpu)
    <2>1. m.cpu \in CPU /\ m \in Sw(m.cpu)
      BY <1>1, <1>2, <1>7 DEF KernelMsg, Sw
    <2>2. Taken(ch, Tail(ch), Sw(m.cpu), m)
      BY <1>1, <2>1, TakeIn, Zenon DEF m
    <2> QED BY <1>0, <1>2, <2>1, <2>2, Zenon DEF Taken, CpuLink, ch
  <1>8. m.from_switchto => m.type # "SWITCHTO"
    BY <1>1, Zenon DEF KernelMsg
  <1>9. CanHandle(sched, kern, m)
    BY <1>0, <1>1, <1>2, <1>4, <1>6, <1>7, <1>8 DEF CanHandle, t
  <1> QED BY <1>3, <1>9 DEF m, t, ch

(* A task whose message was handled agrees with what is still under way.   *)
LEMMA AfterLink ==
    ASSUME NEW s, NEW r, NEW k, NEW n, NEW t \in Task, NEW m \in Message,
           TaskLink(s, k, t), After(s, r, t, m), Taken(k.channel, n.channel, Of(t), m),
           n.thread = k.thread, n.running = k.running, n.chain = k.chain, n.txn = k.txn
    PROVE  /\ TaskLink(r, n, t)
           /\ m.type \in {"PREEMPT", "YIELD"} => Settling(n, t)
  <1> DEFINE ch == k.channel
             dh == n.channel
  <1>0. Waits(n, t) <=> Waits(k, t)
    BY Zenon DEF Waits, OnChain
  <1>1. ASSUME NEW y \in Message, IsFirst(dh, Of(t), y) PROVE Follows(m, y)
    BY <1>1, Zenon DEF Taken, TaskLink
  <1>2. ASSUME NEW y \in Message, IsFirst(dh, Of(t), y) PROVE Fits(r, n, t, y)
    <2>1. Follows(m, y)
      BY <1>1, <1>2, Zenon
    <2>2. CASE ToB(m) /\ FromB(y)
      <3>1. t \in r.alive /\ r.run_state[t] = "BLOCKED"
        BY <2>2, Zenon DEF After, ToB
      <3> QED BY <2>2, <3>1, Zenon DEF Fits
    <2>3. CASE NewRunnable(m) /\ FromX(y)
      <3>1. t \in r.alive /\ r.run_state[t] = "QUEUED"
        BY <2>3, Zenon DEF After, NewRunnable
      <3> QED BY <2>3, <3>1, Zenon DEF Fits
    <2> QED BY <2>1, <2>2, <2>3, Zenon DEF Follows
  <1>3. \A x, y \in Message : IsStep(dh, Of(t), x, y) => Follows(x, y)
    BY Zenon DEF Taken, TaskLink
  <1>4. ASSUME NEW y \in Message, IsLast(dh, Of(t), y) PROVE Settled(n, t, y)
    <2>1. Settled(k, t, y)
      BY <1>4, Zenon DEF Taken, TaskLink
    <2> QED BY <1>0, <2>1, Zenon DEF Settled
  <1>5. ASSUME Silent(dh, Of(t)) PROVE Settled(k, t, m)
    BY <1>5, Zenon DEF Taken, TaskLink
  <1>6. ASSUME Silent(dh, Of(t)) PROVE Quiet(r, n, t)
    <2>1. Settled(k, t, m)
      BY <1>5, <1>6, Zenon
    <2>2. CASE ToB(m)
      <3>1. t \in r.alive /\ r.run_state[t] = "BLOCKED" /\ Waits(n, t)
        BY <1>0, <2>1, <2>2, Zenon DEF After, ToB, Settled
      <3> QED BY <3>1, Zenon DEF Quiet
    <2>3. CASE NewRunnable(m)
      <3>1. t \in r.alive /\ r.run_state[t] = "QUEUED" /\ n.thread[t] \in {"runnable", "arriving"}
        BY <2>1, <2>3, Zenon DEF After, NewRunnable, Settled
      <3> QED BY <3>1, Zenon DEF Quiet
    <2>4. CASE m.type \in {"WAKEUP", "PREEMPT", "YIELD"}
      <3>1. /\ t \in r.alive /\ r.run_state[t] \in {"QUEUED", "YIELDING"}
            /\ n.thread[t] = "runnable"
        BY <2>1, <2>4, Zenon DEF After, Settled
      <3> QED BY <3>1, Zenon DEF Quiet
    <2>5. CASE m.type \in {"DEAD", "DEPARTED"}
      <3>1. t \notin r.alive /\ n.thread[t] = "absent"
        BY <2>1, <2>5, Zenon DEF After, Settled
      <3> QED BY <3>1, Zenon DEF Quiet
    <2>6. m.type \in MsgType
      BY Zenon DEF Message
    <2> QED BY <2>2, <2>3, <2>4, <2>5, <2>6 DEF MsgType, ToB, NewRunnable
  <1>7. ASSUME m.type \in {"PREEMPT", "YIELD"} PROVE Settling(n, t)
    <2>1. \A y : ~Follows(m, y)
      BY <1>7, Zenon DEF Follows, ToB, NewRunnable
    <2>2. Silent(dh, Of(t))
      BY <1>1, <2>1, Zenon DEF Taken
    <2>3. Settled(k, t, m)
      BY <1>5, <2>2, Zenon
    <2> QED BY <1>7, <2>2, <2>3, Zenon DEF Settling, Settled
  <1>8. r.preempted[t] => Settling(n, t)
    BY <1>7, Zenon DEF After
  <1>9. TaskLink(r, n, t)
    BY <1>2, <1>3, <1>4, <1>6, <1>8 DEF TaskLink
  <1> QED BY <1>7, <1>9, Zenon

(* in_switchto follows the messages that are handled.                      *)
LEMMA AfterCpuLink ==
    ASSUME NEW s, NEW r, NEW k, NEW n, NEW t, NEW c \in CPU, NEW m \in KernelMsg,
           CpuLink(s, k, c), After(s, r, t, m), n.chain = k.chain,
           k.channel \in Seq(Message), k.channel # << >>, m = Head(k.channel),
           n.channel = Tail(k.channel)
    PROVE  CpuLink(r, n, c)
  <1>0. m \in Message /\ (m.type = "SWITCHTO" => m.cpu \in CPU /\ ~m.from_switchto)
        /\ (m.from_switchto => m.cpu \in CPU)
    BY Zenon DEF KernelMsg
  <1>1. CASE m \in Sw(c)
    <2>1. m.cpu = c /\ (m.type = "SWITCHTO" \/ m.from_switchto)
      BY <1>1, Zenon DEF Sw
    <2>2. m.type = "SWITCHTO" <=> Chained(r, c)
      <3>1. CASE m.type = "SWITCHTO"
        BY <2>1, <3>1, Zenon DEF After, Enters, Switches, Chained
      <3>2. CASE m.from_switchto
        BY <1>0, <2>1, <3>2, Zenon DEF After, Leaves, Switches, Chained
      <3> QED BY <2>1, <3>1, <3>2, Zenon
    <2>3. Taken(k.channel, n.channel, Sw(c), m)
      BY <1>1, TakeIn, Zenon
    <2> QED BY <1>0, <2>2, <2>3, Zenon DEF Taken, CpuLink
  <1>2. CASE m \notin Sw(c)
    <2>1. SameMail(k.channel, n.channel, Sw(c))
      BY <1>2, TakeOther, Zenon
    <2>2. r.in_switchto[c] = s.in_switchto[c]
      <3>1. CASE m.type = "SWITCHTO"
        <4>1. m.cpu # c
          BY <1>0, <1>2, <3>1, Zenon DEF Sw
        <4> QED BY <3>1, <4>1, Zenon DEF After, Enters, Switches
      <3>2. CASE m.from_switchto
        <4>1. m.cpu # c
          BY <1>0, <1>2, <3>2, Zenon DEF Sw
        <4> QED BY <3>2, <4>1, Zenon DEF After, Leaves, Switches
      <3>3. CASE m.type # "SWITCHTO" /\ ~m.from_switchto
        BY <3>3 DEF After
      <3> QED BY <3>1, <3>2, <3>3, Zenon
    <2>3. Chained(r, c) <=> Chained(s, c)
      BY <2>2 DEF Chained
    <2>4. n.chain[c] <=> k.chain[c]
      BY Zenon
    <2> QED BY <2>1, <2>3, <2>4, CpuLinkKept
  <1> QED BY <1>1, <1>2, Zenon

(* A task whose message was handled holds no CPU.                          *)
LEMMA AfterHolds ==
    ASSUME NEW s, NEW r, NEW t \in Task, NEW m \in Message, After(s, r, t, m)
    PROVE  /\ \A c \in CPU : r.current[c] # t /\ r.next[c] # t
           /\ \A c \in CPU : r.next[c] # NoTask => r.next[c] = s.next[c]
           /\ \A c \in CPU : r.current[c] # NoTask => r.current[c] = s.current[c]
           /\ \A c \in CPU : s.next[c] \in Task \ {t} => r.next[c] = s.next[c]
  <1>1. Where(r, t) /\ r \in Scheduler
    BY Zenon DEF After, Placed, Sane
  <1>2. r.run_state[t] \notin {"ON_CPU", "PENDING"}
    <2>1. CASE m.type \in {"DEAD", "DEPARTED"}
      BY <1>1, <2>1, Zenon DEF After, Where
    <2>2. CASE m.type \in {"WAKEUP", "PREEMPT", "YIELD"}
      BY <2>2, Zenon DEF After
    <2>3. CASE m.type \in {"BLOCKED", "SWITCHTO"}
      BY <2>3, Zenon DEF After, ToB
    <2>4. CASE m.type = "NEW"
      BY <2>4 DEF After, ToB, NewRunnable
    <2>5. m.type \in MsgType
      BY Zenon DEF Message
    <2> QED BY <2>1, <2>2, <2>3, <2>4, <2>5 DEF MsgType
  <1>3. \A c \in CPU : r.current[c] # t /\ r.next[c] # t
    BY <1>1, <1>2, Zenon DEF Where
  <1>4. \A u \in Task \ {t} : SameWhere(s, r, u)
    BY DEF After, Touches
  <1>5. \A c \in CPU : r.next[c] \in Task \cup {NoTask} /\ r.current[c] \in Task \cup {NoTask}
    BY <1>1 DEF Scheduler
  <1> QED BY <1>3, <1>4, <1>5 DEF SameWhere

(* The scheduler starts without tasks and the kernel without threads.      *)
LEMMA InitKeeps ==
    ASSUME Init
    PROVE  Invariant(sched, kern, agent)
  <1>1. sched \in Scheduler /\ sched.ok
    BY DEF Init, InitScheduler, Scheduler, RunState
  <1>2. /\ Queued(sched) = {} /\ Yielding(sched) = {} /\ sched.alive = {} /\ QueuesOK(sched)
        /\ \A t \in Task : sched.run_state[t] = "BLOCKED" /\ ~sched.preempted[t]
        /\ \A c \in CPU : /\ sched.current[c] = NoTask /\ sched.next[c] = NoTask
                          /\ ~Chained(sched, c)
    BY DEF Init, InitScheduler, Queued, Yielding, QueuesOK, Range, IsInjective, Chained
  <1>3. Placed(sched)
    BY <1>1, <1>2, SchedulerAssumption DEF Placed, Sane, Exclusive, Where, Flags
  <1>4. /\ kern \in Kernel /\ kern.channel = << >>
        /\ \A t \in Task : kern.thread[t] = "absent"
        /\ \A c \in CPU : kern.running[c] = NoTask /\ ~kern.chain[c] /\ kern.txn[c] = "complete"
    BY DEF Init, InitKernel, Kernel, ThreadState, TxnState
  <1>5. KernelInv(kern)
    BY <1>4 DEF KernelInv
  <1>6. \A K : Hits(kern.channel, K) = {}
    BY <1>4 DEF Hits
  <1>7. ASSUME NEW t \in Task PROVE TaskLink(sched, kern, t)
    BY <1>2, <1>4, <1>6, Zenon DEF TaskLink, IsFirst, IsLast, IsStep, Quiet
  <1>8. ASSUME NEW c \in CPU PROVE CpuLink(sched, kern, c)
    BY <1>2, <1>4, <1>6, Zenon DEF CpuLink, IsFirst, IsLast, IsStep
  <1>9. Linked(sched, kern)
    BY <1>1, <1>3, <1>5, <1>7, <1>8 DEF Linked
  <1>10. TxnLink(sched, kern)
    BY <1>2, <1>4 DEF TxnLink
  <1>11. agent \in Agent /\ agent.pc = "top" /\ agent.global_cpuid_ \in CPU
         /\ agent.assigned_cpus = {} /\ agent.avail_cpus = {}
         /\ agent.avail_cpus_low_priority = {}
    BY AgentAssumption, SchedulerAssumption DEF Init, Agent, CPU
  <1>12. AgentLink(sched, kern, agent)
    BY <1>2, <1>4, <1>11, Zenon DEF AgentLink
  <1> QED BY <1>9, <1>10, <1>12, Zenon DEF Invariant

(* A step of the kernel.                                                   *)
LEMMA KernelStepKeeps ==
    ASSUME Invariant(sched, kern, agent), Linked(sched, kern'), Steady(sched, kern, kern'),
           UNCHANGED <<sched, agent>>
    PROVE  Invariant(sched', kern', agent')
  <1>1. Invariant(sched, kern', agent)
    BY SteadyKeeps
  <1> QED BY <1>1

(* The two run queues, one after the other.                                *)
LEMMA BothQueues ==
    ASSUME NEW q \in Seq(Task), NEW p \in Seq(Task), IsInjective(q), IsInjective(p),
           Range(q) \cap Range(p) = {}
    PROVE  /\ q \o p \in Seq(Task) /\ IsInjective(q \o p)
           /\ Range(q \o p) = Range(q) \cup Range(p)
  <1> DEFINE r == q \o p
             m == Len(q)
             n == Len(p)
  <1>1. /\ m \in Nat /\ n \in Nat /\ r \in Seq(Task) /\ DOMAIN r = 1 .. m + n
        /\ DOMAIN q = 1 .. m /\ DOMAIN p = 1 .. n
    OBVIOUS
  <1>2. \A i \in 1 .. m : r[i] = q[i]
    OBVIOUS
  <1>3. ASSUME NEW i \in m + 1 .. m + n PROVE i - m \in 1 .. n /\ r[i] = p[i - m]
    OBVIOUS
  <1>4. ASSUME NEW i \in 1 .. n PROVE m + i \in 1 .. m + n /\ r[m + i] = p[i]
    OBVIOUS
  <1> HIDE DEF r, m, n
  <1>5. \A i \in 1 .. m : r[i] \in Range(q)
    BY <1>1, <1>2 DEF Range
  <1>6. \A i \in m + 1 .. m + n : r[i] \in Range(p)
    BY <1>1, <1>3, Zenon DEF Range
  <1>7. \A i \in 1 .. m + n : i \in 1 .. m \/ i \in m + 1 .. m + n
    BY <1>1
  <1>8. IsInjective(r)
    <2> SUFFICES ASSUME NEW i \in 1 .. m + n, NEW j \in 1 .. m + n, r[i] = r[j]
                 PROVE  i = j
      BY <1>1 DEF IsInjective
    <2>1. CASE i \in 1 .. m /\ j \in 1 .. m
      BY <1>1, <1>2, <2>1 DEF IsInjective
    <2>2. CASE i \in m + 1 .. m + n /\ j \in m + 1 .. m + n
      <3>1. i - m \in DOMAIN p /\ j - m \in DOMAIN p /\ p[i - m] = p[j - m]
        BY <1>1, <1>3, <2>2
      <3>2. i - m = j - m
        BY <3>1 DEF IsInjective
      <3> QED BY <1>1, <3>2
    <2> QED BY <1>5, <1>6, <1>7, <2>1, <2>2
  <1>9. Range(r) \subseteq Range(q) \cup Range(p)
    BY <1>1, <1>5, <1>6, <1>7 DEF Range
  <1>10. Range(q) \subseteq Range(r)
    BY <1>1, <1>2 DEF Range
  <1>11. Range(p) \subseteq Range(r)
    BY <1>1, <1>4, Zenon DEF Range
  <1> QED BY <1>1, <1>8, <1>9, <1>10, <1>11 DEF r

(* A task of which the agent has seen every message.                       *)
LEMMA SeenIs ==
    ASSUME Invariant(sched, kern, agent), NEW t \in Task, ~Unseen(kern, t),
           kern.thread[t] # "absent"
    PROVE  LET st == sched.run_state[t]
               chained == \E c \in CPU : kern.running[c] = t /\ kern.chain[c]
           IN  /\ t \in sched.alive
               /\ kern.thread[t] = "runnable" => st \in {"QUEUED", "YIELDING", "PENDING"}
               /\ kern.thread[t] = "blocked" => st = "BLOCKED"
               /\ kern.thread[t] = "running" => (st = "BLOCKED" <=> chained)
  <1>1. /\ kern \in Kernel /\ sched \in Scheduler /\ KernelInv(kern) /\ Where(sched, t)
        /\ TaskLink(sched, kern, t) /\ kern.channel \in Seq(Message)
    BY Zenon DEF Invariant, Linked, KernelInv, Placed, Sane, Kernel
  <1>2. Quiet(sched, kern, t)
    BY <1>1, UnseenIs, Zenon DEF TaskLink
  <1>3. t \in sched.alive /\ sched.run_state[t] \in RunState
    BY <1>1, <1>2, Zenon DEF Quiet, Scheduler
  <1>4. \A c \in CPU : kern.running[c] = t => kern.thread[t] = "running"
    BY <1>1, SchedulerAssumption DEF KernelInv
  <1>5. OnChain(kern, t) <=> \E c \in CPU : kern.running[c] = t /\ kern.chain[c]
    BY DEF OnChain
  <1>6. OnChain(kern, t) => kern.thread[t] = "running"
    BY <1>4 DEF OnChain
  <1>7. CASE sched.run_state[t] = "BLOCKED"
    BY <1>2, <1>3, <1>5, <1>6, <1>7 DEF Quiet, Waits
  <1>8. CASE sched.run_state[t] \in {"QUEUED", "YIELDING"}
    BY <1>2, <1>3, <1>5, <1>8 DEF Quiet
  <1>9. ASSUME Own(kern, sched.cpu[t], t), sched.cpu[t] \in CPU
        PROVE  kern.thread[t] = "running" /\ ~OnChain(kern, t)
    BY <1>1, <1>4, <1>9, SchedulerAssumption DEF Own, OnChain, KernelInv
  <1>10. CASE sched.run_state[t] = "ON_CPU"
    BY <1>1, <1>2, <1>3, <1>5, <1>9, <1>10, Zenon DEF Quiet, Where
  <1>11. CASE sched.run_state[t] = "PENDING"
    <2>1. sched.cpu[t] \in CPU
      BY <1>1, <1>11, Zenon DEF Where
    <2>2. Own(kern, sched.cpu[t], t) \/ kern.thread[t] = "runnable"
      BY <1>2, <1>3, <1>11, Zenon DEF Quiet
    <2> QED BY <1>3, <1>5, <1>9, <1>11, <2>1, <2>2, Zenon
  <1> QED BY <1>3, <1>7, <1>8, <1>10, <1>11 DEF RunState

(* What the invariant says of the rest.                                    *)
LEMMA InvariantImplies ==
    ASSUME Invariant(sched, kern, agent)
    PROVE  TypeOK /\ NoCheckFails /\ CpuExclusive /\ NoThreadLost /\ BoostOrPreempted
             /\ AffinityHonoured
  <1>1. /\ Placed(sched) /\ Sane(sched) /\ sched \in Scheduler /\ sched.ok
        /\ KernelInv(kern) /\ kern \in Kernel /\ AgentLink(sched, kern, agent)
    BY Zenon DEF Invariant, Linked, KernelInv, Placed, Sane
  <1>2. TypeOK /\ NoCheckFails
    BY <1>1, Zenon DEF TypeOK, NoCheckFails, AgentLink
  <1>3. CpuExclusive
    BY <1>1, Zenon DEF CpuExclusive, Sane, Exclusive, AgentLink
  <1>4. NoThreadLost
    BY SeenIs DEF NoThreadLost
  <1>5. BoostOrPreempted
    <2>1. \A t \in Task : Flags(sched, t)
      BY <1>1 DEF Placed
    <2>2. sched.alive \subseteq Task
      BY <1>1, Zenon DEF Scheduler
    <2> QED BY <2>1, <2>2 DEF BoostOrPreempted, Flags
  <1>6. AffinityHonoured
    BY <1>1 DEF AffinityHonoured, KernelInv
  <1> QED BY <1>2, <1>3, <1>4, <1>5, <1>6

=============================================================================
