----------------------------- MODULE JsonProofs -----------------------------
(***************************************************************************)
(* The theorems about the JSON library: the steps that link items into     *)
(* lists keep every list of the heap properly linked.                      *)
(***************************************************************************)
EXTENDS ItemHeap, PrintBuffer, TLAPS

Pointer == Item \cup {NULL}

(* Heap r has the items of m; only pointers of lists may have changed.     *)
Relinked(m, r) ==
    /\ r \in Heap /\ r.fault = m.fault
    /\ \A j \in Item : r.item[j].live = m.item[j].live /\ r.item[j].ref = m.item[j].ref

(* The next pointer of item i, if there is such an item, has become v.     *)
SetsNext(m, r, i, v) ==
    /\ Relinked(m, r)
    /\ \A j \in Item : /\ r.item[j].next = IF j = i THEN v ELSE m.item[j].next
                       /\ r.item[j].prev = m.item[j].prev
                       /\ r.item[j].child = m.item[j].child

(* The prev pointer of item i has become v.                                *)
SetsPrev(m, r, i, v) ==
    /\ Relinked(m, r)
    /\ \A j \in Item : /\ r.item[j].prev = IF j = i THEN v ELSE m.item[j].prev
                       /\ r.item[j].next = m.item[j].next
                       /\ r.item[j].child = m.item[j].child

(* The child pointer of item i has become v.                               *)
SetsChild(m, r, i, v) ==
    /\ Relinked(m, r)
    /\ \A j \in Item : /\ r.item[j].child = IF j = i THEN v ELSE m.item[j].child
                       /\ r.item[j].next = m.item[j].next
                       /\ r.item[j].prev = m.item[j].prev

(* A write through a pointer to an item, of a cell c of the same item.     *)
LEMMA PutCell ==
    ASSUME NEW m \in Heap, NEW i \in Item, NEW c \in Cell,
           c.live = m.item[i].live, c.ref = m.item[i].ref
    PROVE  LET r == [m EXCEPT !.item = [m.item EXCEPT ![i] = c]] IN
           /\ Relinked(m, r) /\ r.item[i] = c
           /\ \A j \in Item \ {i} : r.item[j] = m.item[j]
  <1> DEFINE f == [m.item EXCEPT ![i] = c]
             r == [m EXCEPT !.item = f]
  <1>1. f \in [Item -> Cell] /\ f[i] = c /\ \A j \in Item \ {i} : f[j] = m.item[j]
    BY DEF Heap
  <1> HIDE DEF f
  <1>2. r \in Heap /\ r.item = f /\ r.fault = m.fault
    BY <1>1 DEF Heap
  <1> HIDE DEF r
  <1>3. Relinked(m, r)
    BY <1>1, <1>2 DEF Relinked
  <1> QED BY <1>1, <1>2, <1>3 DEF r, f

(* Writing next through a pointer to an item.                              *)
LEMMA PutNext ==
    ASSUME NEW m \in Heap, NEW i \in Item, m.item[i].live, NEW v \in Pointer
    PROVE  SetsNext(m, Put(m, i, "next", v), i, v)
  <1> DEFINE c == [m.item[i] EXCEPT !.next = v]
             r == [m EXCEPT !.item = [m.item EXCEPT ![i] = c]]
  <1>1. Put(m, i, "next", v) = r
    BY HeapAssumption DEF Put, Live, Heap
  <1>2. /\ c \in Cell /\ c.next = v /\ c.live = m.item[i].live /\ c.ref = m.item[i].ref
        /\ c.prev = m.item[i].prev /\ c.child = m.item[i].child
    <2>1. m.item[i] \in Cell
      BY DEF Heap
    <2> QED BY <2>1, Zenon DEF Cell, Pointer
  <1> HIDE DEF c
  <1>3. Relinked(m, r) /\ r.item[i] = c /\ \A j \in Item \ {i} : r.item[j] = m.item[j]
    BY <1>2, PutCell, Zenon
  <1> HIDE DEF r
  <1>4. SetsNext(m, r, i, v)
    <2>1. ASSUME NEW j \in Item, j = i PROVE r.item[j] = c
      BY <1>3, <2>1, Zenon
    <2>2. ASSUME NEW j \in Item, j # i PROVE r.item[j] = m.item[j]
      BY <1>3, <2>2, Zenon
    <2> QED BY <1>2, <1>3, <2>1, <2>2 DEF SetsNext
  <1> QED BY <1>1, <1>4

(* Writing prev through a pointer to an item.                              *)
LEMMA PutPrev ==
    ASSUME NEW m \in Heap, NEW i \in Item, m.item[i].live, NEW v \in Pointer
    PROVE  SetsPrev(m, Put(m, i, "prev", v), i, v)
  <1> DEFINE c == [m.item[i] EXCEPT !.prev = v]
             r == [m EXCEPT !.item = [m.item EXCEPT ![i] = c]]
  <1>1. Put(m, i, "prev", v) = r
    BY HeapAssumption, Zenon DEF Put, Live, Heap
  <1>2. /\ c \in Cell /\ c.prev = v /\ c.live = m.item[i].live /\ c.ref = m.item[i].ref
        /\ c.next = m.item[i].next /\ c.child = m.item[i].child
    <2>1. m.item[i] \in Cell
      BY DEF Heap
    <2> QED BY <2>1, Zenon DEF Cell, Pointer
  <1> HIDE DEF c
  <1>3. Relinked(m, r) /\ r.item[i] = c /\ \A j \in Item \ {i} : r.item[j] = m.item[j]
    BY <1>2, PutCell, Zenon
  <1> HIDE DEF r
  <1>4. SetsPrev(m, r, i, v)
    <2>1. ASSUME NEW j \in Item, j = i PROVE r.item[j] = c
      BY <1>3, <2>1, Zenon
    <2>2. ASSUME NEW j \in Item, j # i PROVE r.item[j] = m.item[j]
      BY <1>3, <2>2, Zenon
    <2> QED BY <1>2, <1>3, <2>1, <2>2 DEF SetsPrev
  <1> QED BY <1>1, <1>4

(* Writing child through a pointer to an item.                             *)
LEMMA PutChild ==
    ASSUME NEW m \in Heap, NEW i \in Item, m.item[i].live, NEW v \in Pointer
    PROVE  SetsChild(m, Put(m, i, "child", v), i, v)
  <1> DEFINE c == [m.item[i] EXCEPT !.child = v]
             r == [m EXCEPT !.item = [m.item EXCEPT ![i] = c]]
  <1>1. Put(m, i, "child", v) = r
    BY HeapAssumption, Zenon DEF Put, Live, Heap
  <1>2. /\ c \in Cell /\ c.child = v /\ c.live = m.item[i].live /\ c.ref = m.item[i].ref
        /\ c.next = m.item[i].next /\ c.prev = m.item[i].prev
    <2>1. m.item[i] \in Cell
      BY DEF Heap
    <2> QED BY <2>1, Zenon DEF Cell, Pointer
  <1> HIDE DEF c
  <1>3. Relinked(m, r) /\ r.item[i] = c /\ \A j \in Item \ {i} : r.item[j] = m.item[j]
    BY <1>2, PutCell, Zenon
  <1> HIDE DEF r
  <1>4. SetsChild(m, r, i, v)
    <2>1. ASSUME NEW j \in Item, j = i PROVE r.item[j] = c
      BY <1>3, <2>1, Zenon
    <2>2. ASSUME NEW j \in Item, j # i PROVE r.item[j] = m.item[j]
      BY <1>3, <2>2, Zenon
    <2> QED BY <1>2, <1>3, <2>1, <2>2 DEF SetsChild
  <1> QED BY <1>1, <1>4

(* Pointers that may be NULL are written only when they are not.            *)
LEMMA MayPutNext ==
    ASSUME NEW m \in Heap, NEW i \in Pointer, NEW v \in Pointer, i # NULL => Live(m, i)
    PROVE  SetsNext(m, IF i # NULL THEN Put(m, i, "next", v) ELSE m, i, v)
  <1>1. CASE i # NULL
    BY <1>1, PutNext DEF Pointer, Live
  <1>2. CASE i = NULL
    BY <1>2, HeapAssumption DEF SetsNext, Relinked
  <1> QED BY <1>1, <1>2

(* The same for prev.                                                      *)
LEMMA MayPutPrev ==
    ASSUME NEW m \in Heap, NEW i \in Pointer, NEW v \in Pointer, i # NULL => Live(m, i)
    PROVE  SetsPrev(m, IF i # NULL THEN Put(m, i, "prev", v) ELSE m, i, v)
  <1>1. CASE i # NULL
    BY <1>1, PutPrev DEF Pointer, Live
  <1>2. CASE i = NULL
    BY <1>2, HeapAssumption DEF SetsPrev, Relinked
  <1> QED BY <1>1, <1>2

(* The child pointer of item p leads to v if it led to i before.           *)
Redirects(m, r, p, i, v) ==
    /\ Relinked(m, r)
    /\ \A j \in Item : /\ r.item[j].child = IF j = p /\ m.item[p].child = i THEN v
                                              ELSE m.item[j].child
                       /\ r.item[j].next = m.item[j].next
                       /\ r.item[j].prev = m.item[j].prev

(* child is written when it points to i.                                   *)
LEMMA MayPutChild ==
    ASSUME NEW m \in Heap, NEW p \in Item, NEW i, NEW v \in Pointer, m.item[p].live
    PROVE  Redirects(m, IF m.item[p].child = i THEN Put(m, p, "child", v) ELSE m, p, i, v)
  <1>1. CASE m.item[p].child = i
    <2>1. SetsChild(m, Put(m, p, "child", v), p, v)
      BY PutChild
    <2> QED BY <1>1, <2>1 DEF SetsChild, Redirects
  <1>2. CASE m.item[p].child # i
    BY <1>2 DEF Redirects, Relinked
  <1> QED BY <1>1, <1>2

(* Item i is taken out of its list: what led to i leads to the item behind *)
(* it, or before it, and i is in no list.                                  *)
TakenOut(m, r, p, i) ==
    /\ Relinked(m, r)
    /\ \A j \in Item :
          /\ r.item[j].next = IF j = i THEN NULL
                              ELSE IF j = m.item[i].prev THEN m.item[i].next
                              ELSE m.item[j].next
          /\ r.item[j].prev = IF j = i THEN NULL
                              ELSE IF j = m.item[i].next THEN m.item[i].prev
                              ELSE m.item[j].prev
          /\ r.item[j].child = IF j = p /\ m.item[p].child = i THEN m.item[i].next
                               ELSE m.item[j].child

(* The pointers cJSON_DetachItemViaPointer leaves.                         *)
LEMMA DetachIs ==
    ASSUME NEW m, Sound(m), NEW p, NEW i, InList(m, p, i)
    PROVE  TakenOut(m, cJSON_DetachItemViaPointer(m, p, i), p, i)
  <1> DEFINE c == m.item[i]
             m1 == IF c.prev # NULL THEN Put(m, c.prev, "next", c.next) ELSE m
             m2 == IF c.next # NULL THEN Put(m1, c.next, "prev", c.prev) ELSE m1
             m3 == IF m2.item[p].child = i THEN Put(m2, p, "child", c.next) ELSE m2
             m4 == Put(m3, i, "prev", NULL)
             m5 == Put(m4, i, "next", NULL)
  <1>0. /\ m \in Heap /\ Mirrored(m) /\ p \in Item /\ i \in Item /\ i # NULL
        /\ m.item[i].live /\ m.item[p].live /\ NULL \in Pointer
    BY HeapAssumption DEF Sound, InList, Owns, Pointer
  <1>1. /\ c.prev \in Pointer /\ c.next \in Pointer
        /\ c.prev # NULL => Live(m, c.prev)
        /\ c.next # NULL => Live(m, c.next)
    <2>1. c \in Cell
      BY <1>0 DEF Heap
    <2> QED BY <1>0, <2>1 DEF Cell, Pointer, Mirrored
  <1>2. cJSON_DetachItemViaPointer(m, p, i) = m5
    BY <1>0, Zenon DEF cJSON_DetachItemViaPointer
  <1> HIDE DEF c
  <1>3. SetsNext(m, m1, c.prev, c.next)
    BY <1>0, <1>1, MayPutNext
  <1> HIDE DEF m1
  <1>4. SetsPrev(m1, m2, c.next, c.prev)
    <2>1. m1 \in Heap /\ (c.next # NULL => Live(m1, c.next))
      BY <1>1, <1>3 DEF SetsNext, Relinked, Live, Pointer
    <2> QED BY <1>1, <2>1, MayPutPrev
  <1> HIDE DEF m2
  <1>5. Redirects(m2, m3, p, i, c.next)
    <2>1. m2 \in Heap /\ m2.item[p].live
      BY <1>0, <1>3, <1>4 DEF SetsNext, SetsPrev, Relinked
    <2> QED BY <1>0, <1>1, <2>1, MayPutChild, Zenon
  <1> HIDE DEF m3
  <1>6. SetsPrev(m3, m4, i, NULL)
    <2>1. m3 \in Heap /\ m3.item[i].live
      BY <1>0, <1>3, <1>4, <1>5 DEF SetsNext, SetsPrev, Redirects, Relinked
    <2> QED BY <1>0, <2>1, PutPrev
  <1> HIDE DEF m4
  <1>7. SetsNext(m4, m5, i, NULL)
    <2>1. m4 \in Heap /\ m4.item[i].live
      BY <1>0, <1>3, <1>4, <1>5, <1>6 DEF SetsNext, SetsPrev, Redirects, Relinked
    <2> QED BY <1>0, <2>1, PutNext
  <1> HIDE DEF m5
  <1>8. Relinked(m, m5)
    BY <1>3, <1>4, <1>5, <1>6, <1>7 DEF SetsNext, SetsPrev, Redirects, Relinked
  <1>9. ASSUME NEW j \in Item
        PROVE  /\ m5.item[j].next = IF j = i THEN NULL ELSE IF j = c.prev THEN c.next
                                    ELSE m.item[j].next
               /\ m5.item[j].prev = IF j = i THEN NULL ELSE IF j = c.next THEN c.prev
                                    ELSE m.item[j].prev
               /\ m5.item[j].child = IF j = p /\ m.item[p].child = i THEN c.next
                                     ELSE m.item[j].child
    BY <1>0, <1>3, <1>4, <1>5, <1>6, <1>7 DEF SetsNext, SetsPrev, Redirects
  <1>10. TakenOut(m, m5, p, i)
    BY <1>8, <1>9 DEF TakenOut, c
  <1> QED BY <1>2, <1>10

(* What an item of the heap points to.                                     *)
LEMMA SoundFacts ==
    ASSUME NEW m, Sound(m), NEW j \in Item, m.item[j].live
    PROVE  /\ m.item[j].next \in Pointer /\ m.item[j].prev \in Pointer
           /\ m.item[j].child \in Pointer
           /\ m.item[j].next # NULL => /\ m.item[j].next \in Item
                                       /\ m.item[m.item[j].next].live
                                       /\ m.item[m.item[j].next].prev = j
           /\ m.item[j].prev # NULL => /\ m.item[j].prev \in Item
                                       /\ m.item[m.item[j].prev].live
                                       /\ m.item[m.item[j].prev].next = j
           /\ Owns(m, j) /\ m.item[j].child # NULL =>
                 /\ m.item[j].child \in Item
                 /\ m.item[m.item[j].child].live
                 /\ m.item[m.item[j].child].prev = NULL
  <1>1. m.item[j] \in Cell /\ Mirrored(m)
    BY DEF Sound, Heap
  <1>2. /\ m.item[j].next \in Pointer /\ m.item[j].prev \in Pointer
        /\ m.item[j].child \in Pointer
    BY <1>1 DEF Cell, Pointer
  <1> QED BY <1>1, <1>2 DEF Mirrored, Live, Owns, Pointer

(* The heap is properly linked if every item is.                           *)
LEMMA SoundIs ==
    ASSUME NEW m, m \in Heap, OneOwner(m),
           \A j \in Item : m.item[j].live =>
              /\ m.item[j].next # NULL => /\ m.item[m.item[j].next].live
                                          /\ m.item[m.item[j].next].prev = j
              /\ m.item[j].prev # NULL => /\ m.item[m.item[j].prev].live
                                          /\ m.item[m.item[j].prev].next = j
              /\ Owns(m, j) /\ m.item[j].child # NULL =>
                    /\ m.item[m.item[j].child].live
                    /\ m.item[m.item[j].child].prev = NULL
    PROVE  Sound(m)
  BY DEF Sound, Mirrored, Live, Owns

(* Every list ends: going along next, some rank of the items grows.        *)
Ordered(m) ==
    \E rank \in [Item -> Nat] : \A j \in Item :
        m.item[j].live /\ m.item[j].next # NULL => rank[m.item[j].next] > rank[j]

(* Every list of the heap is properly linked, and ends.                    *)
Proper(m) == Sound(m) /\ Ordered(m)

(* No item of a list that ends is its own neighbour.                       *)
LEMMA OrderedFacts ==
    ASSUME NEW m, Proper(m), NEW j \in Item, m.item[j].live
    PROVE  m.item[j].next # j /\ m.item[j].prev # j
  <1>1. PICK rank \in [Item -> Nat] : \A k \in Item :
           m.item[k].live /\ m.item[k].next # NULL => rank[m.item[k].next] > rank[k]
    BY DEF Proper, Ordered
  <1>2. m.item[j].next # j
    BY <1>1, HeapAssumption
  <1> QED BY <1>2, SoundFacts, HeapAssumption DEF Proper

(* A walk that follows child and next passes over item i.                  *)
Skips(m, r, i) ==
    \A j \in Item \ {i} : m.item[j].live =>
        /\ r.item[j].next = IF m.item[j].next = i THEN m.item[i].next ELSE m.item[j].next
        /\ Owns(m, j) => r.item[j].child = IF m.item[j].child = i THEN m.item[i].next
                                           ELSE m.item[j].child

(* Wherever it is in its list, an item that is detached leaves every list  *)
(* of the heap properly linked, no pointer to freed memory is written, the *)
(* item is in no list, and the lists are the ones before without the item  *)
(* (cJSON_DetachItemViaPointer).                                           *)
THEOREM DetachKeepsLists ==
    ASSUME NEW m, Proper(m), NEW p, NEW i, InList(m, p, i)
    PROVE  LET r == cJSON_DetachItemViaPointer(m, p, i) IN
           Proper(r) /\ r.fault = m.fault /\ Loose(r, i) /\ Skips(m, r, i)
  <1> DEFINE r == cJSON_DetachItemViaPointer(m, p, i)
  <1> Sound(m)
    BY DEF Proper
  <1>0. TakenOut(m, r, p, i)
    BY DetachIs
  <1> HIDE DEF r
  <1>1. /\ p \in Item /\ i \in Item /\ i # NULL /\ m.item[i].live /\ Owns(m, p)
        /\ m.item[i].prev = NULL => m.item[p].child = i
        /\ m.item[i].prev # NULL => m.item[p].child # i
    <2>1. p \in Item /\ i \in Item /\ m.item[i].live /\ Owns(m, p) /\ m.item[p].live
      BY DEF InList, Owns
    <2> QED BY <2>1, SoundFacts, HeapAssumption DEF InList
  <1>2. r \in Heap /\ r.fault = m.fault /\ \A j \in Item : Owns(r, j) <=> Owns(m, j)
    BY <1>0 DEF TakenOut, Relinked, Owns
  <1>3. ASSUME NEW j \in Item, r.item[j].live, r.item[j].next # NULL
        PROVE  r.item[r.item[j].next].live /\ r.item[r.item[j].next].prev = j
    <2>1. m.item[j].live /\ j # i
      BY <1>0, <1>3 DEF TakenOut, Relinked
    <2>2. CASE j = m.item[i].prev
      <3>1. r.item[j].next = m.item[i].next
        BY <1>0, <2>1, <2>2 DEF TakenOut
      <3> QED BY <1>0, <1>1, <1>3, <2>1, <2>2, <3>1, SoundFacts DEF TakenOut, Relinked
    <2>3. CASE j # m.item[i].prev
      <3>1. r.item[j].next = m.item[j].next
        BY <1>0, <2>1, <2>3 DEF TakenOut
      <3>2. /\ m.item[j].next \in Item /\ m.item[m.item[j].next].live
            /\ m.item[m.item[j].next].prev = j
        BY <1>3, <2>1, <3>1, SoundFacts
      <3>3. m.item[j].next # i
        BY <2>3, <3>2
      <3>4. m.item[j].next # m.item[i].next
        BY <1>1, <1>3, <2>1, <3>1, <3>2, SoundFacts
      <3> QED BY <1>0, <3>1, <3>2, <3>3, <3>4 DEF TakenOut, Relinked
    <2> QED BY <2>2, <2>3
  <1>4. ASSUME NEW j \in Item, r.item[j].live, r.item[j].prev # NULL
        PROVE  r.item[r.item[j].prev].live /\ r.item[r.item[j].prev].next = j
    <2>1. m.item[j].live /\ j # i
      BY <1>0, <1>4 DEF TakenOut, Relinked
    <2>2. CASE j = m.item[i].next
      <3>1. r.item[j].prev = m.item[i].prev
        BY <1>0, <2>1, <2>2 DEF TakenOut
      <3>2. /\ m.item[i].prev \in Item /\ m.item[m.item[i].prev].live
            /\ m.item[i].prev # i
        BY <1>1, <1>4, <3>1, SoundFacts, OrderedFacts
      <3>3. r.item[m.item[i].prev].next = j
        BY <1>0, <2>2, <3>2 DEF TakenOut
      <3> QED BY <1>0, <3>1, <3>2, <3>3 DEF TakenOut, Relinked
    <2>3. CASE j # m.item[i].next
      <3>1. r.item[j].prev = m.item[j].prev
        BY <1>0, <2>1, <2>3 DEF TakenOut
      <3>2. /\ m.item[j].prev \in Item /\ m.item[m.item[j].prev].live
            /\ m.item[m.item[j].prev].next = j
        BY <1>4, <2>1, <3>1, SoundFacts
      <3>3. m.item[j].prev # i
        BY <2>3, <3>2
      <3>4. m.item[j].prev # m.item[i].prev
        BY <1>1, <1>4, <2>1, <3>1, <3>2, SoundFacts
      <3> QED BY <1>0, <3>1, <3>2, <3>3, <3>4 DEF TakenOut, Relinked
    <2> QED BY <2>2, <2>3
  <1>5. ASSUME NEW j \in Item, Owns(r, j), r.item[j].child # NULL
        PROVE  /\ r.item[r.item[j].child].live /\ r.item[r.item[j].child].prev = NULL
               /\ r.item[j].child # i
               /\ \/ j = p /\ m.item[p].child = i /\ r.item[j].child = m.item[i].next
                  \/ m.item[j].child # i /\ r.item[j].child = m.item[j].child
    <2>1. Owns(m, j) /\ m.item[j].live
      BY <1>2, <1>5 DEF Owns
    <2>2. CASE j = p /\ m.item[p].child = i
      <3>1. r.item[j].child = m.item[i].next
        BY <1>0, <2>2 DEF TakenOut
      <3>2. m.item[i].prev = NULL
        BY <1>1, <2>2
      <3>3. m.item[i].next \in Item /\ m.item[m.item[i].next].live /\ m.item[m.item[i].next].prev = i
        BY <1>1, <1>5, <3>1, SoundFacts
      <3>4. m.item[i].next # i
        BY <1>1, <3>2, <3>3
      <3> QED BY <1>0, <2>2, <3>1, <3>2, <3>3, <3>4 DEF TakenOut, Relinked
    <2>3. CASE ~(j = p /\ m.item[p].child = i)
      <3>1. r.item[j].child = m.item[j].child
        BY <1>0, <2>3 DEF TakenOut
      <3>2. /\ m.item[j].child \in Item /\ m.item[m.item[j].child].live
            /\ m.item[m.item[j].child].prev = NULL
        BY <1>5, <2>1, <3>1, SoundFacts
      <3>3. m.item[j].child # i
        BY <1>1, <2>1, <2>3, <3>2 DEF Sound, OneOwner
      <3>4. m.item[j].child # m.item[i].next
        BY <1>1, <3>2, SoundFacts, HeapAssumption
      <3> QED BY <1>0, <3>1, <3>2, <3>3, <3>4 DEF TakenOut, Relinked
    <2> QED BY <2>2, <2>3
  <1>6. OneOwner(r)
    <2> SUFFICES ASSUME NEW j \in Item, NEW k \in Item, Owns(r, j), Owns(r, k),
                        r.item[j].child = r.item[k].child, r.item[j].child # NULL
                 PROVE  j = k
      BY DEF OneOwner
    <2>1. /\ \/ j = p /\ m.item[p].child = i /\ r.item[j].child = m.item[i].next
             \/ m.item[j].child # i /\ r.item[j].child = m.item[j].child
          /\ \/ k = p /\ m.item[p].child = i /\ r.item[k].child = m.item[i].next
             \/ m.item[k].child # i /\ r.item[k].child = m.item[k].child
      BY <1>5
    <2>2. Owns(m, j) /\ Owns(m, k) /\ m.item[j].live /\ m.item[k].live
      BY <1>2 DEF Owns
    <2>3. CASE r.item[j].child = m.item[j].child /\ r.item[k].child = m.item[k].child
      BY <2>2, <2>3, Zenon DEF Sound, OneOwner
    <2>4. ASSUME NEW h \in Item, Owns(m, h), m.item[h].live, m.item[h].child = m.item[i].next,
                 m.item[i].next # NULL
          PROVE  FALSE
      BY <1>1, <2>4, SoundFacts
    <2>5. CASE r.item[j].child = m.item[i].next /\ r.item[k].child = m.item[k].child
      BY <2>2, <2>4, <2>5, Zenon
    <2>6. CASE r.item[k].child = m.item[i].next /\ r.item[j].child = m.item[j].child
      BY <2>2, <2>4, <2>6
    <2> QED BY <2>1, <2>3, <2>5, <2>6
  <1>7. Sound(r)
    BY <1>2, <1>3, <1>4, <1>5, <1>6, SoundIs
  <1>8. Loose(r, i)
    BY <1>0, <1>1, <1>5, HeapAssumption DEF Loose, TakenOut, Relinked
  <1>9. ASSUME NEW j \in Item \ {i}, m.item[j].live
        PROVE  /\ r.item[j].next = IF m.item[j].next = i THEN m.item[i].next ELSE m.item[j].next
               /\ Owns(m, j) => r.item[j].child = IF m.item[j].child = i THEN m.item[i].next
                                                  ELSE m.item[j].child
    <2>1. m.item[j].next = i <=> j = m.item[i].prev
      BY <1>1, <1>9, HeapAssumption, SoundFacts
    <2>2. Owns(m, j) /\ m.item[j].child = i => j = p
      <3> SUFFICES ASSUME Owns(m, j), m.item[j].child = i PROVE j = p
        OBVIOUS
      <3>1. m.item[i].prev = NULL
        BY <1>1, <1>9, SoundFacts
      <3> QED BY <1>1, <3>1 DEF Sound, OneOwner
    <2> QED BY <1>0, <1>9, <2>1, <2>2 DEF TakenOut
  <1>10. Skips(m, r, i)
    BY <1>9 DEF Skips
  <1>11. Ordered(r)
    <2>1. PICK rank \in [Item -> Nat] : \A j \in Item :
             m.item[j].live /\ m.item[j].next # NULL => rank[m.item[j].next] > rank[j]
      BY DEF Proper, Ordered
    <2>2. ASSUME NEW j \in Item, r.item[j].live, r.item[j].next # NULL
          PROVE  rank[r.item[j].next] > rank[j]
      <3>1. j # i /\ m.item[j].live
        BY <1>0, <2>2 DEF TakenOut, Relinked
      <3>2. CASE m.item[j].next = i
        <4>1. r.item[j].next = m.item[i].next /\ m.item[i].next \in Item
          BY <1>1, <1>9, <2>2, <3>1, <3>2, SoundFacts
        <4>2. rank[m.item[i].next] > rank[i] /\ rank[i] > rank[j]
          BY <1>1, <2>1, <2>2, <3>1, <3>2, <4>1
        <4> QED BY <1>1, <4>1, <4>2
      <3>3. CASE m.item[j].next # i
        BY <1>9, <2>1, <2>2, <3>1, <3>3
      <3> QED BY <3>2, <3>3
    <2> QED BY <2>2 DEF Ordered
  <1> QED BY <1>2, <1>7, <1>8, <1>10, <1>11 DEF r, Proper

(* Item i is put before item after: what led to after leads to i.          *)
PutBefore(m, r, p, after, i) ==
    /\ Relinked(m, r)
    /\ \A j \in Item :
          /\ r.item[j].next = IF j = m.item[after].prev THEN i
                              ELSE IF j = i THEN after ELSE m.item[j].next
          /\ r.item[j].prev = IF j = after THEN i
                              ELSE IF j = i THEN m.item[after].prev ELSE m.item[j].prev
          /\ r.item[j].child = IF j = p /\ m.item[p].child = after THEN i
                               ELSE m.item[j].child

(* The pointers cJSON_InsertItemInArray leaves.                            *)
LEMMA InsertIs ==
    ASSUME NEW m, Sound(m), NEW p, NEW after, NEW i, InList(m, p, after), Loose(m, i),
           i # after
    PROVE  PutBefore(m, InsertBefore(m, p, after, i), p, after, i)
  <1> DEFINE b == m.item[after].prev
             m0 == Put(m, i, "next", after)
             m1 == Put(m0, i, "prev", b)
             m2 == Put(m1, after, "prev", i)
             r == InsertBefore(m, p, after, i)
  <1>0. /\ m \in Heap /\ p \in Item /\ after \in Item /\ i \in Item /\ i # NULL
        /\ m.item[i].live /\ m.item[p].live /\ m.item[after].live /\ Owns(m, p)
        /\ after \in Pointer /\ i \in Pointer
        /\ b = NULL => m.item[p].child = after
    BY HeapAssumption DEF Sound, InList, Owns, Pointer, Loose
  <1>1. /\ b \in Pointer /\ (b # NULL => b \in Item /\ m.item[b].live)
        /\ m.item[p].child = after => b = NULL
    BY <1>0, SoundFacts, HeapAssumption
  <1>2. r = IF after = m.item[p].child THEN Put(m2, p, "child", i)
            ELSE Put(m2, m2.item[i].prev, "next", i)
    BY DEF InsertBefore
  <1> HIDE DEF b, r
  <1>3. SetsNext(m, m0, i, after)
    BY <1>0, PutNext
  <1> HIDE DEF m0
  <1>4. SetsPrev(m0, m1, i, b)
    <2>1. m0 \in Heap /\ m0.item[i].live
      BY <1>0, <1>3 DEF SetsNext, Relinked
    <2> QED BY <1>0, <1>1, <2>1, PutPrev
  <1> HIDE DEF m1
  <1>5. SetsPrev(m1, m2, after, i)
    <2>1. m1 \in Heap /\ m1.item[after].live
      BY <1>0, <1>3, <1>4 DEF SetsNext, SetsPrev, Relinked
    <2> QED BY <1>0, <2>1, PutPrev
  <1> HIDE DEF m2
  <1>6. /\ m2 \in Heap /\ m2.item[i].prev = b /\ m2.item[p].live
        /\ b # NULL => m2.item[b].live
    BY <1>0, <1>1, <1>3, <1>4, <1>5 DEF SetsNext, SetsPrev, Relinked
  <1>7. ASSUME after = m.item[p].child PROVE PutBefore(m, r, p, after, i)
    <2>1. SetsChild(m2, r, p, i) /\ b = NULL
      BY <1>0, <1>1, <1>2, <1>6, <1>7, PutChild
    <2>2. Relinked(m, r)
      BY <1>3, <1>4, <1>5, <2>1 DEF SetsNext, SetsPrev, SetsChild, Relinked
    <2>3. ASSUME NEW j \in Item
          PROVE  /\ r.item[j].next = IF j = b THEN i ELSE IF j = i THEN after ELSE m.item[j].next
                 /\ r.item[j].prev = IF j = after THEN i ELSE IF j = i THEN b ELSE m.item[j].prev
                 /\ r.item[j].child = IF j = p THEN i ELSE m.item[j].child
      <3>1. j # b
        BY <2>1, HeapAssumption
      <3>2. r.item[j].next = IF j = i THEN after ELSE m.item[j].next
        BY <1>3, <1>4, <1>5, <2>1 DEF SetsNext, SetsPrev, SetsChild
      <3>3. r.item[j].prev = IF j = after THEN i ELSE IF j = i THEN b ELSE m.item[j].prev
        BY <1>3, <1>4, <1>5, <2>1 DEF SetsNext, SetsPrev, SetsChild
      <3>4. r.item[j].child = IF j = p THEN i ELSE m.item[j].child
        BY <1>3, <1>4, <1>5, <2>1 DEF SetsNext, SetsPrev, SetsChild
      <3> QED BY <3>1, <3>2, <3>3, <3>4
    <2>4. ASSUME NEW j \in Item
          PROVE  /\ r.item[j].next = IF j = m.item[after].prev THEN i
                                     ELSE IF j = i THEN after ELSE m.item[j].next
                 /\ r.item[j].prev = IF j = after THEN i
                                     ELSE IF j = i THEN m.item[after].prev ELSE m.item[j].prev
                 /\ r.item[j].child = IF j = p /\ m.item[p].child = after THEN i
                                      ELSE m.item[j].child
      BY <1>7, <2>3 DEF b
    <2> QED BY <2>2, <2>4 DEF PutBefore
  <1>8. ASSUME after # m.item[p].child PROVE PutBefore(m, r, p, after, i)
    <2>1. SetsNext(m2, r, b, i)
      BY <1>0, <1>1, <1>2, <1>6, <1>8, PutNext
    <2>2. Relinked(m, r)
      BY <1>3, <1>4, <1>5, <2>1 DEF SetsNext, SetsPrev, Relinked
    <2>3. ASSUME NEW j \in Item
          PROVE  /\ r.item[j].next = IF j = b THEN i ELSE IF j = i THEN after ELSE m.item[j].next
                 /\ r.item[j].prev = IF j = after THEN i ELSE IF j = i THEN b ELSE m.item[j].prev
                 /\ r.item[j].child = m.item[j].child
      <3>1. r.item[j].next = IF j = b THEN i ELSE IF j = i THEN after ELSE m.item[j].next
        BY <1>3, <1>4, <1>5, <2>1 DEF SetsNext, SetsPrev
      <3>2. r.item[j].prev = IF j = after THEN i ELSE IF j = i THEN b ELSE m.item[j].prev
        BY <1>3, <1>4, <1>5, <2>1 DEF SetsNext, SetsPrev
      <3>3. r.item[j].child = m.item[j].child
        BY <1>3, <1>4, <1>5, <2>1 DEF SetsNext, SetsPrev
      <3> QED BY <3>1, <3>2, <3>3
    <2>4. ASSUME NEW j \in Item
          PROVE  /\ r.item[j].next = IF j = m.item[after].prev THEN i
                                     ELSE IF j = i THEN after ELSE m.item[j].next
                 /\ r.item[j].prev = IF j = after THEN i
                                     ELSE IF j = i THEN m.item[after].prev ELSE m.item[j].prev
                 /\ r.item[j].child = IF j = p /\ m.item[p].child = after THEN i
                                      ELSE m.item[j].child
      BY <1>8, <2>3 DEF b
    <2> QED BY <2>2, <2>4 DEF PutBefore
  <1> QED BY <1>7, <1>8 DEF r

(* A walk that follows child and next comes to item i before item after.   *)
Gains(m, r, after, i) ==
    /\ r.item[i].next = after
    /\ \A j \in Item \ {i} : m.item[j].live =>
          /\ r.item[j].next = IF m.item[j].next = after THEN i ELSE m.item[j].next
          /\ Owns(m, j) => r.item[j].child = IF m.item[j].child = after THEN i
                                             ELSE m.item[j].child

(* An item that is inserted before another, wherever that is in its list,  *)
(* leaves every list of the heap properly linked, no pointer to freed      *)
(* memory is written, and the lists are the ones before with the item      *)
(* before the other (cJSON_InsertItemInArray).                             *)
THEOREM InsertKeepsLists ==
    ASSUME NEW m, Proper(m), NEW p, NEW after, NEW i, InList(m, p, after), Loose(m, i),
           i # after
    PROVE  LET r == InsertBefore(m, p, after, i) IN
           Proper(r) /\ r.fault = m.fault /\ InList(r, p, i) /\ Gains(m, r, after, i)
  <1> DEFINE r == InsertBefore(m, p, after, i)
             b == m.item[after].prev
  <1> Sound(m)
    BY DEF Proper
  <1>0. PutBefore(m, r, p, after, i)
    BY InsertIs
  <1> HIDE DEF r
  <1>1. /\ p \in Item /\ after \in Item /\ i \in Item /\ i # NULL /\ m.item[i].live
        /\ m.item[after].live /\ Owns(m, p) /\ m.item[p].live
        /\ m.item[i].next = NULL /\ m.item[i].prev = NULL
        /\ \A q \in Item : Owns(m, q) => m.item[q].child # i
        /\ b = NULL => m.item[p].child = after
    BY HeapAssumption DEF InList, Owns, Loose
  <1>2. /\ b \in Pointer /\ b # i
        /\ b # NULL => b \in Item /\ m.item[b].live /\ m.item[b].next = after
        /\ m.item[p].child = after => b = NULL
    BY <1>1, SoundFacts, HeapAssumption
  <1>3. r \in Heap /\ r.fault = m.fault /\ \A j \in Item : Owns(r, j) <=> Owns(m, j)
    BY <1>0 DEF PutBefore, Relinked, Owns
  <1> HIDE DEF b
  <1>4. /\ r.item[i].next = after /\ r.item[i].prev = b /\ r.item[after].prev = i
        /\ b # NULL => r.item[b].next = i
        /\ \A j \in Item : r.item[j].live = m.item[j].live
        /\ \A j \in Item \ {i, b} : r.item[j].next = m.item[j].next
        /\ \A j \in Item \ {i, after} : r.item[j].prev = m.item[j].prev
        /\ \A j \in Item : r.item[j].child = IF j = p /\ m.item[p].child = after THEN i
                                              ELSE m.item[j].child
    BY <1>0, <1>1, <1>2 DEF PutBefore, Relinked, b
  <1> DEFINE n(j) == m.item[j].next
             v(j) == m.item[j].prev
  <1>5. ASSUME NEW j \in Item, r.item[j].live, r.item[j].next # NULL
        PROVE  r.item[r.item[j].next].live /\ r.item[r.item[j].next].prev = j
    <2>1. CASE j \in {i, b}
      <3>1. CASE j = i
        BY <1>1, <1>4, <3>1
      <3>2. CASE j = b
        <4>1. b # NULL
          BY <3>2, HeapAssumption
        <4> QED BY <1>1, <1>4, <3>2, <4>1
      <3> QED BY <2>1, <3>1, <3>2
    <2>2. CASE j \notin {i, b}
      <3>1. m.item[j].live /\ r.item[j].next = n(j) /\ n(j) # NULL
        BY <1>4, <1>5, <2>2
      <3>2. n(j) \in Item /\ m.item[n(j)].live /\ v(n(j)) = j
        BY <3>1, SoundFacts
      <3>3. n(j) \notin {i, after}
        BY <1>1, <2>2, <3>2, HeapAssumption DEF b
      <3> QED BY <1>4, <3>1, <3>2, <3>3
    <2> QED BY <2>1, <2>2
  <1>6. ASSUME NEW j \in Item, r.item[j].live, r.item[j].prev # NULL
        PROVE  r.item[r.item[j].prev].live /\ r.item[r.item[j].prev].next = j
    <2>1. CASE j \in {i, after}
      BY <1>1, <1>2, <1>4, <1>6, <2>1
    <2>2. CASE j \notin {i, after}
      <3>1. m.item[j].live /\ r.item[j].prev = v(j) /\ v(j) # NULL
        BY <1>4, <1>6, <2>2
      <3>2. v(j) \in Item /\ m.item[v(j)].live /\ n(v(j)) = j
        BY <3>1, SoundFacts
      <3>3. v(j) \notin {i, b}
        BY <1>1, <1>2, <2>2, <3>1, <3>2, HeapAssumption
      <3> QED BY <1>4, <3>1, <3>2, <3>3
    <2> QED BY <2>1, <2>2
  <1>7. ASSUME NEW j \in Item, Owns(r, j), r.item[j].child # NULL
        PROVE  r.item[r.item[j].child].live /\ r.item[r.item[j].child].prev = NULL
    <2>1. CASE j = p /\ m.item[p].child = after
      BY <1>1, <1>2, <1>4, <2>1
    <2>2. CASE ~(j = p /\ m.item[p].child = after)
      <3>1. r.item[j].child = m.item[j].child /\ Owns(m, j) /\ m.item[j].live
        BY <1>3, <1>4, <1>7, <2>2 DEF Owns
      <3>2. /\ m.item[j].child \in Item /\ m.item[m.item[j].child].live
            /\ v(m.item[j].child) = NULL
        BY <1>7, <3>1, SoundFacts
      <3>3. m.item[j].child # i
        BY <1>1, <3>1
      <3>4. m.item[j].child # after
        <4>1. SUFFICES ASSUME m.item[j].child = after PROVE FALSE
          OBVIOUS
        <4>2. m.item[p].child = after
          BY <1>1, <3>2, <4>1 DEF b
        <4> QED BY <1>1, <1>7, <2>2, <3>1, <4>1, <4>2 DEF Sound, OneOwner
      <3> QED BY <1>4, <3>1, <3>2, <3>3, <3>4
    <2> QED BY <2>1, <2>2
  <1>8. OneOwner(r)
    <2> SUFFICES ASSUME NEW j \in Item, NEW k \in Item, Owns(r, j), Owns(r, k),
                        r.item[j].child = r.item[k].child, r.item[j].child # NULL
                 PROVE  j = k
      BY DEF OneOwner
    <2>1. Owns(m, j) /\ Owns(m, k) /\ m.item[j].child # i /\ m.item[k].child # i
      BY <1>1, <1>3
    <2>2. CASE r.item[j].child = i
      <3>1. j = p
        BY <1>4, <2>1, <2>2
      <3>2. k = p
        BY <1>4, <2>1, <2>2, Zenon
      <3> QED BY <3>1, <3>2
    <2>3. CASE r.item[j].child # i
      <3>1. r.item[j].child = m.item[j].child /\ r.item[k].child = m.item[k].child
        BY <1>4, <2>3
      <3> QED BY <2>1, <3>1, Zenon DEF Sound, OneOwner
    <2> QED BY <2>2, <2>3
  <1>9. Sound(r)
    BY <1>3, <1>5, <1>6, <1>7, <1>8, SoundIs
  <1>10. InList(r, p, i)
    BY <1>1, <1>3, <1>4 DEF InList
  <1>11. ASSUME NEW j \in Item \ {i}, m.item[j].live
         PROVE  /\ r.item[j].next = IF m.item[j].next = after THEN i ELSE m.item[j].next
                /\ Owns(m, j) => r.item[j].child = IF m.item[j].child = after THEN i
                                                   ELSE m.item[j].child
    <2>1. m.item[j].next = after <=> j = b
      <3>1. n(j) = after => v(after) = j
        BY <1>1, <1>11, SoundFacts, HeapAssumption
      <3>2. b # NULL => n(b) = after
        BY <1>2
      <3> QED BY <1>11, <3>1, <3>2, HeapAssumption DEF b
    <2>2. Owns(m, j) /\ m.item[j].child = after => j = p
      <3> SUFFICES ASSUME Owns(m, j), m.item[j].child = after PROVE j = p
        OBVIOUS
      <3>1. v(after) = NULL
        BY <1>1, <1>11, SoundFacts, HeapAssumption
      <3>2. m.item[p].child = after
        BY <1>1, <3>1 DEF b
      <3> QED BY <1>1, <3>2, HeapAssumption DEF Sound, OneOwner
    <2> QED BY <1>1, <1>2, <1>4, <1>11, <2>1, <2>2, HeapAssumption
  <1>12. Gains(m, r, after, i)
    BY <1>4, <1>11 DEF Gains
  <1>13. Ordered(r)
    <2>1. PICK rank \in [Item -> Nat] : \A j \in Item :
             m.item[j].live /\ m.item[j].next # NULL => rank[m.item[j].next] > rank[j]
      BY DEF Proper, Ordered
    <2> DEFINE new == [j \in Item |-> IF j = i THEN 2 * rank[after] + 1 ELSE 2 * rank[j] + 2]
    <2>2. new \in [Item -> Nat]
      BY <1>1
    <2>3. ASSUME NEW j \in Item, r.item[j].live, r.item[j].next # NULL
          PROVE  new[r.item[j].next] > new[j]
      <3>1. CASE j = i
        <4>1. new[after] = 2 * rank[after] + 2 /\ new[i] = 2 * rank[after] + 1
          BY <1>1
        <4>2. rank[after] \in Nat
          BY <1>1
        <4> QED BY <1>4, <3>1, <4>1, <4>2
      <3>2. CASE j # i /\ m.item[j].next = after
        <4>1. r.item[j].next = i /\ rank[after] > rank[j]
          BY <1>1, <1>4, <1>11, <2>1, <2>3, <3>2, HeapAssumption
        <4>2. new[j] = 2 * rank[j] + 2 /\ new[i] = 2 * rank[after] + 1
          BY <1>1, <3>2
        <4>3. rank[after] \in Nat /\ rank[j] \in Nat
          BY <1>1
        <4> QED BY <4>1, <4>2, <4>3
      <3>3. CASE j # i /\ m.item[j].next # after
        <4>1. m.item[j].live /\ r.item[j].next = n(j) /\ rank[n(j)] > rank[j]
          BY <1>4, <1>11, <2>1, <2>3, <3>3
        <4>2. n(j) \in Item /\ v(n(j)) = j
          BY <2>3, <4>1, SoundFacts
        <4>3. n(j) # i
          BY <1>1, <4>2, HeapAssumption
        <4>4. new[j] = 2 * rank[j] + 2 /\ new[n(j)] = 2 * rank[n(j)] + 2
          BY <3>3, <4>2, <4>3
        <4>5. rank[n(j)] \in Nat /\ rank[j] \in Nat
          BY <4>2
        <4> QED BY <4>1, <4>4, <4>5
      <3> QED BY <3>1, <3>2, <3>3
    <2> HIDE DEF new
    <2> QED BY <2>2, <2>3 DEF Ordered
  <1> QED BY <1>3, <1>9, <1>10, <1>12, <1>13 DEF r, Proper

(* Item new takes the place of item i: what led to i leads to new, and i   *)
(* is in no list.                                                          *)
TookPlace(m, r, p, i, new) ==
    /\ Relinked(m, r)
    /\ \A j \in Item :
          /\ r.item[j].next = IF j = i THEN NULL ELSE IF j = m.item[i].prev THEN new
                              ELSE IF j = new THEN m.item[i].next ELSE m.item[j].next
          /\ r.item[j].prev = IF j = i THEN NULL ELSE IF j = m.item[i].next THEN new
                              ELSE IF j = new THEN m.item[i].prev ELSE m.item[j].prev
          /\ r.item[j].child = IF j = p /\ m.item[p].child = i THEN new ELSE m.item[j].child

(* The pointers cJSON_ReplaceItemViaPointer leaves.                        *)
LEMMA ReplaceIs ==
    ASSUME NEW m, Sound(m), NEW p, NEW i, NEW new, InList(m, p, i), Loose(m, new), new # i
    PROVE  TookPlace(m, TakePlace(m, p, i, new), p, i, new)
  <1> DEFINE n == m.item[i].next
             b == m.item[i].prev
             m0 == Put(m, new, "next", n)
             m1 == Put(m0, new, "prev", b)
             m2 == IF n # NULL THEN Put(m1, n, "prev", new) ELSE m1
             m3 == IF b # NULL THEN Put(m2, b, "next", new) ELSE m2
             m4 == IF m3.item[p].child = i THEN Put(m3, p, "child", new) ELSE m3
             m5 == Put(m4, i, "next", NULL)
             m6 == Put(m5, i, "prev", NULL)
  <1>0. /\ m \in Heap /\ p \in Item /\ i \in Item /\ new \in Item /\ new \in Pointer
        /\ m.item[i].live /\ m.item[p].live /\ m.item[new].live /\ NULL \in Pointer
    BY HeapAssumption DEF Sound, InList, Owns, Pointer, Loose
  <1>1. /\ n \in Pointer /\ b \in Pointer
        /\ n # NULL => n \in Item /\ m.item[n].live
        /\ b # NULL => b \in Item /\ m.item[b].live
    BY <1>0, SoundFacts
  <1>2. TakePlace(m, p, i, new) = m6
    BY DEF TakePlace
  <1> HIDE DEF n, b
  <1>3. SetsNext(m, m0, new, n)
    BY <1>0, <1>1, PutNext
  <1> HIDE DEF m0
  <1>4. SetsPrev(m0, m1, new, b)
    <2>1. m0 \in Heap /\ m0.item[new].live
      BY <1>0, <1>3 DEF SetsNext, Relinked
    <2> QED BY <1>0, <1>1, <2>1, PutPrev
  <1> HIDE DEF m1
  <1>5. SetsPrev(m1, m2, n, new)
    <2>1. m1 \in Heap /\ (n # NULL => Live(m1, n))
      BY <1>1, <1>3, <1>4 DEF SetsNext, SetsPrev, Relinked, Live
    <2> QED BY <1>0, <1>1, <2>1, MayPutPrev
  <1> HIDE DEF m2
  <1>6. SetsNext(m2, m3, b, new)
    <2>1. m2 \in Heap /\ (b # NULL => Live(m2, b))
      BY <1>1, <1>3, <1>4, <1>5 DEF SetsNext, SetsPrev, Relinked, Live
    <2> QED BY <1>0, <1>1, <2>1, MayPutNext
  <1> HIDE DEF m3
  <1>7. Redirects(m3, m4, p, i, new)
    <2>1. m3 \in Heap /\ m3.item[p].live
      BY <1>0, <1>3, <1>4, <1>5, <1>6 DEF SetsNext, SetsPrev, Relinked
    <2> QED BY <1>0, <2>1, MayPutChild, Zenon
  <1> HIDE DEF m4
  <1>8. SetsNext(m4, m5, i, NULL)
    <2>1. m4 \in Heap /\ m4.item[i].live
      BY <1>0, <1>3, <1>4, <1>5, <1>6, <1>7 DEF SetsNext, SetsPrev, Redirects, Relinked
    <2> QED BY <1>0, <2>1, PutNext
  <1> HIDE DEF m5
  <1>9. SetsPrev(m5, m6, i, NULL)
    <2>1. m5 \in Heap /\ m5.item[i].live
      BY <1>0, <1>3, <1>4, <1>5, <1>6, <1>7, <1>8 DEF SetsNext, SetsPrev, Redirects, Relinked
    <2> QED BY <1>0, <2>1, PutPrev
  <1> HIDE DEF m6
  <1>10. Relinked(m, m6)
    BY <1>3, <1>4, <1>5, <1>6, <1>7, <1>8, <1>9 DEF SetsNext, SetsPrev, Redirects, Relinked
  <1>11. ASSUME NEW j \in Item
         PROVE  /\ m6.item[j].next = IF j = i THEN NULL ELSE IF j = b THEN new
                                     ELSE IF j = new THEN n ELSE m.item[j].next
                /\ m6.item[j].prev = IF j = i THEN NULL ELSE IF j = n THEN new
                                     ELSE IF j = new THEN b ELSE m.item[j].prev
                /\ m6.item[j].child = IF j = p /\ m.item[p].child = i THEN new
                                      ELSE m.item[j].child
    <2>1. m6.item[j].next = IF j = i THEN NULL ELSE IF j = b THEN new
                            ELSE IF j = new THEN n ELSE m.item[j].next
      BY <1>3, <1>4, <1>5, <1>6, <1>7, <1>8, <1>9 DEF SetsNext, SetsPrev, Redirects
    <2>2. m6.item[j].prev = IF j = i THEN NULL ELSE IF j = n THEN new
                            ELSE IF j = new THEN b ELSE m.item[j].prev
      BY <1>3, <1>4, <1>5, <1>6, <1>7, <1>8, <1>9 DEF SetsNext, SetsPrev, Redirects
    <2>3. m6.item[j].child = IF j = p /\ m.item[p].child = i THEN new ELSE m.item[j].child
      BY <1>0, <1>3, <1>4, <1>5, <1>6, <1>7, <1>8, <1>9 DEF SetsNext, SetsPrev, Redirects
    <2> QED BY <2>1, <2>2, <2>3
  <1>12. TookPlace(m, m6, p, i, new)
    BY <1>10, <1>11 DEF TookPlace, n, b
  <1> QED BY <1>2, <1>12

(* A walk that follows child and next comes to new where it came to i.     *)
Takes(m, r, i, new) ==
    /\ r.item[new].next = m.item[i].next
    /\ \A j \in Item \ {i, new} : m.item[j].live =>
          r.item[j].next = IF m.item[j].next = i THEN new ELSE m.item[j].next
    /\ \A j \in Item : Owns(m, j) =>
          r.item[j].child = IF m.item[j].child = i THEN new ELSE m.item[j].child

(* An item that takes the place of another, wherever that is in its list,  *)
(* leaves every list of the heap properly linked, no pointer to freed      *)
(* memory is written, the other is in no list (and may be deleted without  *)
(* its neighbours), and the lists are the ones before with the one item    *)
(* for the other (cJSON_ReplaceItemViaPointer).                            *)
THEOREM ReplaceKeepsLists ==
    ASSUME NEW m, Proper(m), NEW p, NEW i, NEW new, InList(m, p, i), Loose(m, new), new # i
    PROVE  LET r == TakePlace(m, p, i, new) IN
           /\ Proper(r) /\ r.fault = m.fault
           /\ Loose(r, i) /\ InList(r, p, new) /\ Takes(m, r, i, new)
  <1> DEFINE r == TakePlace(m, p, i, new)
             n(j) == m.item[j].next
             v(j) == m.item[j].prev
  <1> Sound(m)
    BY DEF Proper
  <1>0. TookPlace(m, r, p, i, new)
    BY ReplaceIs
  <1> HIDE DEF r
  <1>1. /\ p \in Item /\ i \in Item /\ new \in Item /\ Owns(m, p)
        /\ m.item[i].live /\ m.item[new].live /\ m.item[p].live
        /\ n(new) = NULL /\ v(new) = NULL
        /\ \A q \in Item : Owns(m, q) => m.item[q].child # new
        /\ v(i) = NULL => m.item[p].child = i
        /\ i # NULL /\ new # NULL
    BY HeapAssumption DEF InList, Owns, Loose
  <1>2. /\ n(i) # i /\ v(i) # i
        /\ n(i) # NULL => n(i) \in Item /\ m.item[n(i)].live /\ v(n(i)) = i
        /\ v(i) # NULL => v(i) \in Item /\ m.item[v(i)].live /\ n(v(i)) = i
    BY <1>1, SoundFacts, OrderedFacts
  <1>3. n(i) # new /\ v(i) # new
    BY <1>1, <1>2
  <1>4. r \in Heap /\ r.fault = m.fault /\ \A j \in Item : Owns(r, j) <=> Owns(m, j)
    BY <1>0 DEF TookPlace, Relinked, Owns
  <1>5. /\ r.item[new].next = n(i) /\ r.item[new].prev = v(i)
        /\ r.item[i].next = NULL /\ r.item[i].prev = NULL
        /\ n(i) # NULL => r.item[n(i)].prev = new
        /\ v(i) # NULL => r.item[v(i)].next = new
        /\ \A j \in Item : r.item[j].live = m.item[j].live
        /\ \A j \in Item \ {i, new, v(i)} : r.item[j].next = n(j)
        /\ \A j \in Item \ {i, new, n(i)} : r.item[j].prev = v(j)
        /\ \A j \in Item : r.item[j].child = IF j = p /\ m.item[p].child = i THEN new
                                             ELSE m.item[j].child
    BY <1>0, <1>1, <1>2, <1>3 DEF TookPlace, Relinked
  <1>6. ASSUME NEW j \in Item, r.item[j].live, r.item[j].next # NULL
        PROVE  r.item[r.item[j].next].live /\ r.item[r.item[j].next].prev = j
    <2>1. CASE j = new
      BY <1>2, <1>5, <1>6, <2>1
    <2>2. CASE j = v(i)
      BY <1>1, <1>5, <2>2, HeapAssumption, Zenon
    <2>3. CASE j \notin {i, new, v(i)}
      <3>1. m.item[j].live /\ r.item[j].next = n(j) /\ n(j) # NULL
        BY <1>5, <1>6, <2>3
      <3>2. n(j) \in Item /\ m.item[n(j)].live /\ v(n(j)) = j
        BY <3>1, SoundFacts
      <3>3. n(j) \notin {i, new, n(i)}
        BY <1>1, <1>2, <2>3, <3>2, HeapAssumption
      <3> QED BY <1>5, <3>1, <3>2, <3>3
    <2> QED BY <1>5, <1>6, <2>1, <2>2, <2>3
  <1>7. ASSUME NEW j \in Item, r.item[j].live, r.item[j].prev # NULL
        PROVE  r.item[r.item[j].prev].live /\ r.item[r.item[j].prev].next = j
    <2>1. CASE j = new
      BY <1>2, <1>5, <1>7, <2>1
    <2>2. CASE j = n(i)
      BY <1>1, <1>5, <2>2, HeapAssumption, Zenon
    <2>3. CASE j \notin {i, new, n(i)}
      <3>1. m.item[j].live /\ r.item[j].prev = v(j) /\ v(j) # NULL
        BY <1>5, <1>7, <2>3
      <3>2. v(j) \in Item /\ m.item[v(j)].live /\ n(v(j)) = j
        BY <3>1, SoundFacts
      <3>3. v(j) \notin {i, new, v(i)}
        BY <1>1, <1>2, <2>3, <3>2, HeapAssumption
      <3> QED BY <1>5, <3>1, <3>2, <3>3
    <2> QED BY <1>5, <1>7, <2>1, <2>2, <2>3
  <1>8. ASSUME NEW j \in Item, Owns(m, j)
        PROVE  r.item[j].child = IF m.item[j].child = i THEN new ELSE m.item[j].child
    <2>1. m.item[j].child = i => j = p
      <3> SUFFICES ASSUME m.item[j].child = i PROVE j = p
        OBVIOUS
      <3>1. v(i) = NULL
        BY <1>1, <1>8, SoundFacts DEF Owns
      <3> QED BY <1>1, <1>8, <3>1 DEF Sound, OneOwner
    <2> QED BY <1>5, <2>1
  <1>9. ASSUME NEW j \in Item, Owns(r, j), r.item[j].child # NULL
        PROVE  r.item[r.item[j].child].live /\ r.item[r.item[j].child].prev = NULL
    <2>1. Owns(m, j) /\ m.item[j].live
      BY <1>4, <1>9 DEF Owns
    <2>2. CASE m.item[j].child = i
      <3>1. v(i) = NULL
        BY <1>1, <2>1, <2>2, SoundFacts
      <3> QED BY <1>1, <1>5, <1>8, <2>1, <2>2, <3>1
    <2>3. CASE m.item[j].child # i
      <3>1. /\ m.item[j].child \in Item /\ m.item[m.item[j].child].live
            /\ v(m.item[j].child) = NULL
        BY <1>8, <1>9, <2>1, <2>3, SoundFacts
      <3>2. m.item[j].child # n(i)
        BY <1>1, <1>2, <3>1, HeapAssumption
      <3>3. m.item[j].child \notin {i, new, n(i)}
        BY <1>1, <2>1, <2>3, <3>2
      <3> QED BY <1>5, <1>8, <2>1, <2>3, <3>1, <3>3
    <2> QED BY <2>2, <2>3
  <1>10. OneOwner(r)
    <2> SUFFICES ASSUME NEW j \in Item, NEW k \in Item, Owns(r, j), Owns(r, k),
                        r.item[j].child = r.item[k].child, r.item[j].child # NULL
                 PROVE  j = k
      BY DEF OneOwner
    <2>1. Owns(m, j) /\ Owns(m, k) /\ m.item[j].child # new /\ m.item[k].child # new
      BY <1>1, <1>4
    <2>2. m.item[j].child = m.item[k].child /\ m.item[j].child # NULL
      BY <1>1, <1>8, <2>1
    <2> QED BY <2>1, <2>2 DEF Sound, OneOwner
  <1>11. Sound(r)
    BY <1>4, <1>6, <1>7, <1>9, <1>10, SoundIs
  <1>12. Loose(r, i)
    BY <1>1, <1>4, <1>5, <1>8 DEF Loose
  <1>13. InList(r, p, new)
    BY <1>1, <1>4, <1>5 DEF InList
  <1>14. Takes(m, r, i, new)
    <2>1. ASSUME NEW j \in Item \ {i, new}, m.item[j].live
          PROVE  r.item[j].next = IF n(j) = i THEN new ELSE n(j)
      <3>1. n(j) = i => j = v(i)
        BY <1>1, <2>1, SoundFacts
      <3> QED BY <1>2, <1>5, <2>1, <3>1, HeapAssumption
    <2> QED BY <1>5, <1>8, <2>1 DEF Takes
  <1>15. Ordered(r)
    <2>1. PICK rank \in [Item -> Nat] : \A j \in Item :
             m.item[j].live /\ m.item[j].next # NULL => rank[m.item[j].next] > rank[j]
      BY DEF Proper, Ordered
    <2> DEFINE then == [rank EXCEPT ![new] = rank[i]]
    <2>2. /\ then \in [Item -> Nat] /\ then[new] = rank[i]
          /\ \A j \in Item \ {new} : then[j] = rank[j]
      BY <1>1
    <2> HIDE DEF then
    <2>3. ASSUME NEW j \in Item, r.item[j].live, r.item[j].next # NULL
          PROVE  then[r.item[j].next] > then[j]
      <3>1. CASE j = new
        <4>1. n(i) \in Item /\ n(i) # new /\ rank[n(i)] > rank[i]
          BY <1>1, <1>2, <1>3, <1>5, <2>1, <2>3, <3>1
        <4> QED BY <1>5, <2>2, <3>1, <4>1
      <3>2. CASE j = v(i)
        <4>1. rank[i] > rank[j]
          BY <1>1, <1>2, <2>1, <3>2, HeapAssumption
        <4> QED BY <1>3, <1>5, <2>2, <3>2, <4>1, HeapAssumption
      <3>3. CASE j \notin {i, new, v(i)}
        <4>1. m.item[j].live /\ r.item[j].next = n(j) /\ rank[n(j)] > rank[j] /\ n(j) # NULL
          BY <1>5, <2>1, <2>3, <3>3
        <4>2. n(j) \in Item /\ v(n(j)) = j
          BY <4>1, SoundFacts
        <4>3. n(j) # new
          BY <1>1, <4>2, HeapAssumption
        <4> QED BY <2>2, <3>3, <4>1, <4>2, <4>3
      <3> QED BY <1>5, <2>3, <3>1, <3>2, <3>3
    <2> QED BY <2>2, <2>3 DEF Ordered
  <1> QED BY <1>4, <1>11, <1>12, <1>13, <1>14, <1>15 DEF r, Proper

(* A walk that follows child and next comes to item i behind item last.    *)
Continues(m, r, p, last, i) ==
    /\ r.item[i].next = NULL
    /\ \A j \in Item : r.item[j].next = IF j = last THEN i ELSE m.item[j].next
    /\ \A j \in Item : r.item[j].child = IF last = NULL /\ j = p THEN i ELSE m.item[j].child

(* The pointers that are left when item i becomes the last one.            *)
LEMMA LinkIs ==
    ASSUME NEW m, Sound(m), NEW p, NEW last, NEW i, EndsWith(m, p, last), Loose(m, i), i # last
    PROVE  LET r == LinkLast(m, p, last, i) IN
           /\ Relinked(m, r) /\ Continues(m, r, p, last, i)
           /\ \A j \in Item : r.item[j].prev = IF j = i THEN last ELSE m.item[j].prev
  <1> DEFINE m1 == Put(m, last, "next", i)
             r == LinkLast(m, p, last, i)
  <1>0. /\ m \in Heap /\ p \in Item /\ i \in Item /\ m.item[i].live /\ m.item[p].live
        /\ m.item[i].next = NULL /\ m.item[i].prev = NULL /\ i \in Pointer /\ NULL \notin Item
    BY HeapAssumption DEF Sound, EndsWith, Owns, Loose, Pointer
  <1>1. ASSUME last = NULL
        PROVE  /\ Relinked(m, r) /\ Continues(m, r, p, last, i)
               /\ \A j \in Item : r.item[j].prev = IF j = i THEN last ELSE m.item[j].prev
    <2>1. SetsChild(m, r, p, i)
      BY <1>0, <1>1, PutChild DEF LinkLast
    <2> HIDE DEF r
    <2> QED BY <1>0, <1>1, <2>1 DEF SetsChild, Continues
  <1>2. ASSUME last # NULL
        PROVE  /\ Relinked(m, r) /\ Continues(m, r, p, last, i)
               /\ \A j \in Item : r.item[j].prev = IF j = i THEN last ELSE m.item[j].prev
    <2>0. last \in Item /\ m.item[last].live /\ last \in Pointer
      BY <1>2 DEF EndsWith, Pointer
    <2>1. SetsNext(m, m1, last, i)
      BY <1>0, <2>0, PutNext
    <2>2. r = Put(m1, i, "prev", last)
      BY <1>2 DEF LinkLast, suffix_object
    <2> HIDE DEF m1, r
    <2>3. SetsPrev(m1, r, i, last)
      <3>1. m1 \in Heap /\ m1.item[i].live
        BY <1>0, <2>1 DEF SetsNext, Relinked
      <3> QED BY <1>0, <2>0, <2>2, <3>1, PutPrev
    <2>4. Relinked(m, r)
      BY <2>1, <2>3 DEF SetsNext, SetsPrev, Relinked
    <2>5. ASSUME NEW j \in Item
          PROVE  /\ r.item[j].next = IF j = last THEN i ELSE m.item[j].next
                 /\ r.item[j].prev = IF j = i THEN last ELSE m.item[j].prev
                 /\ r.item[j].child = m.item[j].child
      BY <2>1, <2>3 DEF SetsNext, SetsPrev
    <2> QED BY <1>0, <1>2, <2>4, <2>5 DEF Continues
  <1> QED BY <1>1, <1>2

(* An item that is put behind the last one of a list, or becomes the first *)
(* one of an empty list, leaves every list of the heap properly linked, no *)
(* pointer to freed memory is written, and the lists are the ones before   *)
(* with the item at the end of one (add_item_to_array, and the loops of    *)
(* cJSON_Duplicate and the functions that create arrays).                  *)
THEOREM AddKeepsLists ==
    ASSUME NEW m, Proper(m), NEW p, NEW last, NEW i, EndsWith(m, p, last), Loose(m, i), i # last
    PROVE  LET r == LinkLast(m, p, last, i) IN
           /\ Proper(r) /\ r.fault = m.fault
           /\ InList(r, p, i) /\ EndsWith(r, p, i) /\ Continues(m, r, p, last, i)
  <1> DEFINE r == LinkLast(m, p, last, i)
             n(j) == m.item[j].next
             v(j) == m.item[j].prev
  <1> Sound(m)
    BY DEF Proper
  <1>0. /\ Relinked(m, r) /\ Continues(m, r, p, last, i)
        /\ \A j \in Item : r.item[j].prev = IF j = i THEN last ELSE v(j)
    BY LinkIs
  <1> HIDE DEF r
  <1>1. /\ p \in Item /\ i \in Item /\ m.item[i].live /\ Owns(m, p) /\ NULL \notin Item
        /\ n(i) = NULL /\ v(i) = NULL /\ \A q \in Item : Owns(m, q) => m.item[q].child # i
        /\ last = NULL => m.item[p].child = NULL
        /\ last # NULL => last \in Item /\ m.item[last].live /\ n(last) = NULL
    BY HeapAssumption DEF EndsWith, Loose
  <1>2. /\ r \in Heap /\ r.fault = m.fault
        /\ \A j \in Item : /\ Owns(r, j) <=> Owns(m, j)
                           /\ r.item[j].live = m.item[j].live
                           /\ r.item[j].next = IF j = last THEN i ELSE n(j)
                           /\ r.item[j].prev = IF j = i THEN last ELSE v(j)
                           /\ r.item[j].child = IF last = NULL /\ j = p THEN i
                                                ELSE m.item[j].child
    BY <1>0 DEF Relinked, Owns, Continues
  <1>3. ASSUME NEW j \in Item, r.item[j].live, r.item[j].next # NULL
        PROVE  r.item[r.item[j].next].live /\ r.item[r.item[j].next].prev = j
    <2>1. CASE j = last
      BY <1>1, <1>2, <2>1
    <2>2. CASE j # last
      <3>1. n(j) \in Item /\ m.item[n(j)].live /\ v(n(j)) = j /\ r.item[j].next = n(j)
        BY <1>2, <1>3, <2>2, SoundFacts
      <3>2. n(j) # i
        BY <1>1, <3>1
      <3> QED BY <1>2, <3>1, <3>2
    <2> QED BY <2>1, <2>2
  <1>4. ASSUME NEW j \in Item, r.item[j].live, r.item[j].prev # NULL
        PROVE  r.item[r.item[j].prev].live /\ r.item[r.item[j].prev].next = j
    <2>1. CASE j = i
      BY <1>1, <1>2, <1>4, <2>1
    <2>2. CASE j # i
      <3>1. v(j) \in Item /\ m.item[v(j)].live /\ n(v(j)) = j /\ r.item[j].prev = v(j)
        BY <1>2, <1>4, <2>2, SoundFacts
      <3>2. v(j) # last
        BY <1>1, <3>1
      <3> QED BY <1>2, <3>1, <3>2
    <2> QED BY <2>1, <2>2
  <1>5. ASSUME NEW j \in Item, Owns(r, j), r.item[j].child # NULL
        PROVE  r.item[r.item[j].child].live /\ r.item[r.item[j].child].prev = NULL
    <2>1. CASE last = NULL /\ j = p
      BY <1>1, <1>2, <2>1
    <2>2. CASE ~(last = NULL /\ j = p)
      <3>1. Owns(m, j) /\ m.item[j].live /\ r.item[j].child = m.item[j].child
        BY <1>2, <1>5, <2>2 DEF Owns
      <3>2. /\ m.item[j].child \in Item /\ m.item[m.item[j].child].live
            /\ v(m.item[j].child) = NULL /\ m.item[j].child # i
        BY <1>1, <1>5, <3>1, SoundFacts
      <3> QED BY <1>2, <3>1, <3>2
    <2> QED BY <2>1, <2>2
  <1>6. OneOwner(r)
    <2> SUFFICES ASSUME NEW j \in Item, NEW k \in Item, Owns(r, j), Owns(r, k),
                        r.item[j].child = r.item[k].child, r.item[j].child # NULL
                 PROVE  j = k
      BY DEF OneOwner
    <2>1. Owns(m, j) /\ Owns(m, k) /\ m.item[j].child # i /\ m.item[k].child # i
      BY <1>1, <1>2
    <2>2. CASE r.item[j].child = i
      BY <1>2, <2>1, <2>2, Zenon
    <2>3. CASE r.item[j].child # i
      <3>1. m.item[j].child = m.item[k].child /\ m.item[j].child # NULL
        BY <1>2, <2>3
      <3> QED BY <2>1, <3>1 DEF Sound, OneOwner
    <2> QED BY <2>2, <2>3
  <1>7. Sound(r)
    BY <1>2, <1>3, <1>4, <1>5, <1>6, SoundIs, Zenon
  <1>8. InList(r, p, i) /\ EndsWith(r, p, i)
    BY <1>1, <1>2 DEF InList, EndsWith
  <1>9. Ordered(r)
    <2>1. PICK rank \in [Item -> Nat] : \A j \in Item :
             m.item[j].live /\ m.item[j].next # NULL => rank[m.item[j].next] > rank[j]
      BY DEF Proper, Ordered
    <2>2. CASE last = NULL
      <3>1. \A j \in Item : r.item[j].live /\ r.item[j].next # NULL =>
               rank[r.item[j].next] > rank[j]
        BY <1>1, <1>2, <2>1, <2>2
      <3> QED BY <3>1 DEF Ordered
    <2>3. CASE last # NULL
      <3> DEFINE then == [rank EXCEPT ![i] = rank[last] + 1]
      <3>1. /\ then \in [Item -> Nat] /\ then[i] = rank[last] + 1
            /\ \A j \in Item \ {i} : then[j] = rank[j]
        BY <1>1, <2>3
      <3> HIDE DEF then
      <3>2. ASSUME NEW j \in Item, r.item[j].live, r.item[j].next # NULL
            PROVE  then[r.item[j].next] > then[j]
        <4>1. CASE j = last
          BY <1>1, <1>2, <2>3, <3>1, <4>1
        <4>2. CASE j # last
          <5>1. n(j) \in Item /\ v(n(j)) = j /\ r.item[j].next = n(j) /\ rank[n(j)] > rank[j]
            BY <1>2, <2>1, <3>2, <4>2, SoundFacts
          <5>2. n(j) # i /\ j # i
            BY <1>1, <1>2, <3>2, <5>1
          <5> QED BY <3>1, <5>1, <5>2
        <4> QED BY <4>1, <4>2
      <3> QED BY <3>1, <3>2 DEF Ordered
    <2> QED BY <2>2, <2>3
  <1> QED BY <1>0, <1>2, <1>7, <1>8, <1>9 DEF r, Proper

(***************************************************************************)
(* The buffer that is printed into.                                        *)
(***************************************************************************)
Buffers == [buffer : BOOLEAN, length : Nat, offset : Nat, depth : Int, noalloc : BOOLEAN,
            format : BOOLEAN, left : Nat, end : Int, out : Seq(STRING), ok : BOOLEAN,
            over : BOOLEAN]

(* The offset is inside the buffer, or at the start of one of no bytes.    *)
Inside(p) == p.ok => p.buffer /\ (p.offset < p.length \/ p.offset = 0)

(* The bytes up to n behind the offset are in the buffer.                  *)
Room(p, n) == p.offset + n <= p.length

(* The reasons to refuse needed more bytes: the buffer is the caller's and *)
(* too small, no int can count the bytes, or there is no memory.           *)
Reason(p, needed) ==
    /\ ~Room(p, needed + 1)
    /\ p.noalloc \/ p.offset + needed + 1 > INT_MAX \/ p.left = 0

(* Nothing but the size of the buffer, and the memory left, has changed.   *)
Resized(p, r) ==
    /\ r \in Buffers /\ r.buffer = p.buffer /\ r.offset = p.offset /\ r.ok = p.ok
    /\ r.over = p.over /\ r.end = p.end /\ r.out = p.out /\ r.noalloc = p.noalloc
    /\ r.length = p.length \/ (~p.noalloc /\ r.length \in p.length .. INT_MAX)

(* ensure returns a buffer with the bytes asked for and one to spare, that *)
(* is never larger than an int can count if it had to grow, and refuses    *)
(* only for a reason.                                                      *)
LEMMA EnsureIs ==
    ASSUME NEW p \in Buffers, p.ok, Inside(p), NEW needed \in Nat, needed < INT_MAX
    PROVE  LET r == ensure(p, needed) IN
           \/ Resized(p, r) /\ Room(r, needed + 1)
           \/ Reason(p, needed) /\ ~r.ok /\ r \in Buffers /\ r.over = p.over
  <1> DEFINE all == Wanted(p, needed)
             newsize == IF all > INT_MAX \div 2 THEN INT_MAX ELSE all * 2
             r == ensure(p, needed)
  <1>1. /\ all = p.offset + needed + 1 /\ all \in Nat /\ p.length \in Nat /\ p.offset \in Nat
        /\ p.buffer /\ p.left \in Nat /\ INT_MAX \in Nat
    BY BufferAssumption DEF Wanted, Buffers, Inside
  <1>2. ~(~p.buffer \/ (p.length > 0 /\ p.offset >= p.length) \/ needed > INT_MAX)
    BY <1>1 DEF Inside
  <1>3. CASE all <= p.length
    <2>1. r = p
      BY <1>2, <1>3 DEF ensure
    <2>2. Resized(p, p)
      BY DEF Resized
    <2>3. Room(p, needed + 1)
      BY <1>1, <1>3 DEF Room
    <2> QED BY <2>1, <2>2, <2>3
  <1>4. CASE ~(all <= p.length) /\ (p.noalloc \/ TooLarge(all))
    <2>1. r = Refused(p)
      BY <1>2, <1>4 DEF ensure
    <2>2. ~r.ok /\ r \in Buffers /\ r.over = p.over
      BY <2>1, Zenon DEF Refused, Buffers
    <2> QED BY <1>1, <1>4, <2>2 DEF Reason, Room, TooLarge
  <1>5. CASE ~(all <= p.length) /\ ~(p.noalloc \/ TooLarge(all)) /\ p.left = 0
    <2> DEFINE lost == [p EXCEPT !.buffer = FALSE, !.length = 0]
    <2>1. r = Refused(lost)
      BY <1>2, <1>5 DEF ensure
    <2>0. lost \in Buffers /\ lost.over = p.over
      BY Zenon DEF Buffers
    <2> HIDE DEF lost
    <2>2. ~r.ok /\ r \in Buffers /\ r.over = p.over
      BY <2>0, <2>1, Zenon DEF Refused, Buffers
    <2> QED BY <1>1, <1>5, <2>2 DEF Reason, Room
  <1>6. CASE ~(all <= p.length) /\ ~(p.noalloc \/ TooLarge(all)) /\ p.left # 0
    <2>1. r = [p EXCEPT !.length = newsize, !.left = @ - 1]
      BY <1>2, <1>6 DEF ensure
    <2>2. newsize \in all .. INT_MAX
      BY <1>1, <1>6 DEF TooLarge
    <2>3. newsize \in Nat /\ p.left - 1 \in Nat
      BY <1>1, <1>6, <2>2
    <2> HIDE DEF newsize
    <2>4. /\ r \in Buffers /\ r.buffer = p.buffer /\ r.offset = p.offset /\ r.ok = p.ok
          /\ r.over = p.over /\ r.end = p.end /\ r.out = p.out /\ r.noalloc = p.noalloc
          /\ r.length = newsize
      BY <2>1, <2>3, Zenon DEF Buffers
    <2> QED BY <1>1, <1>6, <2>2, <2>4 DEF Resized, Room
  <1> QED BY <1>3, <1>4, <1>5, <1>6

(* Writing at most one byte more than was asked for, and moving the offset *)
(* by no more than was asked for, stays inside the buffer, so that the     *)
(* next call of ensure finds its offset there, and a text that ends in a   *)
(* NUL ends inside the buffer and not before the offset; the write is      *)
(* refused only when the caller's buffer is too small, the size exceeds    *)
(* INT_MAX or memory is short, and then nothing is written (ensure and     *)
(* every function that prints with it).                                    *)
THEOREM EmitStaysInside ==
    ASSUME NEW p \in Buffers, Inside(p), ~p.over,
           NEW needed \in Nat, needed < INT_MAX, NEW tokens \in Seq(STRING),
           NEW bytes \in Nat, bytes <= needed + 1, NEW closed \in BOOLEAN,
           NEW advance \in Nat, advance <= needed
    PROVE  LET r == Emit(p, needed, tokens, bytes, closed, advance) IN
           /\ r \in Buffers /\ Inside(r) /\ ~r.over
           /\ p.ok /\ ~r.ok => Reason(p, needed)
           /\ r.ok => /\ r.offset = p.offset + advance /\ r.out = p.out \o tokens
                      /\ r.offset < r.length
                      /\ r.length = p.length \/ (~p.noalloc /\ r.length \in p.length .. INT_MAX)
                      /\ closed /\ advance < bytes => r.end \in r.offset .. r.length - 1
  <1> DEFINE q == ensure(p, needed)
             r == Emit(p, needed, tokens, bytes, closed, advance)
  <1>1. CASE ~p.ok
    <2>1. r = p
      BY <1>1 DEF Emit
    <2> QED BY <1>1, <2>1
  <1>2. CASE p.ok
    <2>1. r = Write(q, tokens, bytes, closed, advance)
      BY <1>2 DEF Emit
    <2>2. \/ Resized(p, q) /\ Room(q, needed + 1)
          \/ Reason(p, needed) /\ ~q.ok /\ q \in Buffers /\ q.over = p.over
      BY <1>2, EnsureIs
    <2> HIDE DEF q
    <2>3. CASE ~q.ok
      <3>1. r = q
        BY <2>1, <2>3 DEF Write
      <3>2. Reason(p, needed) /\ q \in Buffers /\ q.over = p.over
        BY <1>2, <2>2, <2>3, Zenon DEF Resized
      <3> QED BY <2>3, <3>1, <3>2 DEF Inside
    <2>4. CASE q.ok
      <3> DEFINE over == q.over \/ q.offset + bytes > q.length
                 end == IF closed THEN q.offset + bytes - 1 ELSE -1
      <3>1. Resized(p, q) /\ Room(q, needed + 1)
        BY <2>2, <2>4
      <3>2. /\ q \in Buffers /\ q.offset = p.offset /\ q.over = p.over /\ q.out = p.out
            /\ q.length \in Nat /\ q.offset \in Nat /\ q.buffer = p.buffer /\ q.out \in Seq(STRING)
            /\ q.length = p.length \/ (~p.noalloc /\ q.length \in p.length .. INT_MAX)
        BY <3>1 DEF Resized, Buffers
      <3>3. r = [q EXCEPT !.out = q.out \o tokens, !.over = over, !.end = end,
                          !.offset = q.offset + advance]
        BY <2>1, <2>4 DEF Write
      <3>4. over = FALSE
        BY <3>1, <3>2 DEF Room
      <3>5. end \in Int /\ (closed /\ advance < bytes =>
                              end \in q.offset + advance .. q.length - 1)
        BY <3>1, <3>2 DEF Room
      <3>6. q.out \o tokens \in Seq(STRING) /\ q.offset + advance \in Nat
        BY <3>2
      <3> HIDE DEF over, end
      <3>7. /\ r \in Buffers /\ r.over = over /\ r.end = end /\ r.offset = q.offset + advance
            /\ r.length = q.length /\ r.out = q.out \o tokens /\ r.ok = q.ok
            /\ r.buffer = q.buffer
        BY <3>2, <3>3, <3>4, <3>5, <3>6, Zenon DEF Buffers
      <3>8. r.offset < r.length
        BY <3>1, <3>2, <3>7 DEF Room
      <3>9. Inside(r)
        BY <1>2, <3>2, <3>7, <3>8 DEF Inside
      <3>10. /\ r.offset = p.offset + advance /\ r.out = p.out \o tokens
             /\ r.length = p.length \/ (~p.noalloc /\ r.length \in p.length .. INT_MAX)
             /\ closed /\ advance < bytes => r.end \in r.offset .. r.length - 1
        BY <3>2, <3>5, <3>7
      <3>11. r.ok /\ ~r.over
        BY <2>4, <3>4, <3>7
      <3> HIDE DEF r
      <3> QED BY <3>7, <3>8, <3>9, <3>10, <3>11, Zenon DEF r
    <2> QED BY <2>3, <2>4
  <1> QED BY <1>1, <1>2

(* After a text that ends in a NUL inside the buffer, update_offset moves  *)
(* the offset onto that NUL and reads nothing outside the buffer.          *)
THEOREM UpdateStaysInside ==
    ASSUME NEW p \in Buffers, Inside(p), ~p.over, p.ok => p.end \in p.offset .. p.length - 1
    PROVE  LET r == update_offset(p) IN
           /\ r \in Buffers /\ Inside(r) /\ ~r.over
           /\ p.ok => r.ok /\ r.offset = p.end /\ r.length = p.length
  <1> DEFINE r == update_offset(p)
             over == p.over \/ p.end < p.offset
  <1>1. CASE ~p.ok
    <2>1. r = p
      BY <1>1 DEF update_offset
    <2> QED BY <1>1, <2>1
  <1>2. CASE p.ok
    <2>1. p.buffer /\ p.end \in Nat /\ p.length \in Nat /\ p.end < p.length
      BY <1>2 DEF Inside, Buffers
    <2>2. r = [p EXCEPT !.offset = p.end, !.over = over]
      BY <1>2, <2>1 DEF update_offset
    <2>3. over = FALSE
      BY <1>2, <2>1 DEF Buffers
    <2> HIDE DEF over
    <2>4. /\ r \in Buffers /\ r.offset = p.end /\ r.over = over /\ r.length = p.length
          /\ r.ok = p.ok /\ r.buffer = p.buffer
      BY <2>1, <2>2, <2>3, Zenon DEF Buffers
    <2> QED BY <1>2, <2>1, <2>3, <2>4 DEF Inside
  <1> QED BY <1>1, <1>2

=============================================================================
