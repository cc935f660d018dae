------------------------------ MODULE ItemHeap ------------------------------
(***************************************************************************)
(* The heap of the JSON library (engine/thirdparty/cJSON.c) and the steps  *)
(* that link items into lists: an item has next and prev pointers, and an  *)
(* array or object points to its first item with child.                    *)
(***************************************************************************)
EXTENDS Naturals, FiniteSets, Sequences

CONSTANTS
    Item,       \* heap cells for items
    NULL,       \* the pointer to no item, and to no string
    Str,        \* heap cells for strings
    Key,        \* the names callers use, as copies or as literals
    Val         \* the texts of strings

NoStr == NULL
Types == {"Number", "String", "Array", "Object"}

ASSUME HeapAssumption ==
    /\ IsFiniteSet(Item)
    /\ IsFiniteSet(Str)
    /\ NULL \notin Item
    /\ Str \cap (Key \cup Val) = {}
    /\ NoStr \notin Str \cup Key \cup Val

FreeItem == [live |-> FALSE, type |-> "Number", ref |-> FALSE, const |-> FALSE,
             next |-> NULL, prev |-> NULL, child |-> NULL,
             string |-> NoStr, valuestring |-> NoStr]

(* An item as the struct cJSON declares it.                                *)
Cell == [live : BOOLEAN, type : Types, ref : BOOLEAN, const : BOOLEAN,
         next : Item \cup {NULL}, prev : Item \cup {NULL}, child : Item \cup {NULL},
         string : Str \cup Key \cup {NoStr}, valuestring : Str \cup Val \cup {NoStr}]

Heap == [item : [Item -> Cell], str : [Str -> Key \cup Val \cup {NoStr}], fault : BOOLEAN]

(***************************************************************************)
(* Memory.  fault is set by the first free of a cell that is not           *)
(* allocated and by the first write through a pointer to no item.          *)
(***************************************************************************)
Live(m, i) == i # NULL /\ m.item[i].live
Faulty(m) == [m EXCEPT !.fault = TRUE]

Put(m, i, field, value) ==
    IF Live(m, i) THEN [m EXCEPT !.item[i][field] = value] ELSE Faulty(m)

(***************************************************************************)
(* Linking items.                                                          *)
(***************************************************************************)
suffix_object(m, prev, i) == Put(Put(m, prev, "next", i), i, "prev", prev)

(* Item i becomes the last one of p; last is the one before it, if any.    *)
LinkLast(m, p, last, i) ==
    IF last = NULL THEN Put(m, p, "child", i) ELSE suffix_object(m, last, i)

(* Mutant: the next item keeps its prev.                                   *)
DetachKeepsPrev(m, p, i) ==
    LET c  == m.item[i]
        m1 == IF c.prev # NULL THEN Put(m, c.prev, "next", c.next) ELSE m
        m3 == IF i = m1.item[p].child THEN Put(m1, p, "child", c.next) ELSE m1
    IN  IF i = NULL THEN m ELSE Put(Put(m3, i, "prev", NULL), i, "next", NULL)

cJSON_DetachItemViaPointer(m, p, i) ==
    LET c  == m.item[i]
        m1 == IF c.prev # NULL THEN Put(m, c.prev, "next", c.next) ELSE m
        m2 == IF c.next # NULL THEN Put(m1, c.next, "prev", c.prev) ELSE m1
        m3 == IF i = m2.item[p].child THEN Put(m2, p, "child", c.next) ELSE m2
    IN  IF i = NULL THEN m ELSE Put(Put(m3, i, "prev", NULL), i, "next", NULL)

(* cJSON_InsertItemInArray, where the list has an item after i.            *)
InsertBefore(m, p, after, i) ==
    LET m1 == Put(Put(m, i, "next", after), i, "prev", m.item[after].prev)
        m2 == Put(m1, after, "prev", i)
    IN  IF after = m.item[p].child THEN Put(m2, p, "child", i)
        ELSE Put(m2, m2.item[i].prev, "next", i)

(* cJSON_ReplaceItemViaPointer, but for the deletion of i at its end.      *)
TakePlace(m, p, i, new) ==
    LET c  == m.item[i]
        m1 == Put(Put(m, new, "next", c.next), new, "prev", c.prev)
        m2 == IF c.next # NULL THEN Put(m1, c.next, "prev", new) ELSE m1
        m3 == IF c.prev # NULL THEN Put(m2, c.prev, "next", new) ELSE m2
        m4 == IF m3.item[p].child = i THEN Put(m3, p, "child", new) ELSE m3
    IN  Put(Put(m4, i, "next", NULL), i, "prev", NULL)

(***************************************************************************)
(* Lists that are properly linked.                                         *)
(***************************************************************************)
(* Item p owns the list it points to.                                      *)
Owns(m, p) == m.item[p].live /\ ~m.item[p].ref

(* prev mirrors next, no pointer of a list leads to freed memory, and the  *)
(* list of an item starts with an item that has no prev.                   *)
Mirrored(m) ==
    \A i \in Item : m.item[i].live =>
        /\ m.item[i].next # NULL =>
              Live(m, m.item[i].next) /\ m.item[m.item[i].next].prev = i
        /\ m.item[i].prev # NULL =>
              Live(m, m.item[i].prev) /\ m.item[m.item[i].prev].next = i
        /\ ~m.item[i].ref /\ m.item[i].child # NULL =>
              Live(m, m.item[i].child) /\ m.item[m.item[i].child].prev = NULL

(* No list has two owners.                                                 *)
OneOwner(m) ==
    \A p, q \in Item :
        Owns(m, p) /\ Owns(m, q) /\ m.item[p].child = m.item[q].child =>
            p = q \/ m.item[p].child = NULL

Sound(m) == m \in Heap /\ Mirrored(m) /\ OneOwner(m)

(* Item i is in no list.                                                   *)
Loose(m, i) ==
    /\ i \in Item /\ m.item[i].live
    /\ m.item[i].next = NULL /\ m.item[i].prev = NULL
    /\ \A p \in Item : Owns(m, p) => m.item[p].child # i

(* Item i is in the list of item p, as far as its own pointers tell.       *)
InList(m, p, i) ==
    /\ p \in Item /\ Owns(m, p) /\ i \in Item /\ m.item[i].live
    /\ m.item[i].prev = NULL => m.item[p].child = i

(* Item last is the last one of the list of p; NULL when p has no items.   *)
EndsWith(m, p, last) ==
    /\ p \in Item /\ Owns(m, p)
    /\ last = NULL => m.item[p].child = NULL
    /\ last # NULL => last \in Item /\ m.item[last].live /\ m.item[last].next = NULL

=============================================================================
