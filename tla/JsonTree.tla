------------------------------ MODULE JsonTree ------------------------------
(***************************************************************************)
(* The item trees of the JSON library (engine/thirdparty/cJSON.c): items   *)
(* are heap cells linked by next, prev and child; names and string values  *)
(* are heap cells of their own, or literals of the caller.  Every public   *)
(* function that builds or changes a tree is an action.  Memory runs out   *)
(* when the cells do, so every allocation of every call fails in some      *)
(* behaviour.                                                              *)
(*                                                                         *)
(* The caller keeps to the header: it passes pointers it got from the      *)
(* library, adds only items that are in no tree, and leaves a tree alone   *)
(* as long as a reference to a part of it exists ("don't want to corrupt   *)
(* your existing cJSON").  Values are abstracted to the type; null, true,  *)
(* false and numbers are "Number", strings and raw text are "String".      *)
(***************************************************************************)
EXTENDS ItemHeap, SequencesExt

CONSTANTS
    Fold,       \* Fold[k]: k in lower case
    Kind,       \* the types of items the callers create
    MaxHeld,    \* bound on the trees a caller has at a time
    MaxRef      \* bound on the references that exist at a time

ASSUME TreeAssumption ==
    /\ Fold \in [Key -> Key]
    /\ Kind \subseteq Types
    /\ MaxHeld \in Nat
    /\ MaxRef \in Nat

VARIABLES
    mem,        \* the heap
    held        \* the items in no tree that the caller has a pointer to

vars == <<mem, held>>

(***************************************************************************)
(* Memory.                                                                 *)
(***************************************************************************)
(* The cell the allocator hands out; NULL when there is none.  Free cells  *)
(* are all alike, so which one it is does not matter.                      *)
cJSON_New_Item(m) ==
    LET free == {i \in Item : ~m.item[i].live} IN
    IF free = {} THEN NULL ELSE CHOOSE i \in free : TRUE

Created(m, i, type) ==
    IF i = NULL THEN m
    ELSE [m EXCEPT !.item[i] = [FreeItem EXCEPT !.live = TRUE, !.type = type]]

cJSON_strdup(m, k) ==
    LET free == {s \in Str : m.str[s] = NoStr} IN
    IF k = NoStr \/ free = {} THEN NoStr ELSE CHOOSE s \in free : TRUE

Text(m, s) == IF s \in Str THEN m.str[s] ELSE s

FreeStr(m, s) ==
    IF s \in Str /\ m.str[s] # NoStr THEN [m EXCEPT !.str[s] = NoStr]
                                     ELSE Faulty(m)

(* field of item i becomes a copy of k in cell s; s is NoStr if there was  *)
(* no memory for it.                                                       *)
PutCopy(m, i, field, s, k) ==
    LET n == Put(m, i, field, s) IN
    IF s = NoStr THEN n ELSE [n EXCEPT !.str[s] = k]

RECURSIVE cJSON_Delete(_, _)
cJSON_Delete(m, i) ==
    IF i = NULL THEN m
    ELSE IF ~Live(m, i) THEN Faulty(m)
    ELSE LET c  == m.item[i]
             m1 == IF ~c.ref THEN cJSON_Delete(m, c.child) ELSE m
             m2 == IF ~c.ref /\ c.valuestring # NoStr
                   THEN FreeStr(m1, c.valuestring) ELSE m1
             m3 == IF ~c.const /\ c.string # NoStr
                   THEN FreeStr(m2, c.string) ELSE m2
             m4 == IF Live(m3, i) THEN [m3 EXCEPT !.item[i] = FreeItem]
                                  ELSE Faulty(m3)
         IN  cJSON_Delete(m4, c.next)

(***************************************************************************)
(* Walking a tree.                                                         *)
(***************************************************************************)
RECURSIVE Chain(_, _, _)
Chain(m, i, n) ==
    IF i = NULL \/ n = 0 THEN <<>> ELSE <<i>> \o Chain(m, m.item[i].next, n - 1)

(* The items of array or object i in order, following next from child.     *)
List(m, i) == Chain(m, m.item[i].child, Cardinality(Item))

cJSON_GetArraySize(m, i) == Len(List(m, i))

(* Mutant: the walk takes one step too many.                               *)
GetArrayItemLate(m, i, which) ==
    IF which + 1 < cJSON_GetArraySize(m, i) THEN List(m, i)[which + 2] ELSE NULL

get_array_item(m, i, which) ==
    IF which < cJSON_GetArraySize(m, i) THEN List(m, i)[which + 1] ELSE NULL

SameKey(a, b, sensitive) == IF sensitive THEN a = b ELSE Fold[a] = Fold[b]

(* A case-sensitive search stops at the first item that has no name.       *)
get_object_item(m, i, k, sensitive) ==
    LET list == List(m, i)
        name(n) == m.item[list[n]].string
        hits == {n \in DOMAIN list :
                    \/ /\ name(n) # NoStr
                       /\ SameKey(k, Text(m, name(n)), sensitive)
                    \/ sensitive /\ name(n) = NoStr}
    IN  IF k = NoStr \/ hits = {} \/ name(Min(hits)) = NoStr THEN NULL
        ELSE list[Min(hits)]

RECURSIVE Subtree(_, _)
Subtree(m, i) ==
    IF m.item[i].ref THEN {i}
    ELSE {i} \cup UNION {Subtree(m, c) : c \in ToSet(List(m, i))}

Owner(m, i) == {p \in Item : Live(m, p) /\ ~m.item[p].ref
                              /\ i \in ToSet(List(m, p))}

(***************************************************************************)
(* Linking items.                                                          *)
(***************************************************************************)
add_item_to_array(m, p, i) ==
    LET list == List(m, p) IN
    IF i = NULL THEN m
    ELSE LinkLast(m, p, IF list = <<>> THEN NULL ELSE Last(list), i)

(* The name is copied unless it is a constant; without memory for the copy *)
(* nothing changes.                                                        *)
CanName(m, k, i, const) ==
    k # NoStr /\ i # NULL /\ (const \/ cJSON_strdup(m, k) # NoStr)

(* Mutant: a constant name is freed like any other.                        *)
NamedFreesConst(m, k, i, const) ==
    LET c  == m.item[i]
        s  == cJSON_strdup(m, k)
        m1 == IF const THEN Put(m, i, "string", k)
                       ELSE PutCopy(m, i, "string", s, k)
        m2 == IF c.string # NoStr THEN FreeStr(m1, c.string) ELSE m1
    IN  Put(m2, i, "const", const)

Named(m, k, i, const) ==
    LET c  == m.item[i]
        s  == cJSON_strdup(m, k)
        m1 == IF const THEN Put(m, i, "string", k)
                       ELSE PutCopy(m, i, "string", s, k)
        m2 == IF ~c.const /\ c.string # NoStr THEN FreeStr(m1, c.string) ELSE m1
    IN  Put(m2, i, "const", const)

add_item_to_object(m, p, k, i, const) ==
    IF CanName(m, k, i, const)
    THEN add_item_to_array(Named(m, k, i, const), p, i) ELSE m

InsertInArray(m, p, which, i) ==
    LET after == get_array_item(m, p, which) IN
    IF after = NULL THEN add_item_to_array(m, p, i) ELSE InsertBefore(m, p, after, i)

cJSON_ReplaceItemViaPointer(m, p, i, new) ==
    IF i = NULL THEN m ELSE cJSON_Delete(TakePlace(m, p, i, new), i)

(* A function that returns an item gives [m, item]; item is NULL when it   *)
(* failed.                                                                 *)
Result(m, i) == [m |-> m, item |-> i]

create_reference(m, i) ==
    LET r == cJSON_New_Item(m)
        copy == [m.item[i] EXCEPT !.string = NoStr, !.ref = TRUE,
                                  !.next = NULL, !.prev = NULL]
    IN  IF r = NULL THEN Result(m, NULL)
        ELSE Result([m EXCEPT !.item[r] = copy], r)

(* cJSON_CreateNull, -True, -False, -Bool, -Number, -Array and -Object.     *)
CreateItem(m, type) ==
    LET i == cJSON_New_Item(m) IN Result(Created(m, i, type), i)

(* Mutant: the item is not deleted when there is no memory for its text.   *)
CreateStringLeaks(m, k) ==
    LET r == CreateItem(m, "String")
        s == cJSON_strdup(r.m, k)
    IN  IF r.item = NULL THEN r
        ELSE IF s = NoStr THEN Result(r.m, NULL)
        ELSE Result(PutCopy(r.m, r.item, "valuestring", s, k), r.item)

(* cJSON_CreateString and -Raw: an item whose text is a copy of k.         *)
cJSON_CreateString(m, k) ==
    LET r == CreateItem(m, "String")
        s == cJSON_strdup(r.m, k)
    IN  IF r.item = NULL THEN r
        ELSE IF s = NoStr THEN Result(cJSON_Delete(r.m, r.item), NULL)
        ELSE Result(PutCopy(r.m, r.item, "valuestring", s, k), r.item)

Create(m, type, k) ==
    IF type = "String" THEN cJSON_CreateString(m, k) ELSE CreateItem(m, type)

(* n new items of a type are linked behind last, the first one as the      *)
(* child of array a; if one cannot be created, a is deleted.               *)
RECURSIVE FillArray(_, _, _, _, _, _)
FillArray(m, a, last, n, type, k) ==
    LET r == Create(m, type, k)
        m1 == LinkLast(r.m, a, last, r.item)
    IN  IF n = 0 THEN Result(m, a)
        ELSE IF r.item = NULL THEN Result(cJSON_Delete(r.m, a), NULL)
        ELSE FillArray(m1, a, r.item, n - 1, type, k)

(* cJSON_CreateIntArray, -FloatArray, -DoubleArray and -StringArray.       *)
CreateArrayOf(m, n, type, k) ==
    LET a == CreateItem(m, "Array") IN
    IF a.item = NULL THEN a ELSE FillArray(a.m, a.item, NULL, n, type, k)

(* Mutant: the copy gets no constant name.                                 *)
DupStringOwnOnly(m, i, new, field, share) ==
    LET old == m.item[i][field]
        s   == cJSON_strdup(m, Text(m, old))
    IN  IF old = NoStr \/ share THEN Result(m, new)
        ELSE IF s = NoStr THEN Result(cJSON_Delete(m, new), NULL)
        ELSE Result(PutCopy(m, new, field, s, Text(m, old)), new)

(* One field of the copy: a string of the original is copied, unless it is *)
(* a constant name.  item is NULL when there is no memory for it.          *)
DupString(m, i, new, field, share) ==
    LET old == m.item[i][field]
        s   == cJSON_strdup(m, Text(m, old))
    IN  IF old = NoStr THEN Result(m, new)
        ELSE IF share THEN Result(Put(m, new, field, old), new)
        ELSE IF s = NoStr THEN Result(cJSON_Delete(m, new), NULL)
        ELSE Result(PutCopy(m, new, field, s, Text(m, old)), new)

(* The copies of the items from child on are linked behind last in new.    *)
RECURSIVE cJSON_Duplicate(_, _, _)
RECURSIVE DupChildren(_, _, _, _)
DupChildren(m, child, new, last) ==
    LET r  == cJSON_Duplicate(m, child, TRUE)
        m1 == LinkLast(r.m, new, last, r.item)
    IN  IF child = NULL THEN Result(m, new)
        ELSE IF r.item = NULL THEN Result(cJSON_Delete(r.m, new), NULL)
        ELSE DupChildren(m1, m.item[child].next, new, r.item)

cJSON_Duplicate(m, i, recurse) ==
    LET c  == m.item[i]
        r0 == CreateItem(m, c.type)
        r1 == DupString(Put(r0.m, r0.item, "const", c.const), i, r0.item,
                        "valuestring", FALSE)
        r2 == DupString(r1.m, i, r1.item, "string", c.const)
    IN  IF r0.item = NULL THEN r0
        ELSE IF r1.item = NULL THEN r1
        ELSE IF r2.item = NULL \/ ~recurse THEN r2
        ELSE DupChildren(r2.m, c.child, r2.item, NULL)

(* Items with the same type and text, arrays element by element, objects   *)
(* name by name in both directions.                                        *)
RECURSIVE cJSON_Compare(_, _, _, _)
cJSON_Compare(m, a, b, sensitive) ==
    LET x == m.item[a]
        y == m.item[b]
        la == List(m, a)
        lb == List(m, b)
        covers(p, q, list) ==
            \A i \in ToSet(list) :
                LET j == get_object_item(m, q, Text(m, m.item[i].string),
                                         sensitive)
                IN  j # NULL /\ cJSON_Compare(m, i, j, sensitive)
    IN  /\ x.type = y.type
        /\ \/ a = b
           \/ x.type = "Number"
           \/ /\ x.type = "String"
              /\ NoStr \notin {x.valuestring, y.valuestring}
              /\ Text(m, x.valuestring) = Text(m, y.valuestring)
           \/ /\ x.type = "Array"
              /\ Len(la) = Len(lb)
              /\ \A n \in DOMAIN la : cJSON_Compare(m, la[n], lb[n], sensitive)
           \/ x.type = "Object" /\ covers(a, b, la) /\ covers(b, a, lb)

(***************************************************************************)
(* What a caller may pass.                                                 *)
(***************************************************************************)
Reachable == UNION {Subtree(mem, r) : r \in held}

(* Some reference shares the text or the list of an item under root r.     *)
Referenced(r) ==
    \E f \in Reachable :
        LET c == mem.item[f] IN
        /\ c.ref
        /\ \/ c.child \in Subtree(mem, r)
           \/ \E i \in Subtree(mem, r) : /\ c.valuestring \in Str
                                         /\ ~mem.item[i].ref
                                         /\ c.valuestring = mem.item[i].valuestring

Disposable == {r \in held : ~Referenced(r)}

(* The arrays and objects whose list a caller may change.                  *)
Changeable == {p \in UNION {Subtree(mem, r) : r \in Disposable} :
                  /\ ~mem.item[p].ref
                  /\ mem.item[p].type \in {"Array", "Object"}}

Fits(p, i) == p \notin Subtree(mem, i)

(* The items a caller may add a reference to in p: those of other trees.   *)
Elsewhere(p) == UNION {Subtree(mem, r) : r \in {r \in held : Fits(p, r)}}

(***************************************************************************)
(* The calls.                                                              *)
(***************************************************************************)
Done(m, h) == mem' = m /\ held' = h /\ Cardinality(h) <= MaxHeld

MayRefer == Cardinality({i \in Item : mem.item[i].ref}) < MaxRef

Return(r) == Done(r.m, held \cup ({r.item} \ {NULL}))

CreateCall(type, k) == Return(Create(mem, type, k))

CreateArrayCall(n, type, k) == Return(CreateArrayOf(mem, n, type, k))

cJSON_CreateStringReference(k) ==
    LET r == CreateItem(mem, "String") IN
    IF r.item = NULL THEN Return(r)
    ELSE Return(Result(Put(Put(r.m, r.item, "ref", TRUE),
                           r.item, "valuestring", k), r.item))

(* cJSON_CreateArrayReference and -ObjectReference.                        *)
CreateListReference(type, child) ==
    LET r == CreateItem(mem, type) IN
    IF r.item = NULL THEN Return(r)
    ELSE Return(Result(Put(Put(r.m, r.item, "ref", TRUE),
                           r.item, "child", child), r.item))

cJSON_AddItemToArray(p, i) ==
    Done(add_item_to_array(mem, p, i), held \ {i})

cJSON_AddItemToObject(p, k, i, const) ==
    Done(add_item_to_object(mem, p, k, i, const),
         IF CanName(mem, k, i, const) THEN held \ {i} ELSE held)

cJSON_AddItemReferenceToArray(p, i) ==
    LET r == create_reference(mem, i) IN
    Done(add_item_to_array(r.m, p, r.item), held)

cJSON_AddItemReferenceToObject(p, k, i) ==
    LET r == create_reference(mem, i) IN
    Done(add_item_to_object(r.m, p, k, r.item, FALSE), held)

(* cJSON_AddNullToObject and its eight relatives.                          *)
AddNewToObject(p, k, type, t) ==
    LET r == Create(mem, type, t) IN
    Done(IF CanName(r.m, k, r.item, FALSE)
         THEN add_item_to_object(r.m, p, k, r.item, FALSE)
         ELSE cJSON_Delete(r.m, r.item), held)

Detach(p, i) ==
    Done(cJSON_DetachItemViaPointer(mem, p, i), held \cup ({i} \ {NULL}))

cJSON_DetachItemFromArray(p, which) == Detach(p, get_array_item(mem, p, which))

cJSON_DetachItemFromObject(p, k, sensitive) ==
    Detach(p, get_object_item(mem, p, k, sensitive))

(* Mutant: the whole list is deleted with the item.                        *)
DeleteFromAll(p, i) ==
    Done(IF i = NULL THEN mem
         ELSE Put(cJSON_Delete(mem, mem.item[p].child), p, "child", NULL), held)

DeleteFrom(p, i) ==
    Done(cJSON_Delete(cJSON_DetachItemViaPointer(mem, p, i), i), held)

cJSON_DeleteItemFromArray(p, which) ==
    DeleteFrom(p, get_array_item(mem, p, which))

cJSON_DeleteItemFromObject(p, k, sensitive) ==
    DeleteFrom(p, get_object_item(mem, p, k, sensitive))

cJSON_InsertItemInArray(p, which, new) ==
    Done(InsertInArray(mem, p, which, new), held \ {new})

cJSON_ReplaceItemInArray(p, which, new) ==
    LET i == get_array_item(mem, p, which) IN
    Done(cJSON_ReplaceItemViaPointer(mem, p, i, new),
         IF i = NULL THEN held ELSE held \ {new})

(* The replacement is renamed first, and stays with the caller if the      *)
(* object has no item of that name.                                        *)
replace_item_in_object(p, k, new, sensitive) ==
    LET c  == mem.item[new]
        m1 == IF ~c.const /\ c.string # NoStr THEN FreeStr(mem, c.string)
                                              ELSE mem
        m2 == PutCopy(m1, new, "string", cJSON_strdup(m1, k), k)
        m3 == Put(m2, new, "const", FALSE)
        i  == get_object_item(m3, p, k, sensitive)
    IN  Done(cJSON_ReplaceItemViaPointer(m3, p, i, new),
             IF i = NULL THEN held ELSE held \ {new})

DeleteCall(i) == Done(cJSON_Delete(mem, i), held \ {i})

DuplicateCall(i, recurse) == Return(cJSON_Duplicate(mem, i, recurse))

Init ==
    /\ mem = [item |-> [i \in Item |-> FreeItem],
              str |-> [s \in Str |-> NoStr],
              fault |-> FALSE]
    /\ held = {}

Next ==
    \/ \E type \in Kind, t \in Val :
           \/ CreateCall(type, t)
           \/ type \in {"Number", "String"}
              /\ \E n \in 0 .. 2 : CreateArrayCall(n, type, t)
    \/ MayRefer /\ \E t \in Val : cJSON_CreateStringReference(t)
    \/ MayRefer /\ \E i \in Reachable, type \in Kind \cap {"Array", "Object"} :
           CreateListReference(type, i)
    \/ \E i \in Reachable, recurse \in BOOLEAN : DuplicateCall(i, recurse)
    \/ \E i \in Disposable : DeleteCall(i)
    \/ \E p \in Changeable :
           \/ \E i \in Disposable :
                  /\ Fits(p, i)
                  /\ \/ cJSON_AddItemToArray(p, i)
                     \/ \E k \in Key, const \in BOOLEAN :
                            cJSON_AddItemToObject(p, k, i, const)
                     \/ \E which \in 0 .. cJSON_GetArraySize(mem, p) :
                            \/ cJSON_InsertItemInArray(p, which, i)
                            \/ cJSON_ReplaceItemInArray(p, which, i)
                     \/ \E k \in Key, sensitive \in BOOLEAN :
                            replace_item_in_object(p, k, i, sensitive)
           \/ \E i \in Elsewhere(p) :
                  /\ MayRefer
                  /\ \/ cJSON_AddItemReferenceToArray(p, i)
                     \/ \E k \in Key : cJSON_AddItemReferenceToObject(p, k, i)
           \/ \E k \in Key, t \in Val, type \in Kind :
                  AddNewToObject(p, k, type, t)
           \/ \E which \in 0 .. cJSON_GetArraySize(mem, p) :
                  \/ cJSON_DetachItemFromArray(p, which)
                  \/ cJSON_DeleteItemFromArray(p, which)
           \/ \E k \in Key, sensitive \in BOOLEAN :
                  \/ cJSON_DetachItemFromObject(p, k, sensitive)
                  \/ cJSON_DeleteItemFromObject(p, k, sensitive)

Spec == Init /\ [][Next]_vars

(***************************************************************************)
(* Properties.                                                             *)
(***************************************************************************)
LiveItems == {i \in Item : mem.item[i].live}

(* After any sequence of calls every list of the heap is properly doubly   *)
(* linked: the first item has no prev, the last no next, prev mirrors      *)
(* next, no item is in two lists or twice in one, and an item that a       *)
(* caller holds is in none (add_item_to_array,                             *)
(* cJSON_DetachItemViaPointer, cJSON_InsertItemInArray,                    *)
(* cJSON_ReplaceItemViaPointer, cJSON_Duplicate).                          *)
WellLinked ==
    /\ Sound(mem)
    /\ \A p \in Reachable :
           LET list == List(mem, p) IN
           ~mem.item[p].ref =>
               /\ IsInjective(list)
               /\ EndsWith(mem, p, IF list = <<>> THEN NULL ELSE Last(list))
               /\ \A i \in ToSet(list) : InList(mem, p, i) /\ Owner(mem, i) = {p}
    /\ \A r \in held : Loose(mem, r) /\ Owner(mem, r) = {}

(* No call frees memory twice or writes through a pointer to a freed item, *)
(* and no item a caller can reach points to freed memory, references       *)
(* included (cJSON_Delete, the failure paths of the creating functions).   *)
MemorySafe ==
    /\ ~mem.fault
    /\ held \subseteq LiveItems
    /\ \A i \in Reachable :
           LET c == mem.item[i] IN
           /\ \A q \in {c.next, c.prev, c.child} \ {NULL} : Live(mem, q)
           /\ \A t \in {c.string, c.valuestring} \cap Str : mem.str[t] # NoStr

(* Every string cell in use is the name or the text of exactly one item    *)
(* that will free it, and every item is under an item that a caller holds, *)
(* also after calls that ran out of memory half way.  The one exception is *)
(* the code's: cJSON_AddItemReferenceToObject loses the reference it has   *)
(* created when there is no memory for its name.                           *)
NoLeak ==
    /\ \A i \in LiveItems \ Reachable :
           mem.item[i].ref /\ mem.item[i].string = NoStr /\ Owner(mem, i) = {}
    /\ \A t \in Str :
           mem.str[t] # NoStr =>
               Cardinality(
                   {<<"string", i>> : i \in
                       {i \in Reachable : /\ mem.item[i].string = t
                                          /\ ~mem.item[i].const}} \cup
                   {<<"valuestring", i>> : i \in
                       {i \in Reachable : /\ mem.item[i].valuestring = t
                                          /\ ~mem.item[i].ref}}) = 1

(* No object in the tree of i has an item without a name or two items of   *)
(* the same name.                                                          *)
RECURSIVE NamesDistinct(_)
NamesDistinct(i) ==
    LET list == List(mem, i) IN
    /\ mem.item[i].type = "Object" =>
           \A a, b \in ToSet(list) :
               /\ mem.item[a].string # NoStr
               /\ Text(mem, mem.item[a].string) = Text(mem, mem.item[b].string)
                      => a = b
    /\ \A c \in ToSet(list) : NamesDistinct(c)

(* In every state and for every item, a copy that cJSON_Duplicate makes    *)
(* compares equal to its original, owns all of its items and has no        *)
(* neighbours ("The item->next and ->prev pointers are always zero on      *)
(* return from Duplicate", cJSON.h), and a copy that fails leaves the heap *)
(* as it was.  An object that has two items of one name does not even      *)
(* equal its copy: cJSON_Compare finds the first item of a name only.      *)
DuplicateIsEqual ==
    \A i \in Reachable :
        LET r == cJSON_Duplicate(mem, i, TRUE)
            c == r.m.item[r.item]
        IN  IF r.item = NULL THEN r.m = mem
            ELSE /\ <<c.next, c.prev>> = <<NULL, NULL>>
                 /\ \A j \in Subtree(r.m, r.item) :
                        ~r.m.item[j].ref /\ ~mem.item[j].live
                 /\ NamesDistinct(i) => cJSON_Compare(r.m, i, r.item, TRUE)

(* Positions: whatever the list and the index, an item inserted, detached  *)
(* or replaced at an index is inserted, removed or replaced at that place  *)
(* of the list, the others keeping their order ("Shifts pre-existing items *)
(* to the right", cJSON.h), at both ends of the list too.                  *)
EditsAtIndex ==
    \A p \in Changeable :
        LET list == List(mem, p)
            addable == {new \in Disposable : Fits(p, new)}
        IN  \A which \in 0 .. Len(list) :
            LET i == get_array_item(mem, p, which) IN
            /\ which < Len(list) =>
                   List(cJSON_DetachItemViaPointer(mem, p, i), p)
                       = RemoveAt(list, which + 1)
            /\ \A new \in addable :
                   /\ List(InsertInArray(mem, p, which, new), p)
                          = InsertAt(list, which + 1, new)
                   /\ which < Len(list) =>
                          List(cJSON_ReplaceItemViaPointer(mem, p, i, new), p)
                              = ReplaceAt(list, which + 1, new)

(* The pointers implement sequences of items: each call does to the list   *)
(* of one array or object what ItemLists says, whatever its place in the   *)
(* list, and an item that is deleted takes exactly its own tree with it.   *)
Lists == INSTANCE ItemLists WITH
    live <- LiveItems,
    kids <- [i \in Item |-> IF mem.item[i].live /\ ~mem.item[i].ref
                            THEN List(mem, i) ELSE <<>>]

ImplementsLists == Lists!Spec

=============================================================================
