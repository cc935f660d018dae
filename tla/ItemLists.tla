----------------------------- MODULE ItemLists -----------------------------
(***************************************************************************)
(* What the tree functions of cJSON promise, without pointers: every array *)
(* or object owns a sequence of items, and a call inserts, removes,        *)
(* replaces or drops elements of one sequence.  JsonTree implements this   *)
(* module with next, prev and child pointers.                              *)
(***************************************************************************)
EXTENDS Naturals, FiniteSets, Sequences, SequencesExt

CONSTANT Item

VARIABLES
    live,       \* the items that exist
    kids        \* kids[i]: the items that item i owns, in order

vars == <<live, kids>>

(* A forest is a value of the two variables.                               *)
Forest(l, k) == [live |-> l, kids |-> k]

Owned(f, S) == UNION {ToSet(f.kids[i]) : i \in S}

Roots(f) == f.live \ Owned(f, f.live)

(* Item i with everything that it owns, directly or not.                   *)
Tree(f, i) ==
    LET within[n \in Nat] ==
            IF n = 0 THEN {i} ELSE within[n - 1] \cup Owned(f, within[n - 1])
    IN  within[Cardinality(Item)]

(* The roots that can become elements of p.                                *)
Joining(f, p) == {i \in Roots(f) : p \notin Tree(f, i)}

(***************************************************************************)
(* The forests after a call.                                               *)
(***************************************************************************)
Inserted(f, p, n, i) == [f EXCEPT !.kids[p] = InsertAt(@, n, i)]

TakenOut(f, p, n) == [f EXCEPT !.kids[p] = RemoveAt(@, n)]

(* An item that ceases to exist takes everything it owns with it.          *)
Dropped(f, i) ==
    LET gone == Tree(f, i) IN
    Forest(f.live \ gone,
           [j \in Item |-> IF j \in gone THEN <<>> ELSE f.kids[j]])

Replaced(f, p, n, i) ==
    Dropped([f EXCEPT !.kids[p] = ReplaceAt(@, n, i)], f.kids[p][n])

(* g is f with new items that own only each other, r being the root of all *)
(* of them; r is not owned, or is the new last element of p.               *)
Grows(f, g, r) ==
    LET new == g.live \ f.live IN
    /\ f.live \subseteq g.live
    /\ Tree(g, r) = new
    /\ r \notin Owned(g, new)
    /\ \/ \A i \in Item \ new : g.kids[i] = f.kids[i]
       \/ \E p \in f.live :
              /\ g.kids[p] = Append(f.kids[p], r)
              /\ \A i \in Item \ (new \cup {p}) : g.kids[i] = f.kids[i]

(* A call that fails changes nothing; any other creates items, or moves    *)
(* one, or drops a tree.                                                   *)
Step(f, g) ==
    \/ g = f
    \/ \E r \in g.live \ f.live : Grows(f, g, r)
    \/ /\ g.live = f.live
       /\ \E p \in f.live :
              \/ \E n \in DOMAIN f.kids[p] : g = TakenOut(f, p, n)
              \/ \E n \in DOMAIN g.kids[p] :
                     /\ g.kids[p][n] \in Joining(f, p)
                     /\ g = Inserted(f, p, n, g.kids[p][n])
    \/ /\ f.live \ g.live # {}
       /\ \/ \E i \in Roots(f) : g = Dropped(f, i)
          \/ \E p \in f.live : \E n \in DOMAIN f.kids[p] :
                 \/ g = Dropped(TakenOut(f, p, n), f.kids[p][n])
                 \/ \E i \in Joining(f, p) : g = Replaced(f, p, n, i)

Init == Forest(live, kids) = Forest({}, [i \in Item |-> <<>>])

Next == Step(Forest(live, kids), Forest(live', kids'))

Spec == Init /\ [][Next]_vars

=============================================================================
