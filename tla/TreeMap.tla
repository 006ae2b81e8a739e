------------------------------- MODULE TreeMap -------------------------------
(***************************************************************************)
(* The maps of libericstools (src/tree_map.c), of which the kernel's       *)
(* bandwidth and webmon matches have copies: an AVL tree of nodes with     *)
(* keys of type unsigned long, and on top of it a map with strings for     *)
(* keys, which are hashed.                                                 *)
(*                                                                         *)
(* The tree is kept in memory as in the code: nodes with pointers to their *)
(* children, and pointers to the places where a pointer is stored.  A node *)
(* is known by its key, which never changes.  An insertion or a removal    *)
(* remembers the places it came through and rebalances them on its way     *)
(* back; each rotation changes what is stored in those places.  The        *)
(* string_map's copy of num_elements is taken anew by each operation and   *)
(* is left out.                                                            *)
(***************************************************************************)
EXTENDS Integers, Sequences, FiniteSets, SequencesExt

CONSTANTS Names,     \* what callers name elements by: strings, or numbers
          Hash,      \* Hash[s]: the key of s; the identity in a long_map
          Values,    \* what callers store
          Null       \* NULL: no element

Keys == {Hash[s] : s \in Names}

ASSUME TreeMapAssumption ==
    /\ Hash \in [Names -> Nat] /\ IsFiniteSet(Names) /\ Null \notin Values

VARIABLE lm     \* the long_map: root, nodes, the values in the nodes, num_elements

Nil  == -1                                       \* the null pointer
Pointers == Keys \cup {Nil}
Free == [key |-> Nil, left |-> Nil, right |-> Nil, balance |-> 0]

\* A string_map_key_value: the string and its value (a long_map has no string).
Element(s, v) == [name |-> s, value |-> v]

------------------------------------------------------------------------------
(* Places where a pointer to a node is stored (stack_node.node_ptr). *)

RootPlace == <<Nil, "root">>
Sides     == {"left", "right"}
Places    == {RootPlace} \cup Keys \X Sides

At(t, place) == IF place = RootPlace THEN t.root ELSE t.node[place[1]][place[2]]

Store(t, place, k) == IF place = RootPlace THEN [t EXCEPT !.root = k]
                      ELSE [t EXCEPT !.node[place[1]][place[2]] = k]

Opposite(side) == IF side = "left" THEN "right" ELSE "left"
Sign(side)     == IF side = "left" THEN -1 ELSE 1

\* rotate_left() and rotate_right(): the child on the other side comes up.
rotate(t, place, side) ==
    LET old   == At(t, place)
        pivot == t.node[old][Opposite(side)]
    IN  Store([t EXCEPT !.node[old][Opposite(side)] = t.node[pivot][side],
                        !.node[pivot][side] = old], place, pivot)

SetBalance(t, k, b) == [t EXCEPT !.node[k].balance = b]

\* Mutant: the case that only a removal meets, a child that does not lean, is
\* taken for the first one.
LowerSideInsertOnly(t, place, side) ==
    LET n     == At(t, place)
        child == t.node[n][side]
        once  == rotate(t, place, Opposite(side))
        twice == rotate(rotate(t, <<n, side>>, side), place, Opposite(side))
        top   == At(twice, place)
        was   == t.node[top].balance
    IN  IF t.node[child].balance * Sign(side) >= 0
        THEN SetBalance(SetBalance(once, n, 0), child, 0)
        ELSE SetBalance(SetBalance(SetBalance(twice,
                 twice.node[top].left,  IF was > 0 THEN -1 ELSE 0),
                 twice.node[top].right, IF was < 0 THEN 1 ELSE 0),
                 top, 0)

\* The node at place is too deep by one on this side.
LowerSide(t, place, side) ==
    LET n     == At(t, place)
        child == t.node[n][side]
        lean  == t.node[child].balance * Sign(side)
        once  == rotate(t, place, Opposite(side))
        twice == rotate(rotate(t, <<n, side>>, side), place, Opposite(side))
        top   == At(twice, place)
        was   == t.node[top].balance
    IN  IF lean > 0 THEN SetBalance(SetBalance(once, n, 0), child, 0)
        ELSE IF lean = 0
             THEN SetBalance(SetBalance(once, n, Sign(side)), child, -Sign(side))
        ELSE SetBalance(SetBalance(SetBalance(twice,
                 twice.node[top].left,  IF was > 0 THEN -1 ELSE 0),
                 twice.node[top].right, IF was < 0 THEN 1 ELSE 0),
                 top, 0)

\* rebalance(): the subtree on the side dir of the node at place has become
\* higher (op = 1, insertion) or lower (op = -1, removal).
rebalance(t, place, dir, op) ==
    LET n == At(t, place)
        b == t.node[n].balance + op * dir
        u == SetBalance(t, n, b)
    IN  IF b < -1 THEN LowerSide(u, place, "left")
        ELSE IF b > 1 THEN LowerSide(u, place, "right")
        ELSE u

------------------------------------------------------------------------------
(* Walks *)

Toward(t, place, key) == <<At(t, place), IF key < At(t, place) THEN "left" ELSE "right">>

\* The places from the root to that of the key, or to where it would be.
Path(t, key) ==
    LET walk[p \in Places] ==
            IF At(t, p) \in {key, Nil} THEN <<p>>
            ELSE <<p>> \o walk[Toward(t, p, key)]
    IN  walk[RootPlace]

\* The stack of places above the last one, with the direction taken there.
Stack(t, path, key) ==
    [i \in 1 .. Len(path) - 1 |->
        [place |-> path[i], dir |-> IF key < At(t, path[i]) THEN -1 ELSE 1]]

\* The loop that rebalances from the end of the stack upwards: an insertion goes
\* on until a subtree has kept its height (balance 0), a removal while it has lost
\* height (balance 0).
Climb(t, stack, op) ==
    LET loop[i \in 0 .. Len(stack)] ==      \* after i passes
            IF i = 0 THEN [tree |-> t, goes |-> TRUE]
            ELSE LET r    == loop[i - 1]
                     top  == stack[Len(stack) - i + 1]
                     u    == rebalance(r.tree, top.place, top.dir, op)
                     even == u.node[At(u, top.place)].balance = 0
                 IN  IF r.goes THEN [tree |-> u, goes |-> (even <=> op = -1)] ELSE r
    IN  loop[Len(stack)].tree

\* The nodes from k down to the last one on this side.
Down(t, k, side) ==
    LET chain[j \in Keys] ==
            IF t.node[j][side] = Nil THEN <<j>> ELSE <<j>> \o chain[t.node[j][side]]
    IN  chain[k]

\* get_sorted_node_keys(), and the walk of apply_to_every_long_map_node().
InOrder(t) ==
    LET walk[k \in Pointers] ==
            IF k = Nil THEN <<>>
            ELSE walk[t.node[k].left] \o <<k>> \o walk[t.node[k].right]
    IN  walk[t.root]

------------------------------------------------------------------------------
(* The operations of a long_map. *)

get_long_map_element(t, key) ==
    LET k == At(t, Last(Path(t, key)))
    IN  IF k = Nil THEN Null ELSE t.value[k]

\* Mutant: an element that is there already is not replaced.
SetKeepsOld(t, key, e) ==
    LET path == Path(t, key)
        with == Store([t EXCEPT !.node[key] = [Free EXCEPT !.key = key], !.value[key] = e,
                                !.num_elements = @ + 1],
                      Last(path), key)
    IN  IF At(t, Last(path)) = key THEN t ELSE Climb(with, Stack(t, path, key), 1)

set_long_map_element(t, key, e) ==
    LET path == Path(t, key)
        with == Store([t EXCEPT !.node[key] = [Free EXCEPT !.key = key], !.value[key] = e,
                                !.num_elements = @ + 1],
                      Last(path), key)
    IN  IF At(t, Last(path)) = key THEN [t EXCEPT !.value[key] = e]
        ELSE Climb(with, Stack(t, path, key), 1)

\* Mutant: what was on the right of the successor is not hung up in its old place.
TakeOutForgets(t, place) ==
    LET k     == At(t, place)
        x     == t.node[k]
        chain == Down(t, x.right, "left")
        s     == Last(chain)
    IN  IF x.right = Nil
        THEN [tree |-> Store(t, place, x.left), stack |-> <<>>]
        ELSE [tree |-> Store([t EXCEPT !.node[s].left = x.left,
                                       !.node[s].balance = x.balance], place, s),
              stack |-> <<[place |-> place, dir |-> 1]>>]

\* The tree without the node at place, not yet rebalanced, and the places below
\* that are to be rebalanced: the successor takes the place of the node.
TakeOut(t, place) ==
    LET k     == At(t, place)
        x     == t.node[k]
        chain == Down(t, x.right, "left")
        s     == Last(chain)
        here  == [place |-> place, dir |-> 1]
        below == [i \in 1 .. Len(chain) - 1 |->
                    [place |-> IF i = 1 THEN <<s, "right">> ELSE <<chain[i - 1], "left">>,
                     dir |-> -1]]
    IN  IF x.right = Nil
        THEN [tree |-> Store(t, place, x.left), stack |-> <<>>]
        ELSE IF Len(chain) = 1
        THEN [tree |-> Store([t EXCEPT !.node[s].left = x.left,
                                       !.node[s].balance = x.balance], place, s),
              stack |-> <<here>>]
        ELSE [tree |-> Store([t EXCEPT !.node[chain[Len(chain) - 1]].left = t.node[s].right,
                                       !.node[s].left = x.left,
                                       !.node[s].right = x.right,
                                       !.node[s].balance = x.balance], place, s),
              stack |-> <<here>> \o below]

remove_long_map_element(t, key) ==
    LET path == Path(t, key)
        out  == TakeOut(t, Last(path))
        done == Climb(out.tree, Stack(t, path, key) \o out.stack, -1)
    IN  IF At(t, Last(path)) = Nil THEN t
        ELSE [done EXCEPT !.node[key] = Free, !.value[key] = Null, !.num_elements = @ - 1]

Smallest(t) == Last(Down(t, t.root, "left"))
Largest(t)  == Last(Down(t, t.root, "right"))

\* destroy_long_map_values(): the smallest is removed as long as there are elements.
Emptied(t) ==
    LET rest[i \in 0 .. t.num_elements] ==  \* after i removals
            IF i = 0 THEN t
            ELSE LET u == rest[i - 1] IN remove_long_map_element(u, Smallest(u))
    IN  rest[t.num_elements]

------------------------------------------------------------------------------
(* The operations, as callers see them. *)

initialize == [root |-> Nil, node |-> [k \in Keys |-> Free],
               value |-> [k \in Keys |-> Null], num_elements |-> 0]

Init == lm = initialize

set_string_map_element(s, v) ==
    lm' = set_long_map_element(lm, Hash[s], Element(s, v))

remove_string_map_element(s) ==
    lm' = remove_long_map_element(lm, Hash[s])

remove_smallest_long_map_element ==
    /\ lm.root # Nil
    /\ lm' = remove_long_map_element(lm, Smallest(lm))

remove_largest_long_map_element ==
    /\ lm.root # Nil
    /\ lm' = remove_long_map_element(lm, Largest(lm))

\* What is left of a map is the empty one that the next map begins with.
destroy_map == lm' = Emptied(lm)

Next ==
    \/ \E s \in Names : remove_string_map_element(s)
    \/ \E s \in Names, v \in Values : set_string_map_element(s, v)
    \/ remove_smallest_long_map_element \/ remove_largest_long_map_element
    \/ destroy_map

Spec == Init /\ [][Next]_lm

------------------------------------------------------------------------------
Allocated == {k \in Keys : lm.node[k] # Free}

\* The type invariant.
TypeOK ==
    /\ lm.root \in Keys \cup {Nil}
    /\ \A k \in Allocated : /\ lm.node[k].key = k
                            /\ lm.node[k].left \in Keys \cup {Nil}
                            /\ lm.node[k].right \in Keys \cup {Nil}
                            /\ lm.node[k].balance \in Int
    /\ lm.num_elements \in 0 .. Cardinality(Keys)

\* The heights of the subtrees.
Height(t) ==
    LET height[k \in Pointers] ==
            IF k = Nil THEN 0
            ELSE LET l == height[t.node[k].left]
                     r == height[t.node[k].right]
                 IN  1 + IF l > r THEN l ELSE r
    IN  height

\* After any sequence of insertions and removals the balance in every node, which
\* rebalance() keeps up to date by counting, is the difference of the heights of its
\* subtrees, and no node leans by two: the next operation rotates where it has to, and
\* nowhere else.
Balanced ==
    /\ TypeOK
    /\ \A k \in Allocated :
         /\ lm.node[k].balance = Height(lm)[lm.node[k].right] - Height(lm)[lm.node[k].left]
         /\ lm.node[k].balance \in -1 .. 1

\* No node is lost or reached twice and none that was freed is reached: the walk in
\* order, with which arrays of num_elements entries are filled, meets every allocated
\* node once, in the order of their keys, so that a search finds each of them.
NothingLost ==
    LET walk == InOrder(lm)
    IN  /\ Len(walk) = lm.num_elements
        /\ {walk[i] : i \in DOMAIN walk} = Allocated
        /\ \A i \in 1 .. Len(walk) - 1 : walk[i] < walk[i + 1]

\* What a walk over the tree finds: keys with their elements.
Contents(t) == {<<k, t.value[k]>> : k \in ToSet(InOrder(t))}

\* In every tree that can come about a search finds the element of each key, and setting
\* and removing an element do to what a walk finds what they would do to a set of pairs:
\* the key's element is replaced or gone and all others are still there, whatever was
\* rotated and whichever node took the place of the removed one.  (Strings are told apart
\* by their hash only: two with the same hash share an element, the last one set.)
ActsAsMap ==
    /\ \A k \in Keys : get_long_map_element(lm, k) = lm.value[k]
    /\ \A s \in Names, v \in Values :
         LET others == {c \in Contents(lm) : c[1] # Hash[s]}
         IN  /\ Contents(set_long_map_element(lm, Hash[s], Element(s, v)))
                   = others \cup {<<Hash[s], Element(s, v)>>}
             /\ Contents(remove_long_map_element(lm, Hash[s])) = others
==============================================================================
