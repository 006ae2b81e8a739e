--------------------------- MODULE TreeMapProofs ---------------------------
(***************************************************************************)
(* The AVL tree of libericstools, for any finite set of keys and any       *)
(* sequence of operations: its balances are right, no node is lost, and    *)
(* it acts as a map.                                                       *)
(*                                                                         *)
(* A tree is looked at as two functions, a of the places and b of the      *)
(* nodes: a[p] is the pointer stored in p, b[k] the balance of k.  With    *)
(* them go the set A of the nodes in use and two ghosts, D[k], the set of  *)
(* the nodes in the subtree at k, and h[k], its height.  Good says that    *)
(* these fit: each node is stored in one place, what is below it on the    *)
(* left is smaller and on the right larger, and its balance is the         *)
(* difference of the heights, at most one.  No recursion is needed to say  *)
(* so, and inductions become the search for a least counterexample.        *)
(*                                                                         *)
(*   rotations     TurnShape, OnceMends, TwiceMends, LowerSideMends;       *)
(*   rebalance()   RebalanceMends: from Pending at a place to Settled;     *)
(*   the way up    ClimbPass, ClimbWell: from Waiting to all level;        *)
(*   searches      PathLeads, DownWell;                                    *)
(*   operations    SetWell, RemoveWell, EmptiedWell;                       *)
(*   walks         HeightIs, InOrderSorted.                                *)
(***************************************************************************)
EXTENDS TreeMap, FiniteSetTheorems, SequenceTheorems, WellFoundedInduction, TLAPS

-----------------------------------------------------------------------------
(* Numbers and recursive functions.                                          *)

\* A set of natural numbers that is not empty has a least element; inductions over
\* heights and lengths below look at the least counterexample.
LEMMA LeastNatural ==
  ASSUME NEW S \in SUBSET Nat, S # {}
  PROVE  \E n \in S : \A m \in S : n <= m
  <1> DEFINE R == {ss \in Nat \X Nat : ss[1] < ss[2]}
  <1>1. OpToRel(<, Nat) = R
    BY Zenon DEF OpToRel
  <1>2. IsWellFoundedOn(R, Nat)
    BY <1>1, NatLessThanWellFounded
  <1>3. PICK n \in S : \A m \in S : ~(<<m, n>> \in R)
    BY <1>2, WFMin
  <1>4. ASSUME NEW m \in S, ~(n <= m)
        PROVE  FALSE
    <2>1. m \in Nat /\ n \in Nat /\ m < n
      BY <1>4
    <2> QED
      BY <1>3, <2>1
  <1> QED
    BY <1>4

\* What G makes of x and f depends only on f at arguments of lower rank, and ranks are
\* bounded.
Ranked(S, T, N, rank, a, G) ==
    /\ N \in Nat /\ rank \in [S -> 0 .. N] /\ a \in T /\ G \in [S \X [S -> T] -> T]
    /\ \A x \in S : \A f, g \in [S -> T] :
          (\A y \in S : rank[y] < rank[x] => f[y] = g[y]) => G[<<x, f>>] = G[<<x, g>>]

\* A function may be defined by recursion if what it is at x depends only on what it
\* is at arguments of lower rank, and ranks are bounded.
LEMMA RecursiveFunction ==
  ASSUME NEW S, NEW T, NEW N, NEW rank, NEW a, NEW G, Ranked(S, T, N, rank, a, G)
  PROVE  \E f \in [S -> T] : \A x \in S : f[x] = G[<<x, f>>]
  <1> USE DEF Ranked
  <1> DEFINE Solved(n) == \E f \in [S -> T] : \A x \in S : rank[x] < n => f[x] = G[<<x, f>>]
             Bad == {n \in Nat : ~Solved(n)}
  <1>1. Solved(0)
    <2>1. [x \in S |-> a] \in [S -> T] /\ \A x \in S : ~(rank[x] < 0)
      OBVIOUS
    <2> QED
      BY <2>1
  <1>2. ASSUME NEW n \in Nat, Solved(n)
        PROVE  Solved(n + 1)
    <2>1. PICK f \in [S -> T] : \A x \in S : rank[x] < n => f[x] = G[<<x, f>>]
      BY <1>2
    <2> DEFINE g == [x \in S |-> G[<<x, f>>]]
    <2>2. g \in [S -> T]
      OBVIOUS
    <2>3. ASSUME NEW x \in S, rank[x] < n + 1
          PROVE  g[x] = G[<<x, g>>]
      <3>1. \A y \in S : rank[y] < rank[x] => f[y] = g[y]
        BY <2>1, <2>3
      <3>2. G[<<x, f>>] = G[<<x, g>>]
        BY <2>2, <3>1
      <3> QED
        BY <3>2
    <2> QED
      BY <2>2, <2>3
  <1>3. Bad = {}
    <2> SUFFICES ASSUME Bad # {}
                 PROVE  FALSE
      OBVIOUS
    <2> HIDE DEF Solved
    <2>1. PICK n \in Bad : \A m \in Bad : n <= m
      BY LeastNatural
    <2>2. n # 0
      BY <1>1, <2>1
    <2>3. n - 1 \in Nat /\ Solved(n - 1) /\ (n - 1) + 1 = n
      BY <2>1, <2>2
    <2>4. Solved(n)
      BY <1>2, <2>3
    <2> QED
      BY <2>1, <2>4
  <1>4. Solved(N + 1)
    <2> HIDE DEF Solved
    <2> QED
      BY <1>3
  <1> QED
    BY <1>4

-----------------------------------------------------------------------------
(* A tree as two functions: what is stored in each place, and the balances. *)

\* What is stored in each place, and the balance of each node.
Kids(t) == [p \in Places |-> At(t, p)]
Bals(t) == [k \in Keys |-> t.node[k].balance]

\* The types of the nodes, of the elements and of the map.
Node    == [key : Pointers, left : Pointers, right : Pointers, balance : Int]
Stored  == {Element(s, v) : s \in Names, v \in Values}
Trees   == [root : Pointers, node : [Keys -> Node], value : [Keys -> Stored \cup {Null}],
            num_elements : Int]

\* What the operations on the shape of a tree leave alone.
SameRest(t, u) ==
    /\ u \in Trees
    /\ u.value = t.value /\ u.num_elements = t.num_elements
    /\ \A k \in Keys : u.node[k].key = t.node[k].key

\* Keys are numbers, of which the null pointer is none, and there are finitely many.
LEMMA KeysFacts ==
  /\ Keys \in SUBSET Nat /\ Nil = -1 /\ Nil \notin Keys
  /\ IsFiniteSet(Keys) /\ Cardinality(Keys) \in Nat
  <1>1. Keys \in SUBSET Nat
    BY TreeMapAssumption DEF Keys
  <1>2. Nil = -1 /\ Nil \notin Keys
    BY <1>1 DEF Nil
  <1>3. IsFiniteSet(Keys)
    <2>1. Hash \in Surjection(Names, Keys)
      BY TreeMapAssumption DEF Keys, Surjection
    <2> QED
      BY <2>1, TreeMapAssumption, FS_Surjection
  <1> QED
    BY <1>1, <1>2, <1>3, FS_CardinalityType

\* A place is the root or a side of a node, and never both.
LEMMA PlacesFacts ==
  /\ RootPlace \in Places
  /\ \A k \in Keys, s \in Sides : <<k, s>> \in Places /\ <<k, s>> # RootPlace
  /\ \A p \in Places : p # RootPlace => \E k \in Keys, s \in Sides : p = <<k, s>>
  <1>1. \A k \in Keys, s \in Sides : <<k, s>> \in Places
    BY DEF Places
  <1>2. \A k \in Keys, s \in Sides : <<k, s>> # RootPlace
    BY KeysFacts DEF RootPlace
  <1>3. ASSUME NEW p \in Places, p # RootPlace
        PROVE  \E k \in Keys, s \in Sides : p = <<k, s>>
    BY <1>3 DEF Places
  <1> QED
    BY <1>1, <1>2, <1>3 DEF Places

\* Storing a pointer changes what is in that place and nothing else.
LEMMA StoreFacts ==
  ASSUME NEW t \in Trees, NEW p \in Places, NEW c \in Pointers
  PROVE  /\ Kids(Store(t, p, c)) = [Kids(t) EXCEPT ![p] = c]
         /\ Bals(Store(t, p, c)) = Bals(t)
         /\ SameRest(t, Store(t, p, c))
         /\ \A k \in Keys : p \notin {k} \X Sides => Store(t, p, c).node[k] = t.node[k]
  <1> USE KeysFacts
  <1> DEFINE u == Store(t, p, c)
  <1>1. CASE p = RootPlace
    <2>1. u = [t EXCEPT !.root = c]
      BY <1>1 DEF Store
    <2>2. u \in Trees /\ u.node = t.node /\ u.root = c /\ u.value = t.value
          /\ u.num_elements = t.num_elements
      BY <2>1 DEF Trees
    <2>3. Kids(u) = [Kids(t) EXCEPT ![p] = c]
      BY <1>1, <2>2 DEF Kids, At
    <2> QED
      BY <2>2, <2>3 DEF Bals, SameRest
  <1>2. CASE p # RootPlace
    <2>1. PICK k \in Keys, s \in Sides : p = <<k, s>>
      BY <1>2, PlacesFacts
    <2>2. u = [t EXCEPT !.node[k][s] = c]
      BY <1>2, <2>1 DEF Store
    <2>3. /\ u \in Trees /\ u.root = t.root /\ u.value = t.value
          /\ u.num_elements = t.num_elements
          /\ \A j \in Keys : j # k => u.node[j] = t.node[j]
          /\ u.node[k][s] = c
          /\ \A s2 \in Sides : s2 # s => u.node[k][s2] = t.node[k][s2]
          /\ u.node[k].key = t.node[k].key /\ u.node[k].balance = t.node[k].balance
      <3>1. CASE s = "left"
        <4> DEFINE m == [t.node[k] EXCEPT !.left = c]
        <4>1. /\ m \in Node /\ m.left = c /\ m.right = t.node[k].right
              /\ m.key = t.node[k].key /\ m.balance = t.node[k].balance
          BY DEF Trees, Node
        <4>2. u = [t EXCEPT !.node[k] = m]
          BY <2>2, <3>1
        <4> HIDE DEF m
        <4>3. /\ u \in Trees /\ u.root = t.root /\ u.value = t.value
              /\ u.num_elements = t.num_elements
              /\ \A j \in Keys : j # k => u.node[j] = t.node[j]
              /\ u.node[k] = m
          BY <4>1, <4>2 DEF Trees
        <4> QED
          BY <3>1, <4>1, <4>3 DEF Sides
      <3>2. CASE s = "right"
        <4> DEFINE m == [t.node[k] EXCEPT !.right = c]
        <4>1. /\ m \in Node /\ m.right = c /\ m.left = t.node[k].left
              /\ m.key = t.node[k].key /\ m.balance = t.node[k].balance
          BY DEF Trees, Node
        <4>2. u = [t EXCEPT !.node[k] = m]
          BY <2>2, <3>2
        <4> HIDE DEF m
        <4>3. /\ u \in Trees /\ u.root = t.root /\ u.value = t.value
              /\ u.num_elements = t.num_elements
              /\ \A j \in Keys : j # k => u.node[j] = t.node[j]
              /\ u.node[k] = m
          BY <4>1, <4>2 DEF Trees
        <4> QED
          BY <3>2, <4>1, <4>3 DEF Sides
      <3> QED
        BY <3>1, <3>2 DEF Sides
    <2> HIDE DEF u
    <2>4. ASSUME NEW q \in Places
          PROVE  At(u, q) = IF q = p THEN c ELSE At(t, q)
      <3>1. CASE q = RootPlace
        BY <3>1, <1>2, <2>3 DEF At
      <3>2. CASE q # RootPlace
        <4>1. PICK j \in Keys, s2 \in Sides : q = <<j, s2>>
          BY <3>2, PlacesFacts
        <4> QED
          BY <2>1, <2>3, <3>2, <4>1 DEF At
      <3> QED
        BY <3>1, <3>2
    <2>5. Kids(u) = [Kids(t) EXCEPT ![p] = c]
      BY <2>4 DEF Kids
    <2>6. Bals(u) = Bals(t) /\ SameRest(t, u)
      BY <2>3 DEF Bals, SameRest
    <2>7. \A j \in Keys : p \notin {j} \X Sides => u.node[j] = t.node[j]
      BY <2>1, <2>3
    <2> QED
      BY <2>5, <2>6, <2>7 DEF u
  <1> QED
    BY <1>1, <1>2

\* Setting a balance changes no pointer.
LEMMA SetBalanceFacts ==
  ASSUME NEW t \in Trees, NEW k \in Keys, NEW b \in Int
  PROVE  /\ Kids(SetBalance(t, k, b)) = Kids(t)
         /\ Bals(SetBalance(t, k, b)) = [Bals(t) EXCEPT ![k] = b]
         /\ SameRest(t, SetBalance(t, k, b))
         /\ \A j \in Keys : j # k => SetBalance(t, k, b).node[j] = t.node[j]
  <1> USE KeysFacts
  <1> DEFINE u == SetBalance(t, k, b)
  <1>1. /\ u \in Trees /\ u.root = t.root /\ u.value = t.value
        /\ u.num_elements = t.num_elements
        /\ \A j \in Keys : j # k => u.node[j] = t.node[j]
        /\ u.node[k].left = t.node[k].left /\ u.node[k].right = t.node[k].right
        /\ u.node[k].key = t.node[k].key /\ u.node[k].balance = b
    BY DEF SetBalance, Trees, Node
  <1> HIDE DEF u
  <1>2. ASSUME NEW q \in Places
        PROVE  At(u, q) = At(t, q)
    <2>1. CASE q = RootPlace
      BY <2>1, <1>1 DEF At
    <2>2. CASE q # RootPlace
      <3>1. PICK j \in Keys, s \in Sides : q = <<j, s>>
        BY <2>2, PlacesFacts
      <3>2. u.node[j][s] = t.node[j][s]
        BY <1>1 DEF Sides
      <3> QED
        BY <2>2, <3>1, <3>2 DEF At
    <2> QED
      BY <2>1, <2>2
  <1>3. Kids(u) = Kids(t)
    BY <1>2 DEF Kids
  <1>4. Bals(u) = [Bals(t) EXCEPT ![k] = b]
    BY <1>1 DEF Bals
  <1> QED
    BY <1>1, <1>3, <1>4 DEF u, SameRest

\* Pointers, balances and places of a typed tree have their types.
LEMMA KidsType ==
  ASSUME NEW t \in Trees
  PROVE  /\ Kids(t) \in [Places -> Pointers] /\ Bals(t) \in [Keys -> Int]
         /\ Kids(t)[RootPlace] = t.root
         /\ \A k \in Keys, s \in Sides : Kids(t)[<<k, s>>] = t.node[k][s]
         /\ \A p \in Places : At(t, p) = Kids(t)[p]
         /\ \A k \in Keys : t.node[k].balance = Bals(t)[k]
  <1> USE KeysFacts
  <1>1. ASSUME NEW q \in Places
        PROVE  At(t, q) \in Pointers
    <2>1. CASE q = RootPlace
      BY <2>1 DEF At, Trees
    <2>2. CASE q # RootPlace
      <3>1. PICK j \in Keys, s \in Sides : q = <<j, s>>
        BY <2>2, PlacesFacts
      <3>2. t.node[j][s] \in Pointers
        BY DEF Sides, Trees, Node
      <3> QED
        BY <2>2, <3>1, <3>2 DEF At
    <2> QED
      BY <2>1, <2>2
  <1>2. \A k \in Keys, s \in Sides : Kids(t)[<<k, s>>] = t.node[k][s]
    BY PlacesFacts DEF Kids, At
  <1>3. Bals(t) \in [Keys -> Int]
    BY DEF Bals, Trees, Node
  <1> QED
    BY <1>1, <1>2, <1>3, PlacesFacts DEF Kids, At, Bals

-----------------------------------------------------------------------------
(* Search trees: A is the set of the nodes in use, D[k] that of the nodes in *)
(* the subtree at k.                                                         *)

\* The places in a tree of the nodes A.
Live(A) == {RootPlace} \cup A \X Sides

\* x is on this side of y.
Before(s, x, y) == IF s = "left" THEN x < y ELSE y < x

\* No node is stored in two places.
Single(a, A) == \A p, q \in Live(A) : a[p] = a[q] /\ a[p] # Nil => p = q

\* What is below k is k itself and what is below its children, on the left smaller and on
\* the right larger than k.
Splits(a, D, k) ==
    /\ \A s \in Sides : D[k] = {k} \cup D[a[<<k, s>>]] \cup D[a[<<k, Opposite(s)>>]]
    /\ \A s \in Sides : \A x \in D[a[<<k, s>>]] : Before(s, x, k)

\* A search tree of the nodes A, in which D gives what is below each of them.
Shape(a, A, D) ==
    /\ a \in [Places -> Pointers]
    /\ A \in SUBSET Keys
    /\ D \in [Pointers -> SUBSET Keys]
    /\ D[Nil] = {}
    /\ D[a[RootPlace]] = A
    /\ \A p \in Live(A) : a[p] \in A \cup {Nil}
    /\ Single(a, A)
    /\ \A k \in A : Splits(a, D, k)

\* The other side of the other side is the side itself, and the signs are opposite.
LEMMA SidesFacts ==
  \A s \in Sides : /\ Opposite(s) \in Sides /\ Opposite(s) # s /\ Opposite(Opposite(s)) = s
                   /\ \A r \in Sides : r = s \/ r = Opposite(s)
                   /\ Sign(s) \in {-1, 1} /\ Sign(Opposite(s)) = -Sign(s)
  BY DEF Sides, Opposite, Sign

\* u is t with the child c on side s of the node n at p brought up.
Rotates(t, p, s, o, n, c, u) ==
    /\ t \in Trees /\ p \in Places /\ s \in Sides /\ o \in Sides /\ o = Opposite(s)
    /\ n \in Keys /\ n = Kids(t)[p] /\ c \in Keys /\ c = Kids(t)[<<n, s>>]
    /\ u = rotate(t, p, o)

\* What the rotation has done.
Rotated(t, p, s, o, n, c, u) ==
    /\ Kids(u) = [Kids(t) EXCEPT ![<<n, s>>] = Kids(t)[<<c, o>>], ![<<c, o>>] = n, ![p] = c]
    /\ Bals(u) = Bals(t)
    /\ SameRest(t, u)
    /\ \A k \in Keys \ {n, c} : p \notin {k} \X Sides => u.node[k] = t.node[k]

\* rotate_left() and rotate_right() turn the tree at the place and keep all else.
LEMMA RotateFacts ==
  ASSUME NEW t, NEW p, NEW s, NEW o, NEW n, NEW c, NEW u, Rotates(t, p, s, o, n, c, u)
  PROVE  Rotated(t, p, s, o, n, c, u)
  <1> DEFINE d == Kids(t)[<<c, o>>]
             t1 == Store(t, <<n, s>>, d)
             t2 == Store(t1, <<c, o>>, n)
  <1> USE DEF Rotates
  <1>1. Opposite(o) = s /\ n \in Pointers /\ c \in Pointers
    BY SidesFacts DEF Pointers
  <1>2. n = At(t, p) /\ t.node[n][s] = c /\ t.node[c][o] = d
    BY KidsType
  <1>3. /\ <<n, s>> \in Places /\ <<c, o>> \in Places
        /\ <<n, s>> # RootPlace /\ <<c, o>> # RootPlace
    BY PlacesFacts
  <1>13. d \in Pointers
    BY <1>3, KidsType
  <1> HIDE DEF d
  <1>4. u = Store([t EXCEPT !.node[n][s] = d, !.node[c][o] = n], p, c)
    BY <1>1, <1>2 DEF rotate
  <1>5. t1 = [t EXCEPT !.node[n][s] = d]
    BY <1>3 DEF Store
  <1>6. t2 = [t1 EXCEPT !.node[c][o] = n]
    BY <1>3 DEF Store
  <1>7. u = Store(t2, p, c)
    BY <1>4, <1>5, <1>6
  <1>8. /\ Kids(t1) = [Kids(t) EXCEPT ![<<n, s>>] = d]
        /\ Bals(t1) = Bals(t) /\ SameRest(t, t1)
        /\ \A k \in Keys : <<n, s>> \notin {k} \X Sides => t1.node[k] = t.node[k]
    BY <1>13, <1>3, StoreFacts
  <1>9. t1 \in Trees
    BY <1>8 DEF SameRest
  <1> HIDE DEF t1
  <1>10. /\ Kids(t2) = [Kids(t1) EXCEPT ![<<c, o>>] = n]
         /\ Bals(t2) = Bals(t1) /\ SameRest(t1, t2)
         /\ \A k \in Keys : <<c, o>> \notin {k} \X Sides => t2.node[k] = t1.node[k]
    <2>1. PICK q \in Places, r \in Trees : q = <<c, o>> /\ r = t1
      BY <1>3, <1>9
    <2>2. /\ Kids(Store(r, q, n)) = [Kids(r) EXCEPT ![q] = n]
          /\ Bals(Store(r, q, n)) = Bals(r) /\ SameRest(r, Store(r, q, n))
          /\ \A k \in Keys : q \notin {k} \X Sides => Store(r, q, n).node[k] = r.node[k]
      <3>1. n \in Pointers
        BY <1>1
      <3> QED
        BY ONLY <3>1, StoreFacts, q \in Places, r \in Trees
    <2> QED
      BY <2>1, <2>2, Zenon
  <1>11. t2 \in Trees
    BY <1>10 DEF SameRest
  <1> HIDE DEF t2
  <1>12. /\ Kids(u) = [Kids(t2) EXCEPT ![p] = c]
         /\ Bals(u) = Bals(t2) /\ SameRest(t2, u)
         /\ \A k \in Keys : p \notin {k} \X Sides => u.node[k] = t2.node[k]
    BY <1>1, <1>7, <1>11, StoreFacts
  <1>14. SameRest(t, u)
    BY <1>8, <1>10, <1>12 DEF SameRest
  <1>15. ASSUME NEW k \in Keys \ {n, c}, p \notin {k} \X Sides
         PROVE  u.node[k] = t.node[k]
    <2>1. <<n, s>> \notin {k} \X Sides /\ <<c, o>> \notin {k} \X Sides
      OBVIOUS
    <2> QED
      BY <1>8, <1>10, <1>12, <1>15, <2>1
  <1>16. Kids(u) = [Kids(t) EXCEPT ![<<n, s>>] = d, ![<<c, o>>] = n, ![p] = c]
    BY <1>8, <1>10, <1>12
  <1> QED
    BY <1>8, <1>10, <1>12, <1>16, <1>14, <1>15 DEF d, Rotated

\* The root and the sides of the nodes in use are places, and none of the nodes is null.
LEMMA LiveFacts ==
  ASSUME NEW a, NEW A, NEW D, Shape(a, A, D)
  PROVE  /\ A \in SUBSET Keys /\ A \in SUBSET Pointers /\ Nil \notin A /\ RootPlace \in Live(A)
         /\ \A p \in Live(A) : p \in Places
         /\ \A k \in A, s \in Sides : <<k, s>> \in Live(A)
  <1>1. A \in SUBSET Keys
    BY DEF Shape
  <1>2. \A p \in Live(A) : p \in Places
    BY <1>1, PlacesFacts DEF Live
  <1> QED
    BY <1>1, <1>2, KeysFacts DEF Live, Pointers

\* A node in use is below itself.
LEMMA SelfBelow ==
  ASSUME NEW a, NEW A, NEW D, Shape(a, A, D), NEW k \in A
  PROVE  k \in D[k]
  <1>1. "left" \in Sides /\ Splits(a, D, k)
    BY DEF Sides, Shape
  <1> QED
    BY <1>1 DEF Splits

\* A child in use is not its parent and what is below it is below its parent, on its side.
LEMMA ChildFacts ==
  ASSUME NEW a, NEW A, NEW D, Shape(a, A, D), NEW k \in A, NEW s \in Sides,
         NEW c, c = a[<<k, s>>], NEW o, o = a[<<k, Opposite(s)>>]
  PROVE  /\ <<k, s>> \in Live(A) /\ <<k, s>> \in Places
         /\ k \in Keys /\ k \in Nat /\ c \in Pointers /\ D[c] \in SUBSET Keys
         /\ D[k] = {k} \cup D[c] \cup D[o]
         /\ k \notin D[c]
         /\ \A x \in D[c] : x \notin D[o] /\ Before(s, x, k)
         /\ c # Nil => c \in A /\ c \in Keys /\ c \in D[c] /\ c # k
  <1>1. k \in Keys /\ k \in Nat /\ <<k, s>> \in Live(A) /\ <<k, s>> \in Places
        /\ Opposite(s) \in Sides /\ <<k, Opposite(s)>> \in Places
    BY PlacesFacts, SidesFacts, KeysFacts DEF Shape, Live
  <1>2. c \in A \cup {Nil} /\ c \in Pointers /\ o \in Pointers
    BY <1>1 DEF Shape
  <1>8. D[c] \in SUBSET Keys /\ D[o] \in SUBSET Keys
    BY <1>2 DEF Shape
  <1>3. D[k] = {k} \cup D[c] \cup D[o] /\ \A x \in D[c] : Before(s, x, k)
    BY DEF Shape, Splits
  <1>4. \A x \in D[o] : Before(Opposite(s), x, k)
    BY <1>1 DEF Shape, Splits
  <1>5. \A x \in D[c] : x \in Nat /\ x # k /\ x \notin D[o]
    <2>1. \A x \in D[c] : x \in Nat
      BY <1>8, KeysFacts
    <2>2. CASE s = "left"
      BY <1>1, <1>3, <1>4, <2>1, <2>2 DEF Before, Opposite
    <2>3. CASE s = "right"
      BY <1>1, <1>3, <1>4, <2>1, <2>3 DEF Before, Opposite
    <2> QED
      BY <2>2, <2>3 DEF Sides
  <1>6. ASSUME c # Nil
        PROVE  c \in A /\ c \in D[c] /\ c \in Keys
    <2>1. c \in A /\ c \in Keys
      BY <1>2, <1>6 DEF Shape
    <2>2. Splits(a, D, c)
      BY <2>1 DEF Shape
    <2> QED
      BY <2>1, <2>2 DEF Splits
  <1> QED
    BY <1>1, <1>2, <1>3, <1>5, <1>6, <1>8

\* c is the child of k on side s, and o the other one.
Children(a, A, D, k, s, c, o) ==
    /\ Shape(a, A, D) /\ k \in A /\ s \in Sides
    /\ c = a[<<k, s>>] /\ o = a[<<k, Opposite(s)>>]

\* What is known of the child c.
ChildWell(A, D, k, s, c, o) ==
    /\ <<k, s>> \in Live(A) /\ <<k, s>> \in Places
    /\ k \in Keys /\ k \in Nat /\ c \in Pointers /\ D[c] \in SUBSET Keys
    /\ D[k] = {k} \cup D[c] \cup D[o]
    /\ k \notin D[c]
    /\ \A x \in D[c] : x \notin D[o] /\ Before(s, x, k)
    /\ c # Nil => c \in A /\ c \in Keys /\ c \in D[c] /\ c # k

\* The same facts, of a child that has a name.
LEMMA ChildrenFacts ==
  ASSUME NEW a, NEW A, NEW D, NEW k, NEW s, NEW c, NEW o, Children(a, A, D, k, s, c, o)
  PROVE  ChildWell(A, D, k, s, c, o)
  <1>1. /\ Shape(a, A, D) /\ k \in A /\ s \in Sides
        /\ c = a[<<k, s>>] /\ o = a[<<k, Opposite(s)>>]
    BY DEF Children
  <1>2. /\ <<k, s>> \in Live(A) /\ <<k, s>> \in Places
        /\ k \in Keys /\ k \in Nat /\ c \in Pointers /\ D[c] \in SUBSET Keys
        /\ D[k] = {k} \cup D[c] \cup D[o]
        /\ k \notin D[c]
        /\ \A x \in D[c] : x \notin D[o] /\ Before(s, x, k)
        /\ c # Nil => c \in A /\ c \in Keys /\ c \in D[c] /\ c # k
    BY ONLY <1>1, ChildFacts
  <1> QED
    BY ONLY <1>2 DEF ChildWell

\* What a rotation does to the sets of nodes below the two nodes that change places.
Turned(D, n, c, d, f) == [D EXCEPT ![c] = D[n], ![n] = {n} \cup D[d] \cup D[f]]

\* a2 is a with the child c of the node n at p brought up from its side s.
Turns(a, A, D, p, s, o, n, c, d, e, f, a2) ==
    /\ Shape(a, A, D) /\ p \in Live(A)
    /\ s \in Sides /\ o \in Sides /\ o = Opposite(s)
    /\ n \in A /\ n = a[p] /\ c \in A /\ c = a[<<n, s>>]
    /\ d = a[<<c, o>>] /\ e = a[<<c, s>>] /\ f = a[<<n, o>>]
    /\ a2 = [a EXCEPT ![<<n, s>>] = d, ![<<c, o>>] = n, ![p] = c]

\* What is known of the tree after the rotation.
TurnedWell(a, A, D, p, s, o, n, c, d, e, f, a2) ==
    /\ Shape(a2, A, Turned(D, n, c, d, f))
    /\ a2[p] = c /\ a2[<<n, s>>] = d /\ a2[<<n, o>>] = f
    /\ a2[<<c, o>>] = n /\ a2[<<c, s>>] = e
    /\ \A q \in Places \ {p, <<n, s>>, <<c, o>>} : a2[q] = a[q]
    /\ d \in Pointers /\ e \in Pointers /\ f \in Pointers
    /\ n # c /\ {d, e, f} \cap {n, c} = {}

\* A rotation keeps the tree a search tree with the same nodes.
LEMMA TurnShape ==
  ASSUME NEW a, NEW A, NEW D, NEW p, NEW s, NEW o, NEW n, NEW c, NEW d, NEW e, NEW f, NEW a2,
         Turns(a, A, D, p, s, o, n, c, d, e, f, a2)
  PROVE  TurnedWell(a, A, D, p, s, o, n, c, d, e, f, a2)
  <1> DEFINE D2 == Turned(D, n, c, d, f)
  <1> USE DEF Turns
  <1>1. Opposite(o) = s /\ o # s /\ \A r \in Sides : r = s \/ r = o
    BY SidesFacts
  <1>2. /\ <<n, s>> \in Live(A) /\ <<n, s>> \in Places /\ n \in Keys /\ n \in Nat
        /\ D[n] = {n} \cup D[c] \cup D[f] /\ n \notin D[c]
        /\ \A x \in D[c] : x \notin D[f] /\ Before(s, x, n)
        /\ c \in Keys /\ c \in D[c] /\ c # n /\ D[c] \in SUBSET Keys
    <2>1. A \in SUBSET Keys /\ c \in A
      BY DEF Shape
    <2>2. c # Nil
      BY ONLY <2>1, KeysFacts
    <2>3. Children(a, A, D, n, s, c, f)
      BY Zenon DEF Children
    <2>4. ChildWell(A, D, n, s, c, f)
      BY ONLY <2>3, ChildrenFacts
    <2> QED
      BY ONLY <2>1, <2>2, <2>4 DEF ChildWell
  <1>3. /\ <<n, o>> \in Live(A) /\ <<n, o>> \in Places /\ f \in Pointers /\ n \notin D[f]
        /\ \A x \in D[f] : x \notin D[c] /\ Before(o, x, n)
        /\ f # Nil => f \in A /\ f \in D[f] /\ f # n
        /\ D[f] \in SUBSET Keys
    <2>1. Children(a, A, D, n, o, f, c)
      BY <1>1, Zenon DEF Children
    <2>2. ChildWell(A, D, n, o, f, c)
      BY ONLY <2>1, ChildrenFacts
    <2> QED
      BY ONLY <2>2 DEF ChildWell
  <1>4. /\ <<c, s>> \in Live(A) /\ <<c, s>> \in Places /\ e \in Pointers /\ c \in Nat
        /\ D[c] = {c} \cup D[e] \cup D[d] /\ c \notin D[e]
        /\ \A x \in D[e] : x \notin D[d] /\ Before(s, x, c)
        /\ e # Nil => e \in A /\ e \in D[e] /\ e # c
        /\ D[e] \in SUBSET Keys
    BY ONLY ChildFacts, Shape(a, A, D), c \in A, s \in Sides, o = Opposite(s),
            e = a[<<c, s>>], d = a[<<c, o>>]
  <1>5. /\ <<c, o>> \in Live(A) /\ <<c, o>> \in Places /\ d \in Pointers /\ c \notin D[d]
        /\ \A x \in D[d] : x \notin D[e] /\ Before(o, x, c)
        /\ d # Nil => d \in A /\ d \in D[d] /\ d # c
        /\ D[d] \in SUBSET Keys
    BY ONLY <1>1, ChildFacts, Shape(a, A, D), c \in A, o \in Sides,
            e = a[<<c, s>>], d = a[<<c, o>>]
  <1>6. p \in Places /\ p \notin {<<n, s>>, <<n, o>>, <<c, s>>, <<c, o>>}
    <2>1. p \in Places
      BY PlacesFacts DEF Live, Shape
    <2>2. p # <<n, s>>
      BY <1>2
    <2>3. p # <<n, o>>
      BY <1>3, KeysFacts, <1>2
    <2>4. n \notin D[e] /\ n \notin D[d]
      BY <1>2, <1>4
    <2>5. p # <<c, s>>
      BY <1>2, <1>4, <2>4, KeysFacts
    <2>6. p # <<c, o>>
      BY <1>2, <1>5, <2>4, KeysFacts
    <2> QED
      BY <2>1, <2>2, <2>3, <2>5, <2>6
  <1>7. {d, e, f} \cap {n, c} = {} /\ Nil \notin {n, c}
    <2>1. Nil \notin {n, c}
      BY <1>2, KeysFacts
    <2>2. n \notin D[e] /\ n \notin D[d] /\ c \notin D[f]
      BY <1>2, <1>4
    <2> QED
      BY <2>1, <2>2, <1>3, <1>4, <1>5, <1>2
  <1>8. /\ a2 \in [Places -> Pointers]
        /\ a2[p] = c /\ a2[<<n, s>>] = d /\ a2[<<n, o>>] = f
        /\ a2[<<c, o>>] = n /\ a2[<<c, s>>] = e
        /\ \A q \in Places \ {p, <<n, s>>, <<c, o>>} : a2[q] = a[q]
    <2>1. a \in [Places -> Pointers] /\ n \in Pointers /\ c \in Pointers
      BY <1>2 DEF Shape, Pointers
    <2>2. <<n, o>> # <<n, s>> /\ <<n, o>> # <<c, o>> /\ <<c, s>> # <<n, s>> /\ <<c, s>> # <<c, o>>
          /\ <<n, s>> # <<c, o>>
      BY <1>1, <1>2, Zenon
    <2>3. <<n, s>> \in Places /\ <<c, o>> \in Places /\ <<n, o>> \in Places /\ <<c, s>> \in Places
      BY <1>2, <1>3, <1>4, <1>5
    <2> QED
      BY <1>5, <1>6, <2>1, <2>2, <2>3
  <1>9. /\ D2 \in [Pointers -> SUBSET Keys]
        /\ D2[c] = D[n] /\ D2[n] = {n} \cup D[d] \cup D[f]
        /\ \A x \in Pointers : x \notin {n, c} => D2[x] = D[x]
    <2>1. D \in [Pointers -> SUBSET Keys] /\ n \in Pointers /\ c \in Pointers
      BY <1>2 DEF Shape, Pointers
    <2>2. {n} \cup D[d] \cup D[f] \in SUBSET Keys /\ D[n] \in SUBSET Keys /\ c # n
      BY <1>2, <1>3, <1>5
    <2> HIDE DEF D2
    <2>3. D2 = [D EXCEPT ![c] = D[n], ![n] = {n} \cup D[d] \cup D[f]]
      BY DEF D2, Turned
    <2> QED
      BY ONLY <2>1, <2>2, <2>3
  <1> HIDE DEF D2
  <1>10. /\ A \in SUBSET Keys /\ D[Nil] = {} /\ D[a[RootPlace]] = A /\ RootPlace \in Live(A)
         /\ \A q \in Live(A) : a[q] \in A \cup {Nil} /\ a[q] \in Pointers /\ q \in Places
    <2>1. \A q \in Live(A) : q \in Places
      BY PlacesFacts DEF Live, Shape
    <2> QED
      BY <2>1 DEF Shape, Live
  <1>11. \A q \in Live(A) : a2[q] \in A \cup {Nil}
    BY <1>3, <1>4, <1>5, <1>8, <1>10, Zenon
  <1>12. Single(a2, A)
    <2> DEFINE pi == [q \in Live(A) |-> CASE q = <<n, s>> -> <<c, o>> [] q = <<c, o>> -> p
                                          [] q = p -> <<n, s>> [] OTHER -> q]
    <2>1. <<n, s>> # <<c, o>> /\ p # <<n, s>> /\ p # <<c, o>>
      BY <1>2, <1>6
    <2>2. \A q \in Live(A) : pi[q] \in Live(A)
      BY <1>2, <1>5
    <2>3. \A q, r \in Live(A) : pi[q] = pi[r] => q = r
      BY <2>1
    <2>4. \A q \in Live(A) : a2[q] = a[pi[q]]
      BY <1>8, <1>10, <2>1, <1>2, <1>5
    <2> HIDE DEF pi
    <2>5. Single(a, A)
      BY DEF Shape
    <2> QED
      BY <2>2, <2>3, <2>4, <2>5 DEF Single
  <1>13. \A q \in Live(A) : q \notin {p, <<n, s>>} => a[q] \notin {n, c}
    BY <1>2, <1>7 DEF Shape, Single
  <1>14. D2[a2[RootPlace]] = A
    <2>1. CASE p = RootPlace
      BY <2>1, <1>8, <1>9, <1>10
    <2>2. CASE p # RootPlace
      <3>1. RootPlace \notin {p, <<n, s>>, <<c, o>>}
        BY <2>2, <1>2, PlacesFacts
      <3> QED
        BY <3>1, <1>8, <1>9, <1>10, <1>13
    <2> QED
      BY <2>1, <2>2
  <1>15. ASSUME NEW k \in A, k # n, k # c
         PROVE  Splits(a2, D2, k)
    <2>1. ASSUME NEW r \in Sides
          PROVE  D2[a2[<<k, r>>]] = D[a[<<k, r>>]]
      <3>1. <<k, r>> \in Live(A) /\ <<k, r>> \notin {<<n, s>>, <<c, o>>}
        BY <1>15 DEF Live
      <3>2. CASE <<k, r>> = p
        BY <3>2, <1>8, <1>9
      <3>3. CASE <<k, r>> # p
        BY <3>1, <3>3, <1>8, <1>9, <1>10, <1>13
      <3> QED
        BY <3>2, <3>3
    <2>2. D2[k] = D[k]
      BY <1>9, <1>10, <1>15 DEF Pointers
    <2>3. Splits(a, D, k)
      BY DEF Shape
    <2> QED
      BY <2>1, <2>2, <2>3, SidesFacts DEF Splits
  <1>16. D2[d] = D[d] /\ D2[e] = D[e] /\ D2[f] = D[f]
    BY ONLY <1>3, <1>4, <1>5, <1>7, <1>9
  <1>17. Splits(a2, D2, n)
    <2>1. \A x \in D[d] : Before(s, x, n)
      BY <1>2, <1>4
    <2>2. D2[n] = {n} \cup D2[a2[<<n, s>>]] \cup D2[a2[<<n, o>>]]
      BY ONLY <1>8, <1>9, <1>16
    <2>3. (\A x \in D2[a2[<<n, s>>]] : Before(s, x, n)) /\ (\A x \in D2[a2[<<n, o>>]] : Before(o, x, n))
      BY <1>3, <1>8, <1>16, <2>1
    <2> QED
      BY <1>1, <2>2, <2>3 DEF Splits
  <1>18. Splits(a2, D2, c)
    <2>1. \A x \in D2[n] : Before(o, x, c)
      <3>1. Before(s, c, n)
        BY <1>2
      <3>2. ASSUME NEW x \in D[f]
            PROVE  Before(o, x, c)
        <4>1. x \in Nat /\ Before(o, x, n)
          BY <1>3, KeysFacts
        <4>2. s \in Sides /\ o = Opposite(s)
          BY Zenon
        <4>3. n \in Nat /\ c \in Nat
          BY ONLY <1>2, <1>4
        <4> QED
          BY ONLY <3>1, <4>1, <4>2, <4>3 DEF Before, Opposite, Sides
      <3>3. Before(o, n, c)
        BY <3>1 DEF Before, Opposite, Sides
      <3> QED
        BY <1>5, <1>9, <3>2, <3>3
    <2>2. D2[c] = {c} \cup D2[a2[<<c, s>>]] \cup D2[a2[<<c, o>>]]
      BY ONLY <1>2, <1>4, <1>8, <1>9, <1>16
    <2>3. \A x \in D2[a2[<<c, s>>]] : Before(s, x, c)
      BY <1>4, <1>8, <1>16
    <2>4. \A x \in D2[a2[<<c, o>>]] : Before(o, x, c)
      BY <2>1, <1>8
    <2> QED
      BY <1>1, <2>2, <2>3, <2>4 DEF Splits
  <1>19. D2[Nil] = {}
    BY <1>7, <1>9, <1>10 DEF Pointers
  <1>20. Shape(a2, A, D2)
    BY ONLY <1>8, <1>9, <1>10, <1>11, <1>12, <1>14, <1>15, <1>17, <1>18, <1>19 DEF Shape
  <1> QED
    BY <1>2, <1>3, <1>4, <1>5, <1>7, <1>8, <1>20 DEF D2, TurnedWell

-----------------------------------------------------------------------------
(* Heights: h[k] is the height of the subtree at k.                          *)

\* By how much a node with these heights on side s and on the other one leans right.
Lean(s, x, y)   == IF s = "left" THEN y - x ELSE x - y
Higher(x, y)    == IF x > y THEN x ELSE y

\* The height of k is that of its higher child and one, its balance is the difference of the
\* heights of its children, and it does not lean by two.
Leveled(a, b, h, k) ==
    \A s \in Sides :
        /\ h[k] = 1 + Higher(h[a[<<k, s>>]], h[a[<<k, Opposite(s)>>]])
        /\ b[k] = Lean(s, h[a[<<k, s>>]], h[a[<<k, Opposite(s)>>]])
        /\ b[k] \in -1 .. 1

\* Heights are numbers, and nothing has the height 0.
Heights(b, h) == b \in [Keys -> Int] /\ h \in [Pointers -> Nat] /\ h[Nil] = 0

\* The subtree at place p was put in order: all its nodes are level, and outside it
\* only p has changed.
Mended(a, b, A, D, h, p, a2, b2, D2, h2) ==
    /\ Shape(a2, A, D2) /\ Heights(b2, h2)
    /\ a2[p] \in A /\ D2[a2[p]] = D[a[p]]
    /\ RootPlace # p => a2[RootPlace] = a[RootPlace]
    /\ \A k \in A \cap D[a[p]] : Leveled(a2, b2, h2, k)
    /\ \A k \in A \ D[a[p]] :
          /\ D2[k] = D[k] /\ b2[k] = b[k] /\ h2[k] = h[k]
          /\ \A r \in Sides : <<k, r>> # p => /\ a2[<<k, r>>] = a[<<k, r>>]
                                              /\ h2[a[<<k, r>>]] = h[a[<<k, r>>]]

\* A lean by one or none in terms of the heights.
LEMMA LeanFacts ==
  ASSUME NEW s \in Sides, NEW x \in Int, NEW y \in Int
  PROVE  /\ Lean(s, x, y) = Sign(s) <=> x = y + 1
         /\ Lean(s, x, y) = 0 <=> x = y
         /\ Lean(s, x, y) = 0 - Sign(s) <=> y = x + 1
         /\ Lean(s, x, y) \in -1 .. 1 => x = y + 1 \/ x = y \/ y = x + 1
         /\ Sign(s) \in -1 .. 1 /\ 0 - Sign(s) \in -1 .. 1 /\ 0 \in -1 .. 1
         /\ Sign(s) # 0 /\ 0 - Sign(s) # 0 /\ Sign(s) # 0 - Sign(s)
         /\ -Sign(s) = 0 - Sign(s)
  <1>3. -Sign(s) = 0 - Sign(s)
    BY DEF Sign
  <1>1. CASE s = "left"
    <2>1. Sign(s) = -1 /\ Lean(s, x, y) = y - x
      BY <1>1 DEF Lean, Sign
    <2>2. 0 - Sign(s) = 1
      BY <2>1
    <2> QED
      BY <1>3, <2>1, <2>2
  <1>2. CASE s = "right"
    <2>1. Sign(s) = 1 /\ Lean(s, x, y) = x - y
      BY <1>2 DEF Lean, Sign
    <2> QED
      BY <1>3, <2>1
  <1> QED
    BY <1>1, <1>2 DEF Sides

\* It is enough to show the heights and the balance of a node as seen from one side.
LEMMA LeveledOn ==
  ASSUME NEW a, NEW b, NEW h, NEW k, NEW s \in Sides, NEW x \in Int, NEW y \in Int,
         x = h[a[<<k, s>>]], y = h[a[<<k, Opposite(s)>>]],
         h[k] = 1 + Higher(x, y), b[k] = Lean(s, x, y), b[k] \in -1 .. 1
  PROVE  Leveled(a, b, h, k)
  <1>1. ASSUME NEW r \in Sides, r # s
        PROVE  r = Opposite(s) /\ Opposite(r) = s
    BY <1>1, SidesFacts
  <1>2. Higher(x, y) = Higher(y, x) /\ Lean(s, x, y) = Lean(Opposite(s), y, x)
    BY DEF Higher, Lean, Opposite, Sides
  <1> QED
    BY <1>1, <1>2 DEF Leveled

\* A place is outside the subtree that hangs in it.
LEMMA OwnerOutside ==
  ASSUME NEW a, NEW A, NEW D, Shape(a, A, D), NEW p \in Live(A), NEW n \in A, n = a[p],
         NEW k \in A, k \in D[n]
  PROVE  \A r \in Sides : <<k, r>> # p
  <1> SUFFICES ASSUME NEW r \in Sides, <<k, r>> = p
               PROVE  FALSE
    OBVIOUS
  <1>1. n = a[<<k, r>>] /\ n # Nil
    BY KeysFacts DEF Shape
  <1>2. PICK o : o = a[<<k, Opposite(r)>>]
    OBVIOUS
  <1>3. k \notin D[n]
    BY ONLY ChildFacts, Shape(a, A, D), k \in A, r \in Sides, <1>1, <1>2
  <1> QED
    BY <1>3

\* To mend a subtree it is enough to level the nodes that were changed.
LEMMA MendedIntro ==
  ASSUME NEW a, NEW b, NEW A, NEW D, NEW h, NEW p \in Live(A), Shape(a, A, D), Heights(b, h),
         NEW n \in A, n = a[p], \A k \in A \ {n} : Leveled(a, b, h, k),
         NEW a2, NEW b2, NEW D2, NEW h2, Shape(a2, A, D2), Heights(b2, h2),
         a2[p] \in A, D2[a2[p]] = D[n], RootPlace # p => a2[RootPlace] = a[RootPlace],
         NEW W, W \in SUBSET A, W \in SUBSET D[n], n \in W,
         \A k \in A \ W : D2[k] = D[k] /\ b2[k] = b[k] /\ h2[k] = h[k],
         \A k \in A \ W : \A r \in Sides :
            <<k, r>> # p => a2[<<k, r>>] = a[<<k, r>>] /\ a[<<k, r>>] \notin W,
         \A k \in W : Leveled(a2, b2, h2, k)
  PROVE  Mended(a, b, A, D, h, p, a2, b2, D2, h2)
  <1>1. ASSUME NEW k \in A \ W, NEW r \in Sides, <<k, r>> # p
        PROVE  a2[<<k, r>>] = a[<<k, r>>] /\ h2[a[<<k, r>>]] = h[a[<<k, r>>]]
    <2>1. <<k, r>> \in Live(A)
      BY DEF Live
    <2>2. a[<<k, r>>] \in A \cup {Nil}
      BY <2>1 DEF Shape
    <2>3. a2[<<k, r>>] = a[<<k, r>>] /\ a[<<k, r>>] \notin W
      BY <1>1
    <2> QED
      BY <2>2, <2>3 DEF Heights
  <1>2. ASSUME NEW k \in A \cap D[n], k \notin W
        PROVE  Leveled(a2, b2, h2, k)
    <2>1. \A r \in Sides : <<k, r>> # p
      BY OwnerOutside
    <2>2. \A r \in Sides : a2[<<k, r>>] = a[<<k, r>>] /\ h2[a[<<k, r>>]] = h[a[<<k, r>>]]
      BY <1>1, <1>2, <2>1
    <2>3. Leveled(a, b, h, k) /\ b2[k] = b[k] /\ h2[k] = h[k]
      BY <1>2
    <2>4. \A r \in Sides : Opposite(r) \in Sides
      BY SidesFacts
    <2> QED
      BY <2>2, <2>3, <2>4 DEF Leveled
  <1>3. \A k \in A \ D[n] : k \in A \ W
    OBVIOUS
  <1> QED
    BY <1>1, <1>2, <1>3 DEF Mended

\* What the node at p and its child on side s look like when a rotation is due.
TooDeep(a, b, A, D, h, p, s, n, c) ==
    /\ Shape(a, A, D) /\ Heights(b, h) /\ p \in Live(A) /\ s \in Sides
    /\ n \in A /\ n = a[p] /\ c \in A /\ c = a[<<n, s>>]
    /\ \A k \in A \ {n} : Leveled(a, b, h, k)
    /\ h[c] = h[a[<<n, Opposite(s)>>]] + 2

\* One rotation and the balances that are set after it.
OnceDone(a, b, p, s, n, c, a2, b2) ==
    /\ b[c] = 0 \/ b[c] = Sign(s)
    /\ a2 = [a EXCEPT ![<<n, s>>] = a[<<c, Opposite(s)>>], ![<<c, Opposite(s)>>] = n, ![p] = c]
    /\ b2 = IF b[c] = 0 THEN [b EXCEPT ![n] = Sign(s), ![c] = -Sign(s)]
            ELSE [b EXCEPT ![n] = 0, ![c] = 0]

\* One rotation mends the subtree if the child does not lean to the inside; the subtree
\* keeps its height if the child did not lean, and gets lower otherwise.
LEMMA OnceMends ==
  ASSUME NEW a, NEW b, NEW A, NEW D, NEW h, NEW p, NEW s, NEW n, NEW c, NEW a2, NEW b2,
         TooDeep(a, b, A, D, h, p, s, n, c), OnceDone(a, b, p, s, n, c, a2, b2)
  PROVE  \E D2, h2 : /\ Mended(a, b, A, D, h, p, a2, b2, D2, h2)
                     /\ a2[p] = c
                     /\ h2[c] = IF b[c] = 0 THEN h[c] + 1 ELSE h[c]
  <1>0. PICK o, d, e, f : /\ o = Opposite(s) /\ d = a[<<c, o>>] /\ e = a[<<c, s>>]
                          /\ f = a[<<n, o>>]
    OBVIOUS
  <1> USE <1>0 DEF OnceDone
  <1> DEFINE D2 == Turned(D, n, c, d, f)
             h2 == IF b[c] = 0 THEN [h EXCEPT ![n] = h[c], ![c] = h[c] + 1]
                   ELSE [h EXCEPT ![n] = h[c] - 1]
  <1>1. /\ Shape(a, A, D) /\ Heights(b, h) /\ p \in Live(A) /\ s \in Sides /\ o \in Sides
        /\ n \in A /\ n = a[p] /\ c \in A /\ c = a[<<n, s>>]
    BY SidesFacts DEF TooDeep
  <1>2. /\ Shape(a2, A, D2)
        /\ a2[p] = c /\ a2[<<n, s>>] = d /\ a2[<<n, o>>] = f
        /\ a2[<<c, o>>] = n /\ a2[<<c, s>>] = e
        /\ \A q \in Places \ {p, <<n, s>>, <<c, o>>} : a2[q] = a[q]
        /\ d \in Pointers /\ e \in Pointers /\ f \in Pointers
        /\ n # c /\ {d, e, f} \cap {n, c} = {}
    <2>1. Turns(a, A, D, p, s, o, n, c, d, e, f, a2)
      BY <1>1 DEF Turns
    <2>2. TurnedWell(a, A, D, p, s, o, n, c, d, e, f, a2)
      BY <2>1, TurnShape
    <2> QED
      BY <2>2 DEF TurnedWell
  <1>3. A \in SUBSET Keys /\ A \in SUBSET Pointers /\ n \in Keys /\ c \in Keys /\ n \in Pointers
        /\ c \in Pointers /\ Nil \notin {n, c} /\ Nil \in Pointers
    BY <1>1, KeysFacts DEF Shape, Pointers
  <1>4. /\ h[n] \in Nat /\ h[c] \in Nat /\ h[d] \in Nat /\ h[e] \in Nat /\ h[f] \in Nat
        /\ h[c] = h[f] + 2
        /\ h[c] = 1 + Higher(h[e], h[d]) /\ b[c] = Lean(s, h[e], h[d]) /\ b[c] \in -1 .. 1
    <2>1. /\ h[n] \in Nat /\ h[c] \in Nat /\ h[d] \in Nat /\ h[e] \in Nat /\ h[f] \in Nat
      BY <1>1, <1>2, <1>3 DEF Heights
    <2>2. Leveled(a, b, h, c) /\ h[c] = h[f] + 2
      BY <1>2 DEF TooDeep
    <2> QED
      BY <1>1, <2>1, <2>2 DEF Leveled
  <1>5. /\ b[c] = 0 => h[e] = h[f] + 1 /\ h[d] = h[f] + 1
        /\ b[c] # 0 => h[e] = h[f] + 1 /\ h[d] = h[f]
    BY <1>1, <1>4 DEF Lean, Higher, Sign, Sides
  <1>6. /\ Heights(b2, h2)
        /\ \A x \in Pointers : x \notin {n, c} => h2[x] = h[x]
        /\ \A x \in Keys : x \notin {n, c} => b2[x] = b[x]
        /\ b[c] = 0 => h2[n] = h[c] /\ h2[c] = h[c] + 1 /\ b2[n] = Sign(s) /\ b2[c] = 0 - Sign(s)
        /\ b[c] # 0 => h2[n] = h[c] - 1 /\ h2[c] = h[c] /\ b2[n] = 0 /\ b2[c] = 0
    <2>1. b \in [Keys -> Int] /\ h \in [Pointers -> Nat] /\ h[Nil] = 0
          /\ Sign(s) \in Int /\ -Sign(s) = 0 - Sign(s)
      BY <1>1, LeanFacts DEF Heights
    <2>2. CASE b[c] = 0
      <3>1. h2 = [h EXCEPT ![n] = h[c], ![c] = h[c] + 1]
            /\ b2 = [b EXCEPT ![n] = Sign(s), ![c] = -Sign(s)]
        BY <2>2
      <3> HIDE DEF h2
      <3> QED
        BY ONLY <1>2, <1>3, <1>4, <2>1, <2>2, <3>1 DEF Heights
    <2>3. CASE b[c] # 0
      <3>1. h2 = [h EXCEPT ![n] = h[c] - 1] /\ b2 = [b EXCEPT ![n] = 0, ![c] = 0]
        BY <2>3
      <3>2. h[c] - 1 \in Nat
        BY <1>4
      <3> HIDE DEF h2
      <3> QED
        BY ONLY <1>2, <1>3, <1>4, <2>1, <2>3, <3>1, <3>2 DEF Heights
    <2> QED
      BY <2>2, <2>3
  <1> HIDE DEF h2
  <1>7. h2[d] = h[d] /\ h2[e] = h[e] /\ h2[f] = h[f]
    BY <1>2, <1>6
  <1>8. Leveled(a2, b2, h2, n)
    <2>1. h2[n] = 1 + Higher(h[d], h[f]) /\ b2[n] = Lean(s, h[d], h[f]) /\ b2[n] \in -1 .. 1
      <3>1. CASE b[c] = 0
        <4>1. h[d] = h[f] + 1 /\ h2[n] = 1 + h[d] /\ b2[n] = Sign(s)
          BY ONLY <1>4, <1>5, <1>6, <3>1
        <4>2. h[d] \in Int /\ h[f] \in Int
          BY <1>4, <1>6, <3>1
        <4>3. Lean(s, h[d], h[f]) = Sign(s) /\ Sign(s) \in -1 .. 1
          BY <1>1, <4>1, <4>2, LeanFacts
        <4>4. Higher(h[d], h[f]) = h[d]
          BY ONLY <4>1, <4>2 DEF Higher
        <4> QED
          BY <4>1, <4>3, <4>4
      <3>2. CASE b[c] # 0
        <4>1. h[d] = h[f] /\ h2[n] = 1 + h[f] /\ b2[n] = 0
          BY ONLY <1>4, <1>5, <1>6, <3>2
        <4>2. h[d] \in Int /\ h[f] \in Int
          BY <1>4, <1>6, <3>2
        <4>3. Lean(s, h[d], h[f]) = 0 /\ 0 \in -1 .. 1
          BY <1>1, <4>1, <4>2, LeanFacts
        <4>4. Higher(h[d], h[f]) = h[f]
          BY ONLY <4>1, <4>2 DEF Higher
        <4> QED
          BY <4>1, <4>3, <4>4
      <3> QED
        BY <3>1, <3>2
    <2>2. h[d] = h2[a2[<<n, s>>]] /\ h[f] = h2[a2[<<n, Opposite(s)>>]]
      BY <1>2, <1>7
    <2>3. h[d] \in Int /\ h[f] \in Int
      BY <1>4
    <2> QED
      BY ONLY <1>1, <2>1, <2>2, <2>3, LeveledOn
  <1>9. Leveled(a2, b2, h2, c)
    <2>1. h2[c] = 1 + Higher(h[e], h2[n]) /\ b2[c] = Lean(s, h[e], h2[n]) /\ b2[c] \in -1 .. 1
      <3>1. CASE b[c] = 0
        <4>1. h2[n] = h[e] + 1 /\ h2[c] = 1 + h2[n] /\ b2[c] = 0 - Sign(s)
          BY ONLY <1>4, <1>5, <1>6, <3>1
        <4>2. h[e] \in Int /\ h2[n] \in Int
          BY <1>4, <1>6, <3>1
        <4>3. Lean(s, h[e], h2[n]) = 0 - Sign(s) /\ 0 - Sign(s) \in -1 .. 1
          BY <1>1, <4>1, <4>2, LeanFacts
        <4>4. Higher(h[e], h2[n]) = h2[n]
          BY ONLY <4>1, <4>2 DEF Higher
        <4> QED
          BY <4>1, <4>3, <4>4
      <3>2. CASE b[c] # 0
        <4>1. h[e] = h2[n] /\ h2[c] = 1 + h2[n] /\ b2[c] = 0
          BY ONLY <1>4, <1>5, <1>6, <3>2
        <4>2. h[e] \in Int /\ h2[n] \in Int
          BY <1>4, <1>6, <3>2
        <4>3. Lean(s, h[e], h2[n]) = 0 /\ 0 \in -1 .. 1
          BY <1>1, <4>1, <4>2, LeanFacts
        <4>4. Higher(h[e], h2[n]) = h2[n]
          BY ONLY <4>1, <4>2 DEF Higher
        <4> QED
          BY <4>1, <4>3, <4>4
      <3> QED
        BY <3>1, <3>2
    <2>2. h[e] = h2[a2[<<c, s>>]] /\ h2[n] = h2[a2[<<c, Opposite(s)>>]]
      BY <1>2, <1>7
    <2>3. h[e] \in Int /\ h2[n] \in Int
      BY <1>4, <1>6
    <2> QED
      BY ONLY <1>1, <2>1, <2>2, <2>3, LeveledOn
  <1>10. \A k \in A \ {n, c} : D2[k] = D[k] /\ b2[k] = b[k] /\ h2[k] = h[k]
    BY <1>1, <1>3, <1>6 DEF Turned, Shape
  <1>11. ASSUME NEW k \in A \ {n, c}, NEW r \in Sides, <<k, r>> # p
         PROVE  a2[<<k, r>>] = a[<<k, r>>] /\ a[<<k, r>>] \notin {n, c}
    <2>1. <<k, r>> \in Live(A) /\ <<n, s>> \in Live(A) /\ <<k, r>> \in Places
      BY <1>1, <1>3, PlacesFacts DEF Live
    <2>2. <<k, r>> # <<n, s>> /\ <<k, r>> # <<c, o>>
      OBVIOUS
    <2>3. Single(a, A)
      BY <1>1, Zenon DEF Shape
    <2> QED
      BY <1>1, <1>2, <1>3, <1>11, <2>1, <2>2, <2>3 DEF Single
  <1>12. {n, c} \in SUBSET D[n] /\ D2[c] = D[n]
    <2>1. n \in D[n] /\ c \in D[n]
      <3>1. PICK g : g = a[<<n, Opposite(s)>>]
        OBVIOUS
      <3> QED
        BY <1>1, <1>3, <3>1, ChildFacts
    <2> QED
      BY <1>1, <1>2, <1>3, <2>1 DEF Turned, Shape
  <1> HIDE DEF D2
  <1>13. Mended(a, b, A, D, h, p, a2, b2, D2, h2)
    <2>1. \A k \in A \ {n} : Leveled(a, b, h, k)
      BY DEF TooDeep
    <2>2. PICK W : W = {n, c}
      OBVIOUS
    <2>3. W \in SUBSET A /\ W \in SUBSET D[n] /\ n \in W /\ a2[p] \in A /\ D2[a2[p]] = D[n]
      BY <1>1, <1>2, <1>12, <2>2
    <2>4. \A k \in A \ W : D2[k] = D[k] /\ b2[k] = b[k] /\ h2[k] = h[k]
      BY <1>10, <2>2
    <2>5. \A k \in A \ W : \A r \in Sides :
            <<k, r>> # p => a2[<<k, r>>] = a[<<k, r>>] /\ a[<<k, r>>] \notin W
      BY <1>11, <2>2
    <2>6. \A k \in W : Leveled(a2, b2, h2, k)
      BY <1>8, <1>9, <2>2
    <2>7. Shape(a2, A, D2) /\ Heights(b2, h2)
      BY <1>2, <1>6
    <2>8. RootPlace # p => a2[RootPlace] = a[RootPlace]
      BY ONLY <1>1, <1>2, <1>3, PlacesFacts
    <2> QED
      BY ONLY <1>1, <2>1, <2>3, <2>4, <2>5, <2>6, <2>7, <2>8, MendedIntro
  <1> QED
    BY <1>2, <1>6, <1>13

\* The balances after a double rotation.
TwiceBalances(b, s, n, c, g, b2) ==
    /\ b2 \in [Keys -> Int]
    /\ b2[g] = 0
    /\ b2[c] = IF b[g] = 0 - Sign(s) THEN Sign(s) ELSE 0
    /\ b2[n] = IF b[g] = Sign(s) THEN 0 - Sign(s) ELSE 0
    /\ \A k \in Keys : k \notin {n, c, g} => b2[k] = b[k]

\* The first of two rotations, at the child c, which leans to the inside.
HalfDone(a, b, s, o, n, c, g, x, y, e, f, a1) ==
    /\ b[c] = 0 - Sign(s) /\ o = Opposite(s)
    /\ g = a[<<c, o>>] /\ x = a[<<g, s>>] /\ y = a[<<g, o>>] /\ e = a[<<c, s>>] /\ f = a[<<n, o>>]
    /\ a1 = [a EXCEPT ![<<c, o>>] = x, ![<<g, s>>] = c, ![<<n, s>>] = g]

\* What is known of the tree after the first of two rotations.
HalfWell(a, A, D, h, p, s, o, n, c, g, x, y, e, f, a1) ==
    /\ g \in Pointers /\ e \in Pointers /\ f \in Pointers
    /\ c # n /\ D[c] = {c} \cup D[g] \cup D[e]
    /\ A \in SUBSET Keys /\ A \in SUBSET Pointers /\ n \in Keys /\ c \in Keys /\ n \in Pointers
    /\ c \in Pointers /\ Nil \in Pointers /\ Nil \notin A
    /\ h[n] \in Nat /\ h[c] \in Nat /\ h[g] \in Nat /\ h[e] \in Nat /\ h[f] \in Nat
    /\ h[c] = h[f] + 2 /\ h[g] = h[f] + 1 /\ h[e] = h[f]
    /\ g \in A /\ g \in Keys /\ g \in D[n] /\ c \in D[n] /\ n \in D[n]
    /\ Shape(a1, A, Turned(D, c, g, x, e))
    /\ a1[<<n, s>>] = g /\ a1[<<c, o>>] = x /\ a1[<<c, s>>] = e
    /\ a1[<<g, s>>] = c /\ a1[<<g, o>>] = y
    /\ \A q \in Places \ {<<n, s>>, <<c, o>>, <<g, s>>} : a1[q] = a[q]
    /\ x \in Pointers /\ y \in Pointers
    /\ c # g /\ {x, y, e} \cap {c, g} = {}
    /\ n # g /\ p \notin {<<n, s>>, <<n, o>>, <<c, o>>, <<c, s>>, <<g, s>>, <<g, o>>}
    /\ a1[p] = n /\ a1[<<n, o>>] = f /\ p \in Places /\ <<n, o>> \in Places

\* The first of the two rotations brings the inner child g above its parent c.
LEMMA HalfWay ==
  ASSUME NEW a, NEW b, NEW A, NEW D, NEW h, NEW p, NEW s, NEW n, NEW c,
         TooDeep(a, b, A, D, h, p, s, n, c),
         NEW o, NEW g, NEW x, NEW y, NEW e, NEW f, NEW a1,
         HalfDone(a, b, s, o, n, c, g, x, y, e, f, a1)
  PROVE  HalfWell(a, A, D, h, p, s, o, n, c, g, x, y, e, f, a1)
  <1> USE DEF HalfDone
  <1> DEFINE D1 == Turned(D, c, g, x, e)
  <1>1. /\ Shape(a, A, D) /\ Heights(b, h) /\ p \in Live(A) /\ s \in Sides /\ o \in Sides
        /\ n \in A /\ n = a[p] /\ c \in A /\ c = a[<<n, s>>] /\ s = Opposite(o) /\ s # o
    BY SidesFacts DEF TooDeep
  <1>2. /\ <<c, o>> \in Live(A) /\ g \in Pointers /\ e \in Pointers /\ f \in Pointers
        /\ g # Nil => g \in A /\ g \in D[g]
        /\ c \in D[c] /\ c # n /\ D[n] = {n} \cup D[c] \cup D[f] /\ D[c] = {c} \cup D[g] \cup D[e]
    <2>1. c # Nil
      BY <1>1, KeysFacts DEF Shape
    <2>2. /\ c \in D[c] /\ c # n /\ D[n] = {n} \cup D[c] \cup D[f]
      BY ONLY <1>1, <2>1, ChildFacts, f = a[<<n, o>>], o = Opposite(s)
    <2>3. /\ <<c, o>> \in Live(A) /\ g \in Pointers /\ (g # Nil => g \in A /\ g \in D[g])
          /\ D[c] = {c} \cup D[g] \cup D[e]
      BY ONLY <1>1, ChildFacts, g = a[<<c, o>>], e = a[<<c, s>>]
    <2>4. e \in Pointers
      BY ONLY <1>1, ChildFacts, g = a[<<c, o>>], e = a[<<c, s>>], o = Opposite(s)
    <2>5. f \in Pointers
      BY ONLY <1>1, ChildFacts, f = a[<<n, o>>]
    <2> QED
      BY <2>2, <2>3, <2>4, <2>5
  <1>3. A \in SUBSET Keys /\ A \in SUBSET Pointers /\ n \in Keys /\ c \in Keys /\ n \in Pointers
        /\ c \in Pointers /\ Nil \in Pointers /\ Nil \notin A
    BY <1>1, KeysFacts DEF Shape, Pointers
  <1>4. /\ h[n] \in Nat /\ h[c] \in Nat /\ h[g] \in Nat /\ h[e] \in Nat /\ h[f] \in Nat
        /\ h[c] = h[f] + 2 /\ h[g] = h[f] + 1 /\ h[e] = h[f]
    <2>1. /\ h[n] \in Nat /\ h[c] \in Nat /\ h[g] \in Nat /\ h[e] \in Nat /\ h[f] \in Nat
      BY <1>1, <1>2, <1>3 DEF Heights
    <2>2. Leveled(a, b, h, c) /\ h[c] = h[f] + 2
      BY <1>2 DEF TooDeep
    <2>3. h[c] = 1 + Higher(h[e], h[g]) /\ b[c] = Lean(s, h[e], h[g])
      BY <1>1, <2>2 DEF Leveled
    <2>4. h[g] = h[e] + 1
      <3>1. h[g] \in Int /\ h[e] \in Int
        BY <2>1
      <3>2. s \in Sides /\ Lean(s, h[e], h[g]) = 0 - Sign(s)
        BY <1>1, <2>3
      <3> QED
        BY ONLY <3>1, <3>2, LeanFacts
    <2> QED
      BY ONLY <2>1, <2>2, <2>3, <2>4 DEF Higher
  <1>5. g \in A /\ g \in Keys /\ g \in D[n] /\ c \in D[n] /\ n \in D[n]
    <2>1. g # Nil
      BY <1>1, <1>4 DEF Heights
    <2> QED
      BY <1>2, <1>3, <2>1
  <1>6. TurnedWell(a, A, D, <<n, s>>, o, s, c, g, x, y, e, a1)
    <2>1. <<n, s>> \in Live(A)
      BY <1>1 DEF Live
    <2>2. Turns(a, A, D, <<n, s>>, o, s, c, g, x, y, e, a1)
      BY <1>1, <1>5, <2>1 DEF Turns
    <2> QED
      BY <2>2, TurnShape
  <1>7. /\ Shape(a1, A, D1)
        /\ a1[<<n, s>>] = g /\ a1[<<c, o>>] = x /\ a1[<<c, s>>] = e
        /\ a1[<<g, s>>] = c /\ a1[<<g, o>>] = y
        /\ \A q \in Places \ {<<n, s>>, <<c, o>>, <<g, s>>} : a1[q] = a[q]
        /\ x \in Pointers /\ y \in Pointers
        /\ c # g /\ {x, y, e} \cap {c, g} = {}
    BY <1>6 DEF TurnedWell
  <1>8. n # g /\ p \notin {<<n, s>>, <<n, o>>, <<c, o>>, <<c, s>>, <<g, s>>, <<g, o>>}
    <2>1. \A k \in {n, c, g}, r \in Sides : <<k, r>> # p
      BY <1>1, <1>5, OwnerOutside
    <2>2. n \notin D[c]
      <3>1. Children(a, A, D, n, s, c, f)
        BY <1>1, Zenon DEF Children
      <3>2. ChildWell(A, D, n, s, c, f)
        BY ONLY <3>1, ChildrenFacts
      <3> QED
        BY ONLY <3>2 DEF ChildWell
    <2> QED
      BY <1>1, <1>2, <1>5, <2>1, <2>2
  <1>9. a1[p] = n /\ a1[<<n, o>>] = f /\ p \in Places /\ <<n, o>> \in Places
    <2>1. p \in Places /\ <<n, o>> \in Places
      BY <1>1, <1>3, PlacesFacts DEF Live
    <2> QED
      BY <1>1, <1>2, <1>5, <1>7, <1>8, <2>1, Zenon
  <1> QED
    BY <1>2, <1>3, <1>4, <1>5, <1>7, <1>8, <1>9 DEF HalfWell

\* Both rotations and the balances that are set after them.
TwiceDone(a, b, p, s, o, n, c, g, x, y, e, f, a1, a2, b2) ==
    /\ HalfDone(a, b, s, o, n, c, g, x, y, e, f, a1)
    /\ a2 = [a1 EXCEPT ![<<n, s>>] = y, ![<<g, o>>] = n, ![p] = g]
    /\ TwiceBalances(b, s, n, c, g, b2)

\* If the child leans to the inside, two rotations bring up its inner child g and mend the
\* subtree, which gets lower.
LEMMA TwiceMends ==
  ASSUME NEW a, NEW b, NEW A, NEW D, NEW h, NEW p, NEW s, NEW n, NEW c,
         TooDeep(a, b, A, D, h, p, s, n, c),
         NEW o, NEW g, NEW x, NEW y, NEW e, NEW f, NEW a1, NEW a2, NEW b2,
         TwiceDone(a, b, p, s, o, n, c, g, x, y, e, f, a1, a2, b2)
  PROVE  \E D2, h2 : /\ Mended(a, b, A, D, h, p, a2, b2, D2, h2)
                     /\ a2[p] = g /\ a2[<<g, s>>] = c /\ a2[<<g, o>>] = n
                     /\ h2[g] = h[c]
  <1> DEFINE D1 == Turned(D, c, g, x, e)
             D2 == Turned(D1, n, g, y, f)
             h2 == [h EXCEPT ![n] = h[c] - 1, ![c] = h[c] - 1, ![g] = h[c]]
  <1>0. HalfWell(a, A, D, h, p, s, o, n, c, g, x, y, e, f, a1)
    BY HalfWay DEF TwiceDone
  <1> USE DEF TwiceDone, HalfDone
  <1>1. /\ Shape(a, A, D) /\ Heights(b, h) /\ p \in Live(A) /\ s \in Sides /\ o \in Sides
        /\ n \in A /\ n = a[p] /\ c \in A /\ c = a[<<n, s>>] /\ s = Opposite(o) /\ s # o
    BY SidesFacts DEF TooDeep
  <1>2. g \in Pointers /\ e \in Pointers /\ f \in Pointers
        /\ c # n /\ D[c] = {c} \cup D[g] \cup D[e]
    BY <1>0 DEF HalfWell
  <1>3. A \in SUBSET Keys /\ A \in SUBSET Pointers /\ n \in Keys /\ c \in Keys /\ n \in Pointers
        /\ c \in Pointers /\ Nil \in Pointers /\ Nil \notin A
    BY <1>0 DEF HalfWell
  <1>4. /\ h[n] \in Nat /\ h[c] \in Nat /\ h[g] \in Nat /\ h[e] \in Nat /\ h[f] \in Nat
        /\ h[c] = h[f] + 2 /\ h[g] = h[f] + 1 /\ h[e] = h[f]
    BY <1>0 DEF HalfWell
  <1>5. g \in A /\ g \in Keys /\ g \in D[n] /\ c \in D[n] /\ n \in D[n]
    BY <1>0 DEF HalfWell
  <1>7. /\ Shape(a1, A, D1)
        /\ a1[<<n, s>>] = g /\ a1[<<c, o>>] = x /\ a1[<<c, s>>] = e
        /\ a1[<<g, s>>] = c /\ a1[<<g, o>>] = y
        /\ \A q \in Places \ {<<n, s>>, <<c, o>>, <<g, s>>} : a1[q] = a[q]
        /\ x \in Pointers /\ y \in Pointers
        /\ c # g /\ {x, y, e} \cap {c, g} = {}
    BY <1>0 DEF HalfWell
  <1>8. n # g /\ p \notin {<<n, s>>, <<n, o>>, <<c, o>>, <<c, s>>, <<g, s>>, <<g, o>>}
    BY <1>0 DEF HalfWell
  <1>9. a1[p] = n /\ a1[<<n, o>>] = f /\ p \in Places /\ <<n, o>> \in Places
    BY <1>0, Zenon DEF HalfWell
  <1>10. TurnedWell(a1, A, D1, p, s, o, n, g, y, c, f, a2)
    <2>2. Turns(a1, A, D1, p, s, o, n, g, y, c, f, a2)
      BY <1>1, <1>5, <1>7, <1>9, Zenon DEF Turns
    <2> QED
      BY <2>2, TurnShape
  <1>11. /\ Shape(a2, A, D2)
         /\ a2[p] = g /\ a2[<<n, s>>] = y /\ a2[<<n, o>>] = f
         /\ a2[<<g, o>>] = n /\ a2[<<g, s>>] = c
         /\ \A q \in Places \ {p, <<n, s>>, <<g, o>>} : a2[q] = a1[q]
         /\ {y, c, f} \cap {n, g} = {}
    BY <1>10 DEF TurnedWell
  <1>12. a2[<<c, s>>] = e /\ a2[<<c, o>>] = x
    <2>1. <<c, s>> \in Places /\ <<c, o>> \in Places
      BY <1>1, <1>3, PlacesFacts
    <2> QED
      BY <1>2, <1>7, <1>8, <1>11, <2>1
  <1>13. /\ D1 \in [Pointers -> SUBSET Keys] /\ D2[g] = D[n]
         /\ \A k \in A : k \notin {n, c, g} => D2[k] = D[k]
    <2>1. D \in [Pointers -> SUBSET Keys] /\ D1 \in [Pointers -> SUBSET Keys]
      BY <1>1, <1>7, Zenon DEF Shape
    <2>2. D1[n] = D[n] /\ \A k \in A : k \notin {c, g} => D1[k] = D[k]
      BY <1>2, <1>3, <1>8, <2>1 DEF Turned
    <2> HIDE DEF D1
    <2>3. D2 = [D1 EXCEPT ![g] = D1[n], ![n] = {n} \cup D1[y] \cup D1[f]]
      BY DEF Turned
    <2> HIDE DEF D2
    <2>4. g \in Pointers /\ n \in Pointers
      BY <1>2, <1>3
    <2> QED
      BY ONLY <1>3, <1>8, <2>1, <2>2, <2>3, <2>4, Zenon
  <1> HIDE DEF D1, D2
  <1>14. /\ Heights(b2, h2)
         /\ \A k \in Pointers : k \notin {n, c, g} => h2[k] = h[k]
         /\ h2[n] = h[f] + 1 /\ h2[c] = h[f] + 1 /\ h2[g] = h[f] + 2
    <2>1. h \in [Pointers -> Nat] /\ h[Nil] = 0 /\ h[c] - 1 = h[f] + 1 /\ h[c] - 1 \in Nat
      BY <1>1, <1>4 DEF Heights
    <2>2. Nil \notin {n, c, g}
      BY <1>1, <1>3, <1>5
    <2>3. b2 \in [Keys -> Int]
      BY DEF TwiceBalances
    <2>4. h2 \in [Pointers -> Nat] /\ h2[Nil] = 0
      BY <1>2, <1>3, <1>4, <2>1, <2>2
    <2>5. \A k \in Pointers : k \notin {n, c, g} => h2[k] = h[k]
      BY <2>1
    <2>6. h2[n] = h[f] + 1 /\ h2[c] = h[f] + 1 /\ h2[g] = h[f] + 2
      BY <1>2, <1>3, <1>4, <1>7, <1>8, <2>1
    <2> QED
      BY <2>3, <2>4, <2>5, <2>6 DEF Heights
  <1> HIDE DEF h2
  <1>15. /\ h[x] \in Nat /\ h[y] \in Nat
         /\ \/ h[x] = h[f] /\ h[y] = h[f] /\ b[g] = 0
            \/ h[x] = h[f] /\ h[f] = h[y] + 1 /\ b[g] = Sign(s)
            \/ h[f] = h[x] + 1 /\ h[y] = h[f] /\ b[g] = 0 - Sign(s)
    <2>1. h[x] \in Nat /\ h[y] \in Nat
      BY <1>1, <1>7 DEF Heights
    <2>2. Leveled(a, b, h, g)
      BY <1>5, <1>8 DEF TooDeep
    <2>3. h[g] = 1 + Higher(h[x], h[y]) /\ b[g] = Lean(s, h[x], h[y]) /\ b[g] \in -1 .. 1
      BY <1>1, <2>2 DEF Leveled
    <2>4. h[x] = h[y] + 1 \/ h[x] = h[y] \/ h[y] = h[x] + 1
      BY ONLY <1>1, <2>1, <2>3, LeanFacts
    <2>5. CASE h[x] = h[y] + 1
      <3>1. Lean(s, h[x], h[y]) = Sign(s)
        BY ONLY <1>1, <2>1, <2>5, LeanFacts
      <3>2. Higher(h[x], h[y]) = h[x]
        BY ONLY <2>1, <2>5 DEF Higher
      <3> QED
        BY ONLY <1>4, <2>1, <2>3, <2>5, <3>1, <3>2
    <2>6. CASE h[x] = h[y]
      <3>1. Lean(s, h[x], h[y]) = 0
        BY ONLY <1>1, <2>1, <2>6, LeanFacts
      <3>2. Higher(h[x], h[y]) = h[x]
        BY ONLY <2>1, <2>6 DEF Higher
      <3> QED
        BY ONLY <1>4, <2>1, <2>3, <2>6, <3>1, <3>2
    <2>7. CASE h[y] = h[x] + 1
      <3>1. Lean(s, h[x], h[y]) = 0 - Sign(s)
        BY ONLY <1>1, <2>1, <2>7, LeanFacts
      <3>2. Higher(h[x], h[y]) = h[y]
        BY ONLY <2>1, <2>7 DEF Higher
      <3> QED
        BY ONLY <1>4, <2>1, <2>3, <2>7, <3>1, <3>2
    <2> QED
      BY <2>4, <2>5, <2>6, <2>7
  <1>16. h2[x] = h[x] /\ h2[y] = h[y] /\ h2[e] = h[e] /\ h2[f] = h[f]
    <2>1. n \notin {x, e}
      <3>1. n \notin D[c]
        BY ONLY <1>1, ChildFacts, f = a[<<n, o>>], o = Opposite(s)
      <3>2. /\ x # Nil => x \in D[x]
            /\ D[g] = {g} \cup D[x] \cup D[y]
        BY ONLY <1>1, <1>5, ChildFacts, x = a[<<g, s>>], y = a[<<g, o>>], o = Opposite(s)
      <3>3. e # Nil => e \in D[e]
        BY ONLY <1>1, ChildFacts, e = a[<<c, s>>], g = a[<<c, o>>], o = Opposite(s)
      <3> QED
        BY ONLY <1>1, <1>2, <1>3, <3>1, <3>2, <3>3
    <2>2. f # c
      <3>1. <<n, s>> \in Live(A) /\ <<n, o>> \in Live(A) /\ <<n, s>> # <<n, o>>
        BY <1>1 DEF Live
      <3> QED
        BY <1>1, <1>3, <3>1 DEF Shape, Single
    <2> QED
      BY <1>2, <1>7, <1>11, <1>14, <2>1, <2>2
  <1>17. /\ b2[g] = 0
         /\ b2[c] = IF b[g] = 0 - Sign(s) THEN Sign(s) ELSE 0
         /\ b2[n] = IF b[g] = Sign(s) THEN 0 - Sign(s) ELSE 0
         /\ Sign(s) # 0 /\ 0 - Sign(s) # 0 /\ Sign(s) # 0 - Sign(s) /\ Sign(s) \in Int
    BY <1>1, LeanFacts DEF TwiceBalances
  <1>18. Leveled(a2, b2, h2, n)
    <2>1. h2[n] = 1 + Higher(h[y], h[f])
      BY ONLY <1>4, <1>14, <1>15 DEF Higher
    <2>2. b2[n] = Lean(s, h[y], h[f]) /\ b2[n] \in -1 .. 1
      <3>1. CASE b[g] = Sign(s)
        <4>1. h[f] = h[y] + 1 /\ b2[n] = 0 - Sign(s)
          BY ONLY <1>15, <1>17, <3>1
        <4> QED
          BY ONLY <1>1, <1>4, <1>15, <4>1, LeanFacts
      <3>2. CASE b[g] # Sign(s)
        <4>1. h[y] = h[f] /\ b2[n] = 0
          BY ONLY <1>15, <1>17, <3>2
        <4> QED
          BY ONLY <1>1, <1>4, <1>15, <4>1, LeanFacts
      <3> QED
        BY <3>1, <3>2
    <2>3. h[y] = h2[a2[<<n, s>>]] /\ h[f] = h2[a2[<<n, Opposite(s)>>]]
          /\ h[y] \in Int /\ h[f] \in Int
      <3>1. a2[<<n, s>>] = y /\ a2[<<n, Opposite(s)>>] = f
        BY <1>11
      <3> QED
        BY ONLY <1>4, <1>15, <1>16, <3>1
    <2> QED
      BY ONLY <1>1, <2>1, <2>2, <2>3, LeveledOn
  <1>19. Leveled(a2, b2, h2, c)
    <2>1. h2[c] = 1 + Higher(h[e], h[x])
      BY ONLY <1>4, <1>14, <1>15 DEF Higher
    <2>2. b2[c] = Lean(s, h[e], h[x]) /\ b2[c] \in -1 .. 1
      <3>1. CASE b[g] = 0 - Sign(s)
        <4>1. h[e] = h[x] + 1 /\ b2[c] = Sign(s)
          BY ONLY <1>4, <1>15, <1>17, <3>1
        <4> QED
          BY ONLY <1>1, <1>4, <1>15, <4>1, LeanFacts
      <3>2. CASE b[g] # 0 - Sign(s)
        <4>1. h[e] = h[x] /\ b2[c] = 0
          BY ONLY <1>4, <1>15, <1>17, <3>2
        <4> QED
          BY ONLY <1>1, <1>4, <1>15, <4>1, LeanFacts
      <3> QED
        BY <3>1, <3>2
    <2>3. h[e] = h2[a2[<<c, s>>]] /\ h[x] = h2[a2[<<c, Opposite(s)>>]]
          /\ h[e] \in Int /\ h[x] \in Int
      BY <1>4, <1>12, <1>15, <1>16
    <2> QED
      BY ONLY <1>1, <2>1, <2>2, <2>3, LeveledOn
  <1>20. Leveled(a2, b2, h2, g)
    <2>1. h2[g] = 1 + Higher(h2[c], h2[n]) /\ h2[c] \in Int /\ h2[n] \in Int
      BY ONLY <1>4, <1>14 DEF Higher
    <2>2. b2[g] = Lean(s, h2[c], h2[n]) /\ b2[g] \in -1 .. 1
      BY ONLY <1>1, <1>14, <1>17, <2>1, LeanFacts
    <2>3. h2[c] = h2[a2[<<g, s>>]] /\ h2[n] = h2[a2[<<g, Opposite(s)>>]]
      BY <1>11
    <2> QED
      BY ONLY <1>1, <2>1, <2>2, <2>3, LeveledOn
  <1>21. ASSUME NEW k \in A, k \notin {n, c, g}, NEW r \in Sides, <<k, r>> # p
         PROVE  a2[<<k, r>>] = a[<<k, r>>] /\ a[<<k, r>>] \notin {n, c, g}
    <2>1. /\ <<k, r>> \in Live(A) /\ <<n, s>> \in Live(A) /\ <<c, o>> \in Live(A)
          /\ <<k, r>> \in Places
      BY <1>1, <1>3, PlacesFacts DEF Live
    <2>2. <<k, r>> \notin {<<n, s>>, <<c, o>>, <<g, s>>, <<g, o>>}
      BY <1>21
    <2>3. Single(a, A)
      BY <1>1 DEF Shape
    <2>4. a2[<<k, r>>] = a[<<k, r>>]
      BY ONLY <1>7, <1>11, <1>21, <2>1, <2>2
    <2>5. a[<<k, r>>] \notin {n, c, g}
      BY <1>1, <1>3, <1>5, <1>21, <2>1, <2>2, <2>3 DEF Single
    <2> QED
      BY <2>4, <2>5
  <1>22. Mended(a, b, A, D, h, p, a2, b2, D2, h2)
    <2>1. \A k \in A \ {n} : Leveled(a, b, h, k)
      BY DEF TooDeep
    <2>2. PICK W : W = {n, c, g}
      OBVIOUS
    <2>3. W \in SUBSET A /\ W \in SUBSET D[n] /\ n \in W /\ a2[p] \in A /\ D2[a2[p]] = D[n]
      BY ONLY <1>1, <1>5, <1>11, <1>13, <2>2
    <2>4. \A k \in A \ W : D2[k] = D[k] /\ b2[k] = b[k] /\ h2[k] = h[k]
      BY <1>3, <1>13, <1>14, <2>2 DEF TwiceBalances
    <2>5. \A k \in A \ W : \A r \in Sides :
            <<k, r>> # p => a2[<<k, r>>] = a[<<k, r>>] /\ a[<<k, r>>] \notin W
      BY <1>21, <2>2
    <2>6. \A k \in W : Leveled(a2, b2, h2, k)
      BY <1>18, <1>19, <1>20, <2>2
    <2>7. Shape(a2, A, D2) /\ Heights(b2, h2)
      BY <1>11, <1>14
    <2>8. RootPlace # p => a2[RootPlace] = a[RootPlace]
      <3>1. RootPlace \in Places /\ RootPlace \notin {<<n, s>>, <<c, o>>, <<g, s>>, <<g, o>>}
        BY <1>1, <1>3, <1>5, PlacesFacts
      <3> QED
        BY ONLY <1>7, <1>11, <3>1
    <2> QED
      BY ONLY <1>1, <2>1, <2>3, <2>4, <2>5, <2>6, <2>7, <2>8, MendedIntro
  <1>23. h2[g] = h[c] /\ a2[p] = g /\ a2[<<g, s>>] = c /\ a2[<<g, o>>] = n
    BY ONLY <1>4, <1>11, <1>14
  <1> QED
    BY ONLY <1>22, <1>23

-----------------------------------------------------------------------------
(* rebalance() mends the subtree at a place. *)

\* What does not concern the nodes in use stays as it is.
Apart(t, A, u) == SameRest(t, u) /\ \A k \in Keys \ A : u.node[k] = t.node[k]

\* Two changes that each leave the nodes not in use alone do so together.
LEMMA ApartTrans ==
  ASSUME NEW t, NEW A, NEW u, NEW w, Apart(t, A, u), Apart(u, A, w)
  PROVE  Apart(t, A, w)
  BY DEF Apart, SameRest

\* u is t with the balance b in the node k.
BalanceSet(t, A, k, b, u) ==
    /\ u \in Trees /\ Apart(t, A, u) /\ Kids(u) = Kids(t)
    /\ Bals(u) = [Bals(t) EXCEPT ![k] = b]

\* Setting the balance of a node in use changes that balance and nothing else.
LEMMA SetBalanceApart ==
  ASSUME NEW t \in Trees, NEW A \in SUBSET Keys, NEW k \in A, NEW b \in Int
  PROVE  BalanceSet(t, A, k, b, SetBalance(t, k, b))
  <1> DEFINE u == SetBalance(t, k, b)
  <1>1. k \in Keys
    OBVIOUS
  <1>2. /\ Kids(u) = Kids(t) /\ Bals(u) = [Bals(t) EXCEPT ![k] = b] /\ SameRest(t, u)
        /\ \A j \in Keys : j # k => u.node[j] = t.node[j]
    BY <1>1, SetBalanceFacts
  <1> HIDE DEF u
  <1>3. u \in Trees /\ Apart(t, A, u)
    BY <1>2 DEF Apart, SameRest
  <1> QED
    BY <1>2, <1>3 DEF u, BalanceSet

\* A rotation at a node in use leaves the nodes not in use alone.
LEMMA RotateApart ==
  ASSUME NEW t, NEW A, NEW p \in Live(A), NEW s, NEW o, NEW n \in A, NEW c \in A, NEW u, Rotates(t, p, s, o, n, c, u)
  PROVE  Rotated(t, p, s, o, n, c, u) /\ Apart(t, A, u) /\ u \in Trees
  <1>1. Rotated(t, p, s, o, n, c, u)
    BY RotateFacts
  <1>2. SameRest(t, u) /\ \A k \in Keys \ {n, c} : p \notin {k} \X Sides => u.node[k] = t.node[k]
    BY <1>1 DEF Rotated
  <1>3. \A k \in Keys \ A : p \notin {k} \X Sides
    BY PlacesFacts DEF Live
  <1> QED
    BY <1>1, <1>2, <1>3 DEF Apart, SameRest

\* The subtree at p, where the child c was too high, is mended.
Lowered(t, A, D, h, p, c, u) ==
    /\ Apart(t, A, u)
    /\ \E D2, h2 :
         /\ Mended(Kids(t), Bals(t), A, D, h, p, Kids(u), Bals(u), D2, h2)
         /\ h2[Kids(u)[p]] = IF Bals(t)[c] = 0 THEN h[c] + 1 ELSE h[c]
         /\ Bals(u)[Kids(u)[p]] = 0 <=> Bals(t)[c] # 0

\* LowerSide mends a subtree that is too deep on one side.  It keeps its height if the
\* child did not lean, and then its new root leans; otherwise it gets lower and its new root
\* does not lean.
LEMMA LowerSideMends ==
  ASSUME NEW t \in Trees, NEW A, NEW D, NEW h, NEW p, NEW s, NEW n, NEW c,
         TooDeep(Kids(t), Bals(t), A, D, h, p, s, n, c),
         NEW u, u = LowerSide(t, p, s)
  PROVE  Lowered(t, A, D, h, p, c, u)
  <1>0. PICK a, b, o : a = Kids(t) /\ b = Bals(t) /\ o = Opposite(s)
    OBVIOUS
  <1>01. TooDeep(a, b, A, D, h, p, s, n, c)
    BY <1>0
  <1> DEFINE once == rotate(t, p, o)
  <1>1. /\ Shape(a, A, D) /\ Heights(b, h) /\ p \in Live(A) /\ s \in Sides /\ o \in Sides
        /\ n \in A /\ n = a[p] /\ c \in A /\ c = a[<<n, s>>] /\ s = Opposite(o) /\ s # o
    BY <1>0, <1>01, SidesFacts DEF TooDeep
  <1>2. A \in SUBSET Keys /\ n \in Keys /\ c \in Keys /\ p \in Places /\ n # c /\ <<n, s>> \in Live(A)
    <2>1. A \in SUBSET Keys /\ n \in Keys /\ c \in Keys /\ c # Nil /\ p \in Places /\ <<n, s>> \in Live(A)
      BY <1>1, LiveFacts
    <2>2. PICK f : f = a[<<n, o>>]
      OBVIOUS
    <2>3. n # c
      BY ONLY <1>0, <1>1, <2>1, <2>2, ChildFacts
    <2> QED
      BY <2>1, <2>3
  <1>3. At(t, p) = n /\ t.node[n][s] = c /\ t.node[c].balance = b[c] /\ b \in [Keys -> Int]
    BY <1>0, <1>1, <1>2, KidsType
  <1>4. /\ b[c] \in {0, Sign(s), 0 - Sign(s)} /\ Sign(s) \in {-1, 1}
        /\ -Sign(s) = 0 - Sign(s)
    <2>1. n \in A /\ c \in A /\ c # n /\ Leveled(a, b, h, c)
      BY <1>01, <1>1, <1>2 DEF TooDeep
    <2>2. b[c] \in -1 .. 1
      BY <2>1 DEF Leveled, Sides
    <2>3. Sign(s) \in {-1, 1} /\ -Sign(s) = 0 - Sign(s)
      BY <1>1, SidesFacts, LeanFacts
    <2> QED
      BY <2>2, <2>3
  <1>5. CASE b[c] = 0 \/ b[c] = Sign(s)
    <2>1. /\ once \in Trees /\ Apart(t, A, once) /\ Bals(once) = b
          /\ Kids(once) = [a EXCEPT ![<<n, s>>] = a[<<c, o>>], ![<<c, o>>] = n, ![p] = c]
      <3>1. Rotates(t, p, s, o, n, c, once)
        BY <1>0, <1>1, <1>2 DEF Rotates
      <3>2. Rotated(t, p, s, o, n, c, once) /\ Apart(t, A, once) /\ once \in Trees
        BY <1>0, <1>1, <3>1, RotateApart
      <3> QED
        BY <1>0, <3>2 DEF Rotated
    <2> DEFINE x == IF b[c] = 0 THEN Sign(s) ELSE 0
               y == IF b[c] = 0 THEN -Sign(s) ELSE 0
               w == SetBalance(once, n, x)
    <2>2. u = SetBalance(w, c, y)
      <3>1. CASE b[c] = 0
        <4>1. b[c] * Sign(s) = 0
          BY <1>4, <3>1
        <4> QED
          BY <1>0, <1>3, <3>1, <4>1 DEF LowerSide
      <3>2. CASE b[c] # 0
        <4>1. b[c] * Sign(s) > 0
          BY <1>4, <1>5, <3>2
        <4> QED
          BY <1>0, <1>3, <3>2, <4>1 DEF LowerSide
      <3> QED
        BY <3>1, <3>2
    <2>3. x \in Int /\ y \in Int
      BY <1>4
    <2> HIDE DEF once, x, y
    <2>4. /\ w \in Trees /\ Apart(once, A, w) /\ Kids(w) = Kids(once)
          /\ Bals(w) = [b EXCEPT ![n] = x]
      <3>1. BalanceSet(once, A, n, x, w)
        BY <1>1, <1>2, <2>1, <2>3, SetBalanceApart
      <3> QED
        BY <2>1, <3>1 DEF BalanceSet
    <2> HIDE DEF w
    <2>5. /\ u \in Trees /\ Apart(w, A, u) /\ Kids(u) = Kids(w)
          /\ Bals(u) = [b EXCEPT ![n] = x, ![c] = y]
      <3>1. BalanceSet(w, A, c, y, u)
        BY <1>1, <1>2, <2>2, <2>3, <2>4, SetBalanceApart
      <3> QED
        BY <2>4, <3>1 DEF BalanceSet
    <2>6. Apart(t, A, u)
      BY <2>1, <2>4, <2>5, ApartTrans
    <2>7. Bals(u) = IF b[c] = 0 THEN [b EXCEPT ![n] = Sign(s), ![c] = -Sign(s)]
                    ELSE [b EXCEPT ![n] = 0, ![c] = 0]
      BY <2>5 DEF x, y
    <2>8. PICK D2, h2 : /\ Mended(a, b, A, D, h, p, Kids(u), Bals(u), D2, h2)
                        /\ Kids(u)[p] = c
                        /\ h2[c] = IF b[c] = 0 THEN h[c] + 1 ELSE h[c]
      <3>1. OnceDone(a, b, p, s, n, c, Kids(u), Bals(u))
        BY <1>0, <1>5, <2>1, <2>4, <2>5, <2>7 DEF OnceDone
      <3> QED
        BY <1>01, <3>1, OnceMends
    <2>9. Bals(u)[c] = 0 <=> b[c] # 0
      <3>1. Bals(u)[c] = y
        BY <1>2, <1>3, <2>5
      <3> QED
        BY <1>4, <3>1 DEF y
    <2> QED
      BY <1>0, <2>6, <2>8, <2>9 DEF Lowered
  <1>6. CASE b[c] = 0 - Sign(s)
    <2>1. PICK g, x, y : g = a[<<c, o>>] /\ x = a[<<g, s>>] /\ y = a[<<g, o>>]
      OBVIOUS
    <2>2. PICK a1, a2 : /\ a1 = [a EXCEPT ![<<c, o>>] = x, ![<<g, s>>] = c, ![<<n, s>>] = g]
                        /\ a2 = [a1 EXCEPT ![<<n, s>>] = y, ![<<g, o>>] = n, ![p] = g]
      OBVIOUS
    <2>3. PICK e, f : e = a[<<c, s>>] /\ f = a[<<n, o>>]
      OBVIOUS
    <2>4. HalfWell(a, A, D, h, p, s, o, n, c, g, x, y, e, f, a1)
      <3>1. HalfDone(a, b, s, o, n, c, g, x, y, e, f, a1)
        BY <1>0, <1>6, <2>1, <2>2, <2>3 DEF HalfDone
      <3> QED
        BY <1>01, <3>1, HalfWay
    <2>5. g \in A /\ g \in Keys /\ a1[p] = n /\ a1[<<n, s>>] = g /\ a1[<<g, o>>] = y
          /\ n # g /\ c # g
      BY <2>4 DEF HalfWell
    <2> DEFINE half == rotate(t, <<n, s>>, s)
               twice == rotate(half, p, o)
    <2>6. /\ half \in Trees /\ Apart(t, A, half) /\ Bals(half) = b /\ Kids(half) = a1
      <3>1. Rotates(t, <<n, s>>, o, s, c, g, half)
        BY <1>0, <1>1, <1>2, <2>1, <2>5, PlacesFacts DEF Rotates
      <3>2. Rotated(t, <<n, s>>, o, s, c, g, half) /\ Apart(t, A, half) /\ half \in Trees
        BY <1>1, <1>2, <2>5, <3>1, RotateApart
      <3> QED
        BY <1>0, <2>1, <2>2, <3>2 DEF Rotated
    <2> HIDE DEF half
    <2>7. /\ twice \in Trees /\ Apart(half, A, twice) /\ Bals(twice) = b /\ Kids(twice) = a2
      <3>1. Rotates(half, p, s, o, n, g, twice)
        BY <1>0, <1>1, <1>2, <2>5, <2>6 DEF Rotates
      <3>2. Rotated(half, p, s, o, n, g, twice) /\ Apart(half, A, twice) /\ twice \in Trees
        BY <1>1, <2>5, <3>1, RotateApart
      <3> QED
        BY <2>2, <2>5, <2>6, <3>2 DEF Rotated
    <2> HIDE DEF twice
    <2> DEFINE was == b[g]
               lb == IF was > 0 THEN -1 ELSE 0
               rb == IF was < 0 THEN 1 ELSE 0
               l == IF s = "left" THEN c ELSE n
               r == IF s = "left" THEN n ELSE c
               u1 == SetBalance(twice, l, lb)
               u2 == SetBalance(u1, r, rb)
    <2>8. a2[p] = g /\ a2[<<g, s>>] = c /\ a2[<<g, o>>] = n
      <3>1. Turns(a1, A, Turned(D, c, g, x, e), p, s, o, n, g, y, c, f, a2)
        BY <1>0, <1>1, <2>2, <2>4, <2>5 DEF Turns, HalfWell
      <3>2. TurnedWell(a1, A, Turned(D, c, g, x, e), p, s, o, n, g, y, c, f, a2)
        BY <3>1, TurnShape
      <3> QED
        BY <3>2 DEF TurnedWell
    <2>9. /\ At(twice, p) = g /\ twice.node[g].left = l /\ twice.node[g].right = r
          /\ t.node[g].balance = was
      <3>1. /\ At(twice, p) = a2[p] /\ twice.node[g][s] = a2[<<g, s>>]
            /\ twice.node[g][o] = a2[<<g, o>>]
        BY <1>1, <1>2, <2>5, <2>7, KidsType
      <3>2. t.node[g].balance = was
        BY <1>0, <2>5, KidsType
      <3>3. CASE s = "left"
        <4>1. o = "right"
          BY <1>0, <3>3 DEF Opposite
        <4> QED
          BY <2>8, <3>1, <3>2, <3>3, <4>1
      <3>4. CASE s = "right"
        <4>1. o = "left"
          BY <1>0, <3>4 DEF Opposite
        <4> QED
          BY <2>8, <3>1, <3>2, <3>4, <4>1
      <3> QED
        BY <1>1, <3>3, <3>4 DEF Sides
    <2>10. u = SetBalance(u2, g, 0)
      <3>1. ~(b[c] * Sign(s) > 0) /\ b[c] * Sign(s) # 0
        BY <1>4, <1>6
      <3>2. half = rotate(t, <<n, s>>, s) /\ twice = rotate(half, p, o)
        BY DEF half, twice
      <3> QED
        BY <1>0, <1>3, <2>9, <3>1, <3>2 DEF LowerSide
    <2>11. l \in A /\ r \in A /\ lb \in Int /\ rb \in Int /\ l # r /\ l # g /\ r # g
           /\ was \in Int
      BY <1>1, <1>2, <1>3, <2>5
    <2> HIDE DEF lb, rb, l, r
    <2>12. BalanceSet(twice, A, l, lb, u1)
      BY <1>2, <2>7, <2>11, SetBalanceApart
    <2>13. u1 \in Trees /\ Apart(twice, A, u1) /\ Kids(u1) = a2 /\ Bals(u1) = [b EXCEPT ![l] = lb]
      BY <2>7, <2>12 DEF BalanceSet
    <2> HIDE DEF u1
    <2>14. BalanceSet(u1, A, r, rb, u2)
      BY <1>2, <2>11, <2>13, SetBalanceApart
    <2>15. u2 \in Trees /\ Apart(u1, A, u2) /\ Kids(u2) = a2
           /\ Bals(u2) = [b EXCEPT ![l] = lb, ![r] = rb]
      BY <2>13, <2>14 DEF BalanceSet
    <2> HIDE DEF u2
    <2>16. BalanceSet(u2, A, g, 0, u)
      BY <1>2, <2>5, <2>10, <2>15, SetBalanceApart
    <2>17. u \in Trees /\ Apart(u2, A, u) /\ Kids(u) = a2
           /\ Bals(u) = [b EXCEPT ![l] = lb, ![r] = rb, ![g] = 0]
      BY <2>15, <2>16 DEF BalanceSet
    <2>18. Apart(t, A, u)
      BY <2>6, <2>7, <2>13, <2>15, <2>17, ApartTrans
    <2>19. TwiceBalances(b, s, n, c, g, Bals(u))
      <3>1. /\ Bals(u) \in [Keys -> Int] /\ Bals(u)[g] = 0 /\ Bals(u)[l] = lb /\ Bals(u)[r] = rb
            /\ \A k \in Keys : k \notin {l, r, g} => Bals(u)[k] = b[k]
        BY ONLY <1>2, <1>3, <2>5, <2>11, <2>17
      <3>2. was \in -1 .. 1
        <4>1. Leveled(a, b, h, g)
          BY <1>01, <2>5 DEF TooDeep
        <4> QED
          BY <4>1 DEF Leveled, Sides
      <3>3. CASE s = "left"
        <4>1. l = c /\ r = n /\ Sign(s) = 0 - 1
          BY <3>3 DEF l, r, Sign
        <4>2. lb = (IF was = 1 THEN 0 - 1 ELSE 0) /\ rb = (IF was = 0 - 1 THEN 1 ELSE 0)
          BY <3>2 DEF lb, rb
        <4> QED
          BY <3>1, <4>1, <4>2 DEF TwiceBalances
      <3>4. CASE s = "right"
        <4>1. l = n /\ r = c /\ Sign(s) = 1
          BY <3>4 DEF l, r, Sign
        <4>2. lb = (IF was = 1 THEN 0 - 1 ELSE 0) /\ rb = (IF was = 0 - 1 THEN 1 ELSE 0)
          BY <3>2 DEF lb, rb
        <4> QED
          BY <3>1, <4>1, <4>2 DEF TwiceBalances
      <3> QED
        BY <1>1, <3>3, <3>4 DEF Sides
    <2>20. PICK D2, h2 : /\ Mended(a, b, A, D, h, p, Kids(u), Bals(u), D2, h2)
                         /\ Kids(u)[p] = g /\ h2[g] = h[c]
      <3>1. TwiceDone(a, b, p, s, o, n, c, g, x, y, e, f, a1, a2, Bals(u))
        BY <1>0, <1>6, <2>1, <2>2, <2>3, <2>19 DEF TwiceDone, HalfDone
      <3>2. \E D2, h2 : /\ Mended(a, b, A, D, h, p, a2, Bals(u), D2, h2)
                        /\ a2[p] = g /\ a2[<<g, s>>] = c /\ a2[<<g, o>>] = n
                        /\ h2[g] = h[c]
        BY <1>01, <3>1, TwiceMends
      <3> QED
        BY <2>17, <3>2
    <2>21. Bals(u)[g] = 0 /\ b[c] # 0
      <3>1. Bals(u)[g] = 0
        BY <2>19 DEF TwiceBalances
      <3> QED
        BY <1>4, <1>6, <3>1
    <2> QED
      BY <1>0, <2>18, <2>20, <2>21 DEF Lowered
  <1> QED
    BY <1>4, <1>5, <1>6

\* The subtree on side s of the node n at p has become higher (op = 1) or lower (op = -1)
\* and all else is as it was: the balance of n, and h[n], are those from before.
Pending(a, b, A, D, h, p, s, op, n, c, f) ==
    /\ Shape(a, A, D) /\ Heights(b, h) /\ p \in Live(A) /\ s \in Sides /\ op \in {-1, 1}
    /\ n \in A /\ n = a[p] /\ c = a[<<n, s>>] /\ f = a[<<n, Opposite(s)>>]
    /\ \A k \in A \ {n} : Leveled(a, b, h, k)
    /\ h[n] = 1 + Higher(h[c] - op, h[f])
    /\ b[n] = Lean(s, h[c] - op, h[f]) /\ b[n] \in -1 .. 1
    /\ op = 1 => c \in A /\ (b[c] # 0 \/ h[c] = 1)

\* The subtree at p is mended; it has changed its height by op if the loop of insertions
\* or removals goes on, and kept it otherwise.
Settled(t, A, D, h, p, op, u) ==
    /\ Apart(t, A, u)
    /\ \E D2, h2 :
         /\ Mended(Kids(t), Bals(t), A, D, h, p, Kids(u), Bals(u), D2, h2)
         /\ h2[Kids(u)[p]] = IF Bals(u)[Kids(u)[p]] = 0 <=> op = -1 THEN h[Kids(t)[p]] + op
                             ELSE h[Kids(t)[p]]

\* A subtree that is mended, with the height that fits its new balance, is settled.
LEMMA SettledIntro ==
  ASSUME NEW t, NEW A, NEW D, NEW h, NEW p, NEW op, NEW u, NEW D2, NEW h2, Apart(t, A, u),
         Mended(Kids(t), Bals(t), A, D, h, p, Kids(u), Bals(u), D2, h2),
         h2[Kids(u)[p]] = IF Bals(u)[Kids(u)[p]] = 0 <=> op = -1 THEN h[Kids(t)[p]] + op
                          ELSE h[Kids(t)[p]]
  PROVE  Settled(t, A, D, h, p, op, u)
  BY DEF Settled

\* It does not matter what the balance of the node at p was before the subtree was mended.
LEMMA MendedFrom ==
  ASSUME NEW a, NEW b, NEW A, NEW D, NEW h, NEW p, NEW x, NEW n \in A, n = a[p],
         Shape(a, A, D), Heights(b, h),
         NEW b1, b1 = [b EXCEPT ![n] = x], NEW a2, NEW b2, NEW D2, NEW h2,
         Mended(a, b1, A, D, h, p, a2, b2, D2, h2)
  PROVE  Mended(a, b, A, D, h, p, a2, b2, D2, h2)
  <1>1. n \in D[n]
    BY SelfBelow
  <1>2. \A k \in A \ D[n] : k \in Keys /\ b1[k] = b[k]
    BY <1>1 DEF Shape, Heights
  <1> QED
    BY <1>2 DEF Mended

\* A subtree whose root is level already needs no more than its new balance and height.
LEMMA MendedHere ==
  ASSUME NEW a, NEW b, NEW A, NEW D, NEW h, NEW p \in Live(A), NEW n \in A, n = a[p],
         Shape(a, A, D), Heights(b, h), \A k \in A \ {n} : Leveled(a, b, h, k),
         NEW b2, NEW x \in Int, b2 = [b EXCEPT ![n] = x],
         NEW h2, NEW y \in Nat, h2 = [h EXCEPT ![n] = y],
         Leveled(a, b2, h2, n)
  PROVE  Mended(a, b, A, D, h, p, a, b2, D, h2)
  <1>1. n \in D[n] /\ A \in SUBSET Keys /\ A \in SUBSET Pointers /\ Nil \notin A
    <2>1. n \in D[n]
      BY SelfBelow
    <2> QED
      BY <2>1, LiveFacts
  <1>2. Heights(b2, h2)
    BY <1>1 DEF Heights
  <1>3. \A k \in A \ {n} : D[k] = D[k] /\ b2[k] = b[k] /\ h2[k] = h[k]
    BY <1>1 DEF Heights
  <1>4. \A k \in A \ {n} : \A r \in Sides : <<k, r>> # p => a[<<k, r>>] \notin {n}
    <2>1. Single(a, A) /\ \A k \in A, r \in Sides : <<k, r>> \in Live(A)
      BY LiveFacts DEF Shape
    <2> QED
      BY <1>1, <2>1 DEF Single
  <1>5. PICK W : W = {n}
    OBVIOUS
  <1>6. /\ W \in SUBSET A /\ W \in SUBSET D[n] /\ n \in W /\ a[p] \in A
        /\ \A k \in A \ W : D[k] = D[k] /\ b2[k] = b[k] /\ h2[k] = h[k]
        /\ \A k \in A \ W : \A r \in Sides :
              <<k, r>> # p => a[<<k, r>>] = a[<<k, r>>] /\ a[<<k, r>>] \notin W
        /\ \A k \in W : Leveled(a, b2, h2, k)
        /\ D[a[p]] = D[n]
    BY <1>1, <1>3, <1>4, <1>5
  <1>7. PICK a2, D2 : a2 = a /\ D2 = D
    OBVIOUS
  <1>8. Mended(a, b, A, D, h, p, a2, b2, D2, h2)
    <2>1. /\ Shape(a2, A, D2) /\ a2[p] \in A /\ D2[a2[p]] = D[n]
          /\ (RootPlace # p => a2[RootPlace] = a[RootPlace])
          /\ \A k \in A \ W : D2[k] = D[k] /\ b2[k] = b[k] /\ h2[k] = h[k]
          /\ \A k \in A \ W : \A r \in Sides :
                <<k, r>> # p => a2[<<k, r>>] = a[<<k, r>>] /\ a[<<k, r>>] \notin W
          /\ \A k \in W : Leveled(a2, b2, h2, k)
      BY <1>6, <1>7
    <2>2. W \in SUBSET A /\ W \in SUBSET D[n] /\ n \in W
      BY <1>6
    <2> QED
      BY ONLY <1>2, <2>1, <2>2, MendedIntro, p \in Live(A), n \in A, n = a[p],
              Shape(a, A, D), Heights(b, h), \A k \in A \ {n} : Leveled(a, b, h, k)
  <1> QED
    BY <1>7, <1>8

\* rebalance() mends the subtree at p.
LEMMA RebalanceMends ==
  ASSUME NEW t \in Trees, NEW A, NEW D, NEW h, NEW p, NEW s, NEW op, NEW n, NEW c, NEW f,
         Pending(Kids(t), Bals(t), A, D, h, p, s, op, n, c, f),
         NEW u, u = rebalance(t, p, Sign(s), op)
  PROVE  Settled(t, A, D, h, p, op, u)
  <1>0. PICK a, b, o : a = Kids(t) /\ b = Bals(t) /\ o = Opposite(s)
    OBVIOUS
  <1>1. /\ Shape(a, A, D) /\ Heights(b, h) /\ p \in Live(A) /\ s \in Sides /\ o \in Sides
        /\ op \in {-1, 1} /\ n \in A /\ n = a[p] /\ c = a[<<n, s>>] /\ f = a[<<n, o>>]
        /\ \A k \in A \ {n} : Leveled(a, b, h, k)
        /\ h[n] = 1 + Higher(h[c] - op, h[f])
        /\ b[n] = Lean(s, h[c] - op, h[f]) /\ b[n] \in -1 .. 1
        /\ (op = 1 => c \in A /\ (b[c] # 0 \/ h[c] = 1))
        /\ o # s /\ Opposite(o) = s /\ \A r \in Sides : r = s \/ r = o
    BY <1>0, SidesFacts DEF Pending
  <1>2. /\ A \in SUBSET Keys /\ n \in Keys /\ p \in Places /\ A \in SUBSET Pointers
        /\ c \in Pointers /\ f \in Pointers /\ (c # Nil => c \in A) /\ (f # Nil => f \in A)
        /\ n # Nil /\ c # n /\ f # n
    <2>1. c \in Pointers /\ (c # Nil => c \in A /\ c # n)
      BY ONLY <1>0, <1>1, ChildFacts
    <2>2. f \in Pointers /\ (f # Nil => f \in A /\ f # n)
      BY ONLY <1>1, ChildFacts
    <2>3. /\ A \in SUBSET Keys /\ n \in Keys /\ p \in Places /\ A \in SUBSET Pointers /\ n # Nil
      BY <1>1, LiveFacts
    <2> QED
      BY <2>1, <2>2, <2>3
  <1>3. /\ b \in [Keys -> Int] /\ h \in [Pointers -> Nat] /\ h[Nil] = 0
        /\ h[n] \in Nat /\ h[c] \in Nat /\ h[f] \in Nat
    BY <1>1, <1>2 DEF Heights
  <1> DEFINE x == b[n] + op * Sign(s)
             w == SetBalance(t, n, x)
  <1>4. x \in Int /\ x = Lean(s, h[c], h[f]) /\ Sign(s) \in {-1, 1}
    <2>1. CASE s = "left"
      BY <1>1, <1>3, <2>1 DEF Lean, Sign
    <2>2. CASE s = "right"
      BY <1>1, <1>3, <2>2 DEF Lean, Sign
    <2> QED
      BY <1>1, <2>1, <2>2 DEF Sides
  <1>5. At(t, p) = n /\ t.node[n].balance = b[n]
    BY <1>0, <1>1, <1>2, KidsType
  <1>6. u = IF x < -1 THEN LowerSide(w, p, "left")
            ELSE IF x > 1 THEN LowerSide(w, p, "right") ELSE w
    BY <1>5 DEF rebalance
  <1> HIDE DEF x
  <1>7. w \in Trees /\ Apart(t, A, w) /\ Kids(w) = a /\ Bals(w) = [b EXCEPT ![n] = x]
    <2>1. BalanceSet(t, A, n, x, w)
      BY <1>1, <1>2, <1>4, SetBalanceApart
    <2> QED
      BY <1>0, <2>1 DEF BalanceSet
  <1> HIDE DEF w
  <1>8. CASE x \in -1 .. 1
    <2>1. u = w
      BY <1>6, <1>8
    <2>2. PICK y, h2 : y = 1 + Higher(h[c], h[f]) /\ h2 = [h EXCEPT ![n] = y]
      OBVIOUS
    <2>3. y \in Nat /\ h2[n] = y /\ h2[c] = h[c] /\ h2[f] = h[f] /\ Bals(w)[n] = x
      BY <1>2, <1>3, <1>7, <2>2 DEF Higher, Pointers
    <2>4. Leveled(a, Bals(w), h2, n)
      <3>1. h[c] \in Int /\ h[f] \in Int /\ h[c] = h2[a[<<n, s>>]] /\ h[f] = h2[a[<<n, Opposite(s)>>]]
        BY <1>0, <1>1, <1>3, <2>3
      <3>2. h2[n] = 1 + Higher(h[c], h[f]) /\ Bals(w)[n] = Lean(s, h[c], h[f]) /\ Bals(w)[n] \in -1 .. 1
        BY <1>4, <1>8, <2>2, <2>3
      <3> QED
        BY ONLY <1>1, <3>1, <3>2, LeveledOn
    <2>5. Mended(a, b, A, D, h, p, a, Bals(w), D, h2)
      BY <1>1, <1>4, <1>7, <2>2, <2>3, <2>4, MendedHere
    <2>6. y = IF x = 0 <=> op = -1 THEN h[n] + op ELSE h[n]
      <3>1. CASE s = "left"
        BY ONLY <1>1, <1>3, <1>4, <1>8, <2>2, <3>1 DEF Lean, Higher, Sign
      <3>2. CASE s = "right"
        BY ONLY <1>1, <1>3, <1>4, <1>8, <2>2, <3>2 DEF Lean, Higher, Sign
      <3> QED
        BY <1>1, <3>1, <3>2 DEF Sides
    <2>7. Apart(t, A, u) /\ Mended(Kids(t), Bals(t), A, D, h, p, Kids(u), Bals(u), D, h2)
      BY <1>0, <1>7, <2>1, <2>5
    <2>8. h2[Kids(u)[p]] = IF Bals(u)[Kids(u)[p]] = 0 <=> op = -1 THEN h[Kids(t)[p]] + op
                           ELSE h[Kids(t)[p]]
      BY ONLY <1>0, <1>1, <1>7, <2>1, <2>3, <2>6
    <2> QED
      BY ONLY <2>7, <2>8, SettledIntro
  <1>9. CASE x \notin -1 .. 1
    <2>1. PICK r, q, d : /\ r = (IF op = 1 THEN s ELSE o) /\ q = (IF op = 1 THEN o ELSE s)
                         /\ d = (IF op = 1 THEN c ELSE f)
      OBVIOUS
    <2>2. /\ u = LowerSide(w, p, r)
          /\ op = 1  => h[c] = h[f] + 2 /\ h[n] = h[c]
          /\ op = -1 => h[f] = h[c] + 2 /\ h[n] = h[f] + 1
      <3>1. CASE s = "left"
        <4>1. o = "right"
          BY <1>0, <3>1 DEF Opposite
        <4> QED
          BY ONLY <1>1, <1>3, <1>4, <1>6, <1>9, <2>1, <3>1, <4>1 DEF Lean, Higher, Sign
      <3>2. CASE s = "right"
        <4>1. o = "left"
          BY <1>0, <3>2 DEF Opposite
        <4> QED
          BY ONLY <1>1, <1>3, <1>4, <1>6, <1>9, <2>1, <3>2, <4>1 DEF Lean, Higher, Sign
      <3> QED
        BY <1>1, <3>1, <3>2 DEF Sides
    <2>3. /\ r \in Sides /\ q = Opposite(r) /\ d = a[<<n, r>>] /\ d \in A /\ d # n /\ d \in Keys
          /\ h[d] = h[a[<<n, q>>]] + 2 /\ h[n] = IF op = 1 THEN h[d] ELSE h[d] + 1
      <3>1. CASE op = 1
        BY <1>0, <1>1, <1>2, <2>1, <2>2, <3>1
      <3>2. CASE op = -1
        <4>1. r = o /\ q = s /\ d = f /\ op # 1
          BY <2>1, <3>2
        <4>2. h[d] # h[Nil]
          BY <1>3, <2>2, <3>2, <4>1
        <4> QED
          BY <1>0, <1>1, <1>2, <2>2, <3>2, <4>1, <4>2
      <3> QED
        BY <1>1, <3>1, <3>2
    <2>4. TooDeep(Kids(w), Bals(w), A, D, h, p, r, n, d)
      <3>1. Heights(Bals(w), h)
        BY <1>2, <1>3, <1>4, <1>7 DEF Heights
      <3>2. ASSUME NEW k \in A \ {n}
            PROVE  Leveled(a, Bals(w), h, k)
        <4>1. Bals(w)[k] = b[k] /\ Leveled(a, b, h, k)
          BY <1>1, <1>2, <1>3, <1>7
        <4> QED
          BY <4>1 DEF Leveled
      <3> QED
        BY <1>1, <1>7, <2>3, <3>1, <3>2 DEF TooDeep
    <2>5. Lowered(w, A, D, h, p, d, u)
      BY ONLY <1>7, <2>2, <2>4, LowerSideMends
    <2>11. Apart(w, A, u)
      BY <2>5 DEF Lowered
    <2>6. PICK D2, h2 :
               /\ Mended(Kids(w), Bals(w), A, D, h, p, Kids(u), Bals(u), D2, h2)
               /\ h2[Kids(u)[p]] = IF Bals(w)[d] = 0 THEN h[d] + 1 ELSE h[d]
               /\ Bals(u)[Kids(u)[p]] = 0 <=> Bals(w)[d] # 0
      BY <2>5 DEF Lowered
    <2>7. Mended(a, b, A, D, h, p, Kids(u), Bals(u), D2, h2)
      <3>1. PICK b1 : b1 = Bals(w)
        OBVIOUS
      <3>2. b1 = [b EXCEPT ![n] = x] /\ Mended(a, b1, A, D, h, p, Kids(u), Bals(u), D2, h2)
        BY <1>7, <2>6, <3>1
      <3> QED
        BY ONLY <1>1, <3>2, MendedFrom
    <2>8. Apart(t, A, u)
      BY <1>7, <2>11, ApartTrans
    <2>9. Bals(w)[d] = b[d]
      BY <1>3, <1>7, <2>3
    <2>10. h2[Kids(u)[p]] = IF Bals(u)[Kids(u)[p]] = 0 <=> op = -1 THEN h[n] + op ELSE h[n]
      <3>1. CASE op = 1
        <4>1. d = c /\ h[d] # 1 /\ b[d] # 0
          BY <1>1, <1>3, <2>1, <2>2, <3>1
        <4> QED
          BY <2>3, <2>6, <2>9, <3>1, <4>1
      <3>2. CASE op = -1
        <4>1. h[d] \in Nat
          BY <1>2, <1>3, <2>3
        <4> QED
          BY <2>3, <2>6, <2>9, <3>2, <4>1
      <3> QED
        BY <1>1, <3>1, <3>2
    <2> QED
      BY <1>0, <1>1, <2>7, <2>8, <2>10, SettledIntro
  <1> QED
    BY <1>8, <1>9

-----------------------------------------------------------------------------
(* The way back up: the places on a stack.                                   *)

\* The side that a direction on the stack stands for.
SideOf(dir) == IF dir = -1 THEN "left" ELSE "right"

\* The entries of a stack (stack_node).
StackNode == [place : Places, dir : {-1, 1}]

\* The first j places of a stack lead from the root down the tree.
Way(a, A, stack, j) ==
    /\ stack \in Seq(StackNode) /\ j \in 0 .. Len(stack)
    /\ \A x \in 1 .. j : stack[x].place \in Live(A) /\ a[stack[x].place] \in A
    /\ \A x \in 1 .. j : stack[x].place = IF x = 1 THEN RootPlace
                                          ELSE <<a[stack[x - 1].place], SideOf(stack[x - 1].dir)>>

\* What a stack holds at x: a place in use, the direction taken there, and the node that the
\* place before it leads to.
LEMMA WayFacts ==
  ASSUME NEW a, NEW A, NEW stack, NEW j, Way(a, A, stack, j), NEW x \in 1 .. j
  PROVE  /\ x \in Nat /\ x \in 1 .. Len(stack) /\ stack[x].place \in Live(A)
         /\ stack[x].dir \in {-1, 1} /\ SideOf(stack[x].dir) \in Sides
         /\ Sign(SideOf(stack[x].dir)) = stack[x].dir
         /\ a[stack[x].place] \in A
         /\ x = 1 => stack[x].place = RootPlace
         /\ x # 1 => /\ x - 1 \in 1 .. j
                     /\ stack[x].place = <<a[stack[x - 1].place], SideOf(stack[x - 1].dir)>>
  <1>1. x \in Nat /\ x \in 1 .. Len(stack)
    BY DEF Way
  <1>2. stack[x] \in StackNode
    BY <1>1 DEF Way
  <1>3. stack[x].dir \in {-1, 1}
    BY <1>2 DEF StackNode
  <1>4. SideOf(stack[x].dir) \in Sides /\ Sign(SideOf(stack[x].dir)) = stack[x].dir
    BY <1>3 DEF SideOf, Sides, Sign
  <1>5. x # 1 => x - 1 \in 1 .. j
    <2>1. j \in Nat
      BY DEF Way
    <2> QED
      BY ONLY <2>1, x \in 1 .. j
  <1> QED
    BY <1>1, <1>3, <1>4, <1>5 DEF Way

\* Each node on the way is below the one before it.
LEMMA WayStep ==
  ASSUME NEW a, NEW A, NEW D, Shape(a, A, D), NEW stack, NEW j, Way(a, A, stack, j),
         NEW x \in 1 .. j, x # 1
  PROVE  /\ a[stack[x - 1].place] \notin D[a[stack[x].place]]
         /\ D[a[stack[x].place]] \in SUBSET D[a[stack[x - 1].place]]
  <1>1. PICK y, m, n, s, o : /\ y = x - 1 /\ m = a[stack[y].place] /\ n = a[stack[x].place]
                             /\ s = SideOf(stack[y].dir) /\ o = a[<<m, Opposite(s)>>]
    OBVIOUS
  <1>2. y \in 1 .. j /\ stack[x].place = <<m, s>>
    BY <1>1, WayFacts
  <1>3. s \in Sides /\ m \in A
    BY <1>1, <1>2, WayFacts
  <1>4. n = a[<<m, s>>]
    BY <1>1, <1>2
  <1>5. m \notin D[n] /\ D[m] = {m} \cup D[n] \cup D[o]
    BY ONLY <1>1, <1>3, <1>4, ChildFacts, Shape(a, A, D)
  <1> QED
    BY <1>1, <1>5

\* No node on the way is below one that comes after it.
LEMMA WayNested ==
  ASSUME NEW a, NEW A, NEW D, Shape(a, A, D), NEW stack, NEW j, Way(a, A, stack, j),
         NEW x \in 1 .. j, NEW z \in 1 .. j, x < z
  PROVE  a[stack[x].place] \notin D[a[stack[z].place]]
  <1> DEFINE nd(i) == a[stack[i].place]
             Bad == {y \in Nat : y \in x + 1 .. j /\ ~(D[nd(y)] \in SUBSET D[nd(x + 1)])}
  <1>0. j \in Nat /\ x \in Nat /\ z \in Nat
    BY DEF Way
  <1>1. \A i \in 1 .. j : i # 1 => nd(i - 1) \notin D[nd(i)] /\ D[nd(i)] \in SUBSET D[nd(i - 1)]
    BY WayStep
  <1> HIDE DEF nd
  <1>2. Bad = {}
    <2> SUFFICES ASSUME Bad # {}
                 PROVE  FALSE
      OBVIOUS
    <2>1. PICK y \in Bad : \A m \in Bad : y <= m
      BY LeastNatural
    <2>2. y # x + 1
      BY <2>1
    <2>3. y \in 1 .. j /\ y # 1 /\ y - 1 \in Nat /\ y - 1 \in x + 1 .. j /\ y - 1 < y
      BY <1>0, <2>1, <2>2
    <2>4. y - 1 \notin Bad
      BY <1>0, <2>1, <2>3
    <2>5. D[nd(y - 1)] \in SUBSET D[nd(x + 1)]
      BY <2>3, <2>4
    <2>6. D[nd(y)] \in SUBSET D[nd(y - 1)]
      BY <1>1, <2>3
    <2> QED
      BY <2>1, <2>5, <2>6
  <1>3. D[nd(z)] \in SUBSET D[nd(x + 1)]
    BY <1>0, <1>2
  <1>4. nd(x) \notin D[nd(x + 1)]
    <2>1. x + 1 \in 1 .. j /\ x + 1 # 1 /\ (x + 1) - 1 = x
      BY <1>0
    <2> QED
      BY <1>1, <2>1
  <1> QED
    BY <1>3, <1>4 DEF nd

\* Mending the subtree at the last place of the way changes nothing above it.
LEMMA MendedWay ==
  ASSUME NEW a, NEW b, NEW A, NEW D, NEW h, NEW stack, NEW j, Way(a, A, stack, j), j > 0,
         Shape(a, A, D), Heights(b, h), NEW p, p = stack[j].place,
         NEW a2, NEW b2, NEW D2, NEW h2, Mended(a, b, A, D, h, p, a2, b2, D2, h2)
  PROVE  Way(a2, A, stack, j - 1)
  <1>1. PICK n : n = a[p]
    OBVIOUS
  <1>2. j \in Nat /\ j \in 1 .. j /\ n \in A /\ n \in D[n] /\ p \in Live(A)
    <2>1. j \in Nat /\ j \in 1 .. j
      BY DEF Way
    <2>2. n \in A /\ p \in Live(A)
      BY <1>1, <2>1, WayFacts
    <2> QED
      BY <2>1, <2>2, SelfBelow
  <1>3. ASSUME NEW x \in 1 .. j - 1
        PROVE  /\ x \in 1 .. j /\ stack[x].place \in Live(A) /\ a[stack[x].place] \in A \ D[n]
               /\ x \in Nat /\ SideOf(stack[x].dir) \in Sides
               /\ x = 1 => stack[x].place = RootPlace
               /\ x # 1 => stack[x].place = <<a[stack[x - 1].place], SideOf(stack[x - 1].dir)>>
    <2>1. x \in 1 .. j /\ x < j /\ x \in Nat
      BY <1>2
    <2>2. a[stack[x].place] \notin D[n]
      BY <1>1, <1>2, <2>1, WayNested
    <2> QED
      BY <2>1, <2>2, WayFacts
  <1>4. ASSUME NEW x \in 1 .. j - 1
        PROVE  stack[x].place # p
    <2>1. CASE x # 1
      BY <1>1, <1>2, <1>3
    <2>2. CASE x = 1
      BY <1>1, <1>2, <1>3
    <2> QED
      BY <2>1, <2>2
  <1>5. ASSUME NEW x \in 1 .. j - 1
        PROVE  a2[stack[x].place] = a[stack[x].place]
    <2>1. CASE x = 1
      BY <1>3, <1>4, <2>1 DEF Mended
    <2>2. CASE x # 1
      <3>1. PICK y : y = x - 1
        OBVIOUS
      <3>2. y \in 1 .. j - 1
        BY <1>2, <1>3, <2>2, <3>1
      <3>3. PICK k, r : k = a[stack[y].place] /\ r = SideOf(stack[y].dir)
        OBVIOUS
      <3>4. k \in A \ D[a[p]] /\ r \in Sides /\ stack[x].place = <<k, r>> /\ <<k, r>> # p
        BY <1>1, <1>3, <1>4, <2>2, <3>1, <3>2, <3>3
      <3> QED
        BY <3>4 DEF Mended
    <2> QED
      BY <2>1, <2>2
  <1>6. stack \in Seq(StackNode) /\ j - 1 \in 0 .. Len(stack)
    BY <1>2 DEF Way
  <1>7. ASSUME NEW x \in 1 .. j - 1
        PROVE  stack[x].place = IF x = 1 THEN RootPlace
                                ELSE <<a2[stack[x - 1].place], SideOf(stack[x - 1].dir)>>
    <2>1. CASE x # 1
      <3>1. x - 1 \in 1 .. j - 1
        BY <1>2, <1>3, <2>1
      <3> QED
        BY <1>3, <1>5, <2>1, <3>1
    <2>2. CASE x = 1
      BY <1>3, <2>2
    <2> QED
      BY <2>1, <2>2
  <1> QED
    BY <1>3, <1>5, <1>6, <1>7 DEF Way

\* A node that is not the owner of the place that was mended stays level, or has become so.
LEMMA MendedOthers ==
  ASSUME NEW a, NEW b, NEW A, NEW D, NEW h, NEW p, NEW n, n = a[p],
         \A k \in A \ {n} : Leveled(a, b, h, k), n \in D[n],
         NEW a2, NEW b2, NEW D2, NEW h2, Mended(a, b, A, D, h, p, a2, b2, D2, h2),
         NEW k \in A, \A r \in Sides : <<k, r>> # p
  PROVE  Leveled(a2, b2, h2, k)
  <1>1. CASE k \in D[n]
    BY <1>1 DEF Mended
  <1>2. CASE k \notin D[n]
    <2>1. \A r \in Sides : a2[<<k, r>>] = a[<<k, r>>] /\ h2[a[<<k, r>>]] = h[a[<<k, r>>]]
      BY <1>2 DEF Mended
    <2>2. Leveled(a, b, h, k) /\ b2[k] = b[k] /\ h2[k] = h[k]
      BY <1>2 DEF Mended
    <2>3. \A r \in Sides : Opposite(r) \in Sides
      BY SidesFacts
    <2> QED
      BY <2>1, <2>2, <2>3 DEF Leveled
  <1> QED
    BY <1>1, <1>2

\* The tree while the loop goes up the stack: the node at the place j is to be rebalanced,
\* or the loop has ended and every node is level.
Waiting(u, A, D, h, stack, j, op, goes) ==
    /\ u \in Trees /\ op \in {-1, 1}
    /\ Shape(Kids(u), A, D) /\ Heights(Bals(u), h) /\ Way(Kids(u), A, stack, j)
    /\ goes /\ j > 0 =>
          \E n, c, f : Pending(Kids(u), Bals(u), A, D, h, stack[j].place, SideOf(stack[j].dir),
                               op, n, c, f)
    /\ ~goes \/ j = 0 => \A k \in A : Leveled(Kids(u), Bals(u), h, k)

\* The owner m of a place that was mended is level if the subtree has kept its height.
LEMMA OwnerSettled ==
  ASSUME NEW a, NEW b, NEW A, NEW D, NEW h, Shape(a, A, D), Heights(b, h),
         NEW m \in A, NEW s \in Sides, NEW p, p = <<m, s>>, NEW n \in A, n = a[p],
         Leveled(a, b, h, m),
         NEW a2, NEW b2, NEW D2, NEW h2, Mended(a, b, A, D, h, p, a2, b2, D2, h2),
         h2[a2[p]] = h[n]
  PROVE  Leveled(a2, b2, h2, m)
  <1>0. PICK o, f, c : o = Opposite(s) /\ f = a[<<m, o>>] /\ c = a2[p]
    BY Zenon
  <1>1. m \notin D[n] /\ o \in Sides /\ <<m, o>> # p
    <2>1. m \notin D[n]
      BY <1>0, ChildFacts
    <2> QED
      BY <1>0, <2>1, SidesFacts
  <1>2. /\ a2[<<m, o>>] = f /\ h2[f] = h[f] /\ b2[m] = b[m] /\ h2[m] = h[m]
        /\ Shape(a2, A, D2) /\ Heights(b2, h2) /\ c \in A
    BY <1>0, <1>1 DEF Mended
  <1>3. f \in Pointers /\ n \in Pointers
    <2>1. <<m, o>> \in Live(A) /\ A \in SUBSET Pointers
      BY <1>1, LiveFacts
    <2> QED
      BY <1>0, <2>1 DEF Shape, Pointers
  <1>4. h[n] \in Int /\ h[f] \in Int
    BY <1>3 DEF Heights
  <1>5. h[m] = 1 + Higher(h[n], h[f]) /\ b[m] = Lean(s, h[n], h[f]) /\ b[m] \in -1 .. 1
    BY <1>0 DEF Leveled
  <1>6. /\ h[n] = h2[a2[<<m, s>>]] /\ h[f] = h2[a2[<<m, Opposite(s)>>]]
        /\ h2[m] = 1 + Higher(h[n], h[f]) /\ b2[m] = Lean(s, h[n], h[f]) /\ b2[m] \in -1 .. 1
    BY <1>0, <1>2, <1>5
  <1> QED
    BY ONLY <1>4, <1>6, LeveledOn, s \in Sides

\* The subtree at p on side s of m, which is stored in q, was mended and changed its height.
Changed(a, b, A, D, h, m, s, p, n, q, op, a2, b2, D2, h2) ==
    /\ Shape(a, A, D) /\ Heights(b, h) /\ m \in A /\ s \in Sides /\ p = <<m, s>>
    /\ n \in A /\ n = a[p] /\ Leveled(a, b, h, m) /\ q \in Live(A) /\ m = a[q]
    /\ op \in {-1, 1} /\ Mended(a, b, A, D, h, p, a2, b2, D2, h2)
    /\ h2[a2[p]] = h[n] + op /\ (op = 1 => b2[a2[p]] # 0) /\ a2[q] = m
    /\ \A k \in A \ {m} : Leveled(a2, b2, h2, k)

\* The owner m of a place that was mended is to be rebalanced if the subtree has changed its
\* height.
LEMMA OwnerPending ==
  ASSUME NEW a, NEW b, NEW A, NEW D, NEW h, NEW m, NEW s, NEW p, NEW n, NEW q, NEW op,
         NEW a2, NEW b2, NEW D2, NEW h2, Changed(a, b, A, D, h, m, s, p, n, q, op, a2, b2, D2, h2)
  PROVE  \E c, f : Pending(a2, b2, A, D2, h2, q, s, op, m, c, f)
  <1> SUFFICES ASSUME Shape(a, A, D), Heights(b, h), m \in A, s \in Sides, p = <<m, s>>, n \in A,
                      n = a[p], Leveled(a, b, h, m), q \in Live(A), m = a[q], op \in {-1, 1},
                      Mended(a, b, A, D, h, p, a2, b2, D2, h2), h2[a2[p]] = h[n] + op,
                      op = 1 => b2[a2[p]] # 0, a2[q] = m, \A k \in A \ {m} : Leveled(a2, b2, h2, k)
               PROVE  \E c, f : Pending(a2, b2, A, D2, h2, q, s, op, m, c, f)
    BY Zenon DEF Changed
  <1>0. PICK o, f, c : o = Opposite(s) /\ f = a[<<m, o>>] /\ c = a2[p]
    BY Zenon
  <1>1. m \notin D[n] /\ o \in Sides /\ <<m, o>> # p
    <2>1. m \notin D[n]
      BY <1>0, ChildFacts
    <2> QED
      BY <1>0, <2>1, SidesFacts
  <1>2. /\ a2[<<m, o>>] = f /\ h2[f] = h[f] /\ b2[m] = b[m] /\ h2[m] = h[m]
        /\ Shape(a2, A, D2) /\ Heights(b2, h2) /\ c \in A
    BY <1>0, <1>1 DEF Mended
  <1>3. f \in Pointers /\ n \in Pointers
    <2>1. <<m, o>> \in Live(A) /\ A \in SUBSET Pointers
      BY <1>1, LiveFacts
    <2> QED
      BY <1>0, <2>1 DEF Shape, Pointers
  <1>4. h[n] \in Int /\ h[f] \in Int
    BY <1>3 DEF Heights
  <1>5. h[m] = 1 + Higher(h[n], h[f]) /\ b[m] = Lean(s, h[n], h[f]) /\ b[m] \in -1 .. 1
    BY <1>0 DEF Leveled
  <1>6. h2[c] - op = h[n]
    BY <1>0, <1>4
  <1>7. /\ h2[m] = 1 + Higher(h2[c] - op, h2[f])
        /\ b2[m] = Lean(s, h2[c] - op, h2[f]) /\ b2[m] \in -1 .. 1
    BY <1>2, <1>5, <1>6
  <1>8. Pending(a2, b2, A, D2, h2, q, s, op, m, c, f)
    BY <1>0, <1>2, <1>7, Zenon DEF Pending
  <1> QED
    BY <1>8

\* One pass of the loop of Climb: w is u with the place j rebalanced.
Passes(u, A, D, h, stack, j, op, w, goes) ==
    /\ Waiting(u, A, D, h, stack, j, op, TRUE) /\ j > 0
    /\ w = rebalance(u, stack[j].place, stack[j].dir, op)
    /\ goes = (w.node[At(w, stack[j].place)].balance = 0 <=> op = -1)

\* What it leaves.
Passed(u, A, stack, j, op, w, goes) ==
    Apart(u, A, w) /\ \E D2, h2 : Waiting(w, A, D2, h2, stack, j - 1, op, goes)

\* One pass of the loop of Climb settles the subtree of one place, and then only the place
\* above it waits, or none.
LEMMA ClimbPass ==
  ASSUME NEW u, NEW A, NEW D, NEW h, NEW stack, NEW j, NEW op, NEW w, NEW goes,
         Passes(u, A, D, h, stack, j, op, w, goes)
  PROVE  Passed(u, A, stack, j, op, w, goes)
  <1>a. Waiting(u, A, D, h, stack, j, op, TRUE) /\ j > 0
    BY Zenon DEF Passes
  <1>b. w = rebalance(u, stack[j].place, stack[j].dir, op)
    BY Zenon DEF Passes
  <1>c. goes = (w.node[At(w, stack[j].place)].balance = 0 <=> op = -1)
    BY Zenon DEF Passes
  <1>0. PICK a, b, p, s : /\ a = Kids(u) /\ b = Bals(u) /\ p = stack[j].place
                          /\ s = SideOf(stack[j].dir)
    BY Zenon
  <1>1. /\ u \in Trees /\ op \in {-1, 1} /\ Shape(a, A, D) /\ Heights(b, h)
        /\ Way(a, A, stack, j)
    BY ONLY <1>0, <1>a DEF Waiting
  <1>2. PICK n, c, f : Pending(a, b, A, D, h, p, s, op, n, c, f)
    BY ONLY <1>0, <1>a DEF Waiting
  <1>3. /\ p \in Live(A) /\ n \in A /\ n = a[p] /\ s \in Sides
        /\ \A k \in A \ {n} : Leveled(a, b, h, k)
    BY ONLY <1>2 DEF Pending
  <1>4. j \in Nat /\ j \in 1 .. j /\ Sign(s) = stack[j].dir
    <2>1. j \in Nat /\ j \in 1 .. j
      BY ONLY <1>1, <1>a DEF Way
    <2> QED
      BY ONLY <1>0, <1>1, <2>1, WayFacts
  <1>5. Settled(u, A, D, h, p, op, w)
    <2>1. w = rebalance(u, p, Sign(s), op)
      BY ONLY <1>0, <1>4, <1>b
    <2>2. Pending(Kids(u), Bals(u), A, D, h, p, s, op, n, c, f)
      BY ONLY <1>0, <1>2
    <2> QED
      BY ONLY <1>1, <2>1, <2>2, RebalanceMends
  <1>6. PICK a2, b2 : a2 = Kids(w) /\ b2 = Bals(w)
    BY Zenon
  <1>7. Apart(u, A, w) /\ w \in Trees
    BY <1>5, Zenon DEF Settled, Apart, SameRest
  <1>8. PICK D2, h2 : /\ Mended(a, b, A, D, h, p, a2, b2, D2, h2)
                      /\ h2[a2[p]] = IF b2[a2[p]] = 0 <=> op = -1 THEN h[n] + op ELSE h[n]
    BY ONLY <1>0, <1>3, <1>5, <1>6 DEF Settled
  <1>9. Way(a2, A, stack, j - 1)
    BY ONLY <1>0, <1>1, <1>8, MendedWay, <1>4, <1>3
  <1>10. Shape(a2, A, D2) /\ Heights(b2, h2) /\ n \in D[n]
    BY ONLY <1>1, <1>3, <1>8, SelfBelow DEF Mended
  <1>11. goes = (b2[a2[p]] = 0 <=> op = -1)
    <2>1. a2[p] \in A /\ A \in SUBSET Keys /\ p \in Places
      BY ONLY <1>1, <1>3, <1>8, LiveFacts DEF Mended
    <2>2. w.node[At(w, p)].balance = b2[a2[p]]
      BY ONLY <1>6, <1>7, <2>1, KidsType
    <2> QED
      BY ONLY <1>0, <1>c, <2>2
  <1>12. ASSUME NEW k \in A, \A r \in Sides : <<k, r>> # p
         PROVE  Leveled(a2, b2, h2, k)
    BY <1>3, <1>8, <1>10, <1>12, MendedOthers, Zenon
  <1>13. CASE j = 1
    <2>1. \A k \in A : Leveled(a2, b2, h2, k)
      <3>1. p = RootPlace /\ A \in SUBSET Keys
        BY ONLY <1>0, <1>1, <1>4, <1>13, WayFacts, LiveFacts
      <3>2. \A k \in A, r \in Sides : <<k, r>> # p
        BY ONLY <3>1, PlacesFacts
      <3> QED
        BY ONLY <1>12, <3>2
    <2>2. Waiting(w, A, D2, h2, stack, j - 1, op, goes)
      BY ONLY <1>1, <1>6, <1>7, <1>9, <1>10, <1>13, <2>1 DEF Waiting
    <2> QED
      BY ONLY <1>7, <2>2 DEF Passed
  <1>14. CASE j # 1
    <2>0. PICK i, q, m, s2 : /\ i = j - 1 /\ q = stack[i].place /\ m = a[q]
                             /\ s2 = SideOf(stack[i].dir)
      BY Zenon
    <2>1. i \in 1 .. j /\ i \in 1 .. i /\ p = <<m, s2>> /\ i # 0 /\ i > 0
      BY ONLY <1>0, <1>1, <1>4, <1>14, <2>0, WayFacts
    <2>2. s2 \in Sides /\ m \in A /\ q \in Live(A)
      BY ONLY <1>1, <2>0, <2>1, WayFacts
    <2>3. a2[q] = m
      <3>1. a2[q] \in A
        BY ONLY <1>4, <1>9, <2>0, <2>1, WayFacts
      <3>2. m \notin D[n]
        <4>1. PICK o : o = a[<<m, Opposite(s2)>>]
          BY Zenon
        <4> QED
          <5>1. Children(a, A, D, m, s2, n, o)
            <6>1. n = a[<<m, s2>>]
              BY ONLY <1>3, <2>1
            <6> QED
              BY ONLY <1>1, <2>2, <4>1, <6>1, Zenon DEF Children
          <5>2. ChildWell(A, D, m, s2, n, o)
            BY ONLY <5>1, ChildrenFacts
          <5> QED
            BY ONLY <5>2 DEF ChildWell
      <3>3. CASE i = 1
        <4>1. q = RootPlace
          BY ONLY <1>1, <2>0, <2>1, <3>3, WayFacts
        <4>2. m \in Keys
          BY ONLY <1>1, <2>2 DEF Shape
        <4>3. p # RootPlace
          BY ONLY <2>1, <2>2, <4>2, PlacesFacts
        <4>4. a2[RootPlace] = a[RootPlace]
          BY ONLY <1>8, <4>3 DEF Mended
        <4> QED
          BY ONLY <2>0, <4>1, <4>4
      <3>4. CASE i # 1
        <4>1. PICK g, m2, s3 : g = i - 1 /\ m2 = a[stack[g].place] /\ s3 = SideOf(stack[g].dir)
          BY Zenon
        <4>2. g \in 1 .. j /\ q = <<m2, s3>> /\ g < j
          BY ONLY <1>1, <1>4, <2>0, <2>1, <3>4, <4>1, WayFacts
        <4>3. m2 \in A /\ s3 \in Sides /\ m2 \notin D[n]
          BY ONLY <1>0, <1>1, <1>3, <1>4, <4>1, <4>2, WayFacts, WayNested
        <4>4. <<m2, s3>> # p
          <5>1. m2 \notin D[m] /\ m \in D[m]
            BY ONLY <1>1, <2>0, <2>1, <2>2, <3>4, <4>1, WayStep, SelfBelow
          <5> QED
            BY ONLY <2>1, <5>1
        <4> QED
          BY ONLY <1>3, <1>8, <2>0, <4>2, <4>3, <4>4 DEF Mended
      <3> QED
        BY ONLY <3>3, <3>4
    <2>4. \A k \in A \ {m} : Leveled(a2, b2, h2, k)
      BY ONLY <1>12, <2>1
    <2>5. m # n /\ Leveled(a, b, h, m)
      <3>1. PICK o : o = a[<<m, Opposite(s2)>>]
        BY Zenon
      <3>2. m # n
        BY ONLY <1>1, <1>3, <2>1, <2>2, <3>1, ChildFacts, <1>10
      <3> QED
        BY ONLY <1>3, <2>2, <3>2
    <2>6. CASE goes
      <3>1. h2[a2[p]] = h[n] + op /\ (op = 1 => b2[a2[p]] # 0)
        <4>1. b2[a2[p]] = 0 <=> op = -1
          BY ONLY <1>11, <2>6
        <4>2. h2[a2[p]] = h[n] + op
          BY ONLY <1>8, <4>1
        <4>3. op = 1 => op # -1
          OBVIOUS
        <4> QED
          BY ONLY <4>1, <4>2, <4>3
      <3>2. \E x, y : Pending(a2, b2, A, D2, h2, q, s2, op, m, x, y)
        <4>1. Changed(a, b, A, D, h, m, s2, p, n, q, op, a2, b2, D2, h2)
          BY ONLY <1>1, <1>3, <1>8, <2>0, <2>1, <2>2, <2>3, <2>4, <2>5, <3>1, Zenon DEF Changed
        <4> QED
          BY ONLY <4>1, OwnerPending
      <3>3. Waiting(w, A, D2, h2, stack, j - 1, op, goes)
        BY ONLY <1>1, <1>6, <1>7, <1>9, <1>10, <2>0, <2>1, <2>6, <3>2, Zenon DEF Waiting
      <3> QED
        BY ONLY <1>7, <3>3 DEF Passed
    <2>7. CASE ~goes
      <3>1. h2[a2[p]] = h[n]
        BY ONLY <1>1, <1>8, <1>11, <2>7
      <3>2. Leveled(a2, b2, h2, m)
        BY ONLY <1>1, <1>3, <1>8, <2>1, <2>2, <2>5, <3>1, OwnerSettled
      <3>3. Waiting(w, A, D2, h2, stack, j - 1, op, goes)
        BY ONLY <1>1, <1>6, <1>7, <1>9, <1>10, <2>0, <2>1, <2>4, <2>7, <3>2 DEF Waiting
      <3> QED
        BY ONLY <1>7, <3>3 DEF Passed
    <2> QED
      BY <2>6, <2>7
  <1> QED
    BY <1>13, <1>14

\* The loop of Climb is well defined: each pass starts from the result of the one before.
LEMMA ClimbLoop ==
  ASSUME NEW t, NEW stack, stack \in Seq(StackNode), NEW op
  PROVE  \E loop :
           /\ Climb(t, stack, op) = loop[Len(stack)].tree
           /\ loop[0] = [tree |-> t, goes |-> TRUE]
           /\ \A i \in 1 .. Len(stack) :
                 loop[i] = LET r    == loop[i - 1]
                               top  == stack[Len(stack) - i + 1]
                               u    == rebalance(r.tree, top.place, top.dir, op)
                               even == u.node[At(u, top.place)].balance = 0
                           IN  IF r.goes THEN [tree |-> u, goes |-> (even <=> op = -1)] ELSE r
  <1> DEFINE Pass(r, i) ==
                 LET top  == stack[Len(stack) - i + 1]
                     u    == rebalance(r.tree, top.place, top.dir, op)
                     even == u.node[At(u, top.place)].balance = 0
                 IN  IF r.goes THEN [tree |-> u, goes |-> (even <=> op = -1)] ELSE r
             start == [tree |-> t, goes |-> TRUE]
             Body(f, n) == [i \in 0 .. n |-> IF i = 0 THEN start ELSE Pass(f[i - 1], i)]
             loop == CHOOSE f : f = Body(f, Len(stack))
             Bad == {n \in Nat : ~\E f : f = Body(f, n)}
  <1>1. Climb(t, stack, op) = loop[Len(stack)].tree
    BY DEF Climb
  <1> HIDE DEF Pass, start
  <1>2. Bad = {}
    <2> SUFFICES ASSUME Bad # {}
                 PROVE  FALSE
      OBVIOUS
    <2>1. PICK n \in Bad : \A m \in Bad : n <= m
      BY LeastNatural
    <2>2. CASE n = 0
      <3> DEFINE f == [i \in 0 .. 0 |-> start]
      <3>1. f = Body(f, 0)
        OBVIOUS
      <3> QED
        BY <2>1, <2>2, <3>1
    <2>3. CASE n # 0
      <3>1. n - 1 \in Nat /\ n - 1 \notin Bad /\ n \in Nat
        BY ONLY <2>1, <2>3
      <3>2. PICK f : f = Body(f, n - 1)
        BY <3>1
      <3> DEFINE g == [i \in 0 .. n |-> IF i = n THEN Pass(f[n - 1], n) ELSE f[i]]
      <3>3. ASSUME NEW i \in 0 .. n
            PROVE  g[i] = IF i = 0 THEN start ELSE Pass(g[i - 1], i)
        <4>1. CASE i = n
          <5>1. g[i - 1] = f[n - 1]
            BY <2>3, <3>1, <4>1
          <5> QED
            BY <2>3, <4>1, <5>1
        <4>2. CASE i # n
          <5>1. i \in 0 .. n - 1 /\ g[i] = f[i]
            BY <3>1, <4>2
          <5>2. f[i] = IF i = 0 THEN start ELSE Pass(f[i - 1], i)
            BY <3>2, <5>1
          <5>3. i # 0 => g[i - 1] = f[i - 1]
            BY <3>1, <4>2
          <5> QED
            BY <5>1, <5>2, <5>3
        <4> QED
          BY <4>1, <4>2
      <3>4. g = Body(g, n)
        BY <3>3
      <3> QED
        BY <2>1, <3>4
    <2> QED
      BY <2>2, <2>3
  <1>3. \E f : f = Body(f, Len(stack))
    BY <1>2
  <1>4. loop = Body(loop, Len(stack))
    <2> HIDE DEF Body
    <2> QED
      BY <1>3
  <1> HIDE DEF loop
  <1>5. loop[0] = start /\ \A i \in 1 .. Len(stack) : loop[i] = Pass(loop[i - 1], i)
    <2>1. Len(stack) \in Nat
      OBVIOUS
    <2>2. \A i \in 0 .. Len(stack) : loop[i] = IF i = 0 THEN start ELSE Pass(loop[i - 1], i)
      BY <1>4
    <2> HIDE DEF Body
    <2> QED
      BY <2>1, <2>2
  <1> QED
    BY <1>1, <1>5, Zenon DEF Pass, start

\* The first places of a way are a way.
LEMMA WayShorter ==
  ASSUME NEW a, NEW A, NEW stack, NEW j, Way(a, A, stack, j), j > 0
  PROVE  Way(a, A, stack, j - 1)
  <1>1. j \in Nat /\ j - 1 \in 0 .. Len(stack) /\ \A x \in 1 .. j - 1 : x \in 1 .. j
    BY DEF Way
  <1> QED
    BY <1>1 DEF Way

\* The loop of Climb ends with all nodes level.
LEMMA ClimbWell ==
  ASSUME NEW t, NEW A, NEW D, NEW h, NEW stack, NEW op,
         Waiting(t, A, D, h, stack, Len(stack), op, TRUE),
         NEW u, u = Climb(t, stack, op)
  PROVE  /\ Apart(t, A, u)
         /\ \E D2, h2 : /\ Shape(Kids(u), A, D2) /\ Heights(Bals(u), h2)
                        /\ \A k \in A : Leveled(Kids(u), Bals(u), h2, k)
  <1>0. t \in Trees /\ stack \in Seq(StackNode) /\ Len(stack) \in Nat /\ op \in {-1, 1}
    BY DEF Waiting, Way
  <1>1. PICK loop :
           /\ Climb(t, stack, op) = loop[Len(stack)].tree
           /\ loop[0] = [tree |-> t, goes |-> TRUE]
           /\ \A i \in 1 .. Len(stack) :
                 loop[i] = LET r    == loop[i - 1]
                               top  == stack[Len(stack) - i + 1]
                               w    == rebalance(r.tree, top.place, top.dir, op)
                               even == w.node[At(w, top.place)].balance = 0
                           IN  IF r.goes THEN [tree |-> w, goes |-> (even <=> op = -1)] ELSE r
    BY <1>0, ClimbLoop
  <1> DEFINE Well(i) ==
               /\ loop[i].goes \in BOOLEAN /\ Apart(t, A, loop[i].tree)
               /\ \E D2, h2 : Waiting(loop[i].tree, A, D2, h2, stack, Len(stack) - i, op, loop[i].goes)
             Bad == {n \in Nat : n \in 0 .. Len(stack) /\ ~Well(n)}
  <1>2. Well(0)
    <2>1. loop[0] = [tree |-> t, goes |-> TRUE]
      BY <1>0, <1>1
    <2>2. loop[0].tree = t /\ loop[0].goes = TRUE /\ Len(stack) - 0 = Len(stack)
      BY <1>0, <2>1
    <2>3. Apart(t, A, t)
      BY <1>0 DEF Apart, SameRest
    <2> QED
      BY <2>2, <2>3
  <1>3. ASSUME NEW i \in 1 .. Len(stack), Well(i - 1)
        PROVE  Well(i)
    <2>1. PICK r, j, u0, w : /\ r = loop[i - 1] /\ j = Len(stack) - (i - 1) /\ u0 = r.tree
                             /\ w = rebalance(u0, stack[j].place, stack[j].dir, op)
      OBVIOUS
    <2>2. i - 1 \in 0 .. Len(stack) /\ i \in 0 .. Len(stack) /\ i # 0 /\ j > 0
          /\ j - 1 = Len(stack) - i /\ Len(stack) - i + 1 = j
      BY <1>0, <2>1
    <2>3. loop[i] = IF r.goes THEN [tree |-> w, goes |-> (w.node[At(w, stack[j].place)].balance = 0 <=> op = -1)]
                    ELSE r
      <3>1. loop[i] = LET top  == stack[Len(stack) - i + 1]
                          v    == rebalance(r.tree, top.place, top.dir, op)
                          even == v.node[At(v, top.place)].balance = 0
                      IN  IF r.goes THEN [tree |-> v, goes |-> (even <=> op = -1)] ELSE r
        BY <1>1, <2>1, <2>2, Zenon
      <3> QED
        BY <2>1, <2>2, <3>1, Zenon
    <2>4. PICK D1, h1 : Waiting(u0, A, D1, h1, stack, j, op, r.goes)
      BY <1>3, <2>1
    <2>5. r.goes \in BOOLEAN /\ Apart(t, A, u0)
      BY <1>3, <2>1
    <2>6. CASE r.goes
      <3>1. r.goes = TRUE
        BY <2>5, <2>6
      <3>2. PICK goes : goes = (w.node[At(w, stack[j].place)].balance = 0 <=> op = -1)
        OBVIOUS
      <3>3. Waiting(u0, A, D1, h1, stack, j, op, TRUE)
        BY <2>4, <3>1
      <3>4. Apart(u0, A, w) /\ \E D2, h2 : Waiting(w, A, D2, h2, stack, j - 1, op, goes)
        <4>1. Passes(u0, A, D1, h1, stack, j, op, w, goes)
          BY <2>1, <2>2, <3>2, <3>3, Zenon DEF Passes
        <4>2. Passed(u0, A, stack, j, op, w, goes)
          BY ONLY <4>1, ClimbPass
        <4> QED
          BY ONLY <4>2 DEF Passed
      <3>5. loop[i].tree = w /\ loop[i].goes = goes
        BY <2>3, <2>6, <3>2
      <3>6. goes \in BOOLEAN
        BY <3>2
      <3>7. Apart(t, A, w)
        BY <2>5, <3>4, ApartTrans
      <3> QED
        BY <2>2, <3>4, <3>5, <3>6, <3>7
    <2>7. CASE ~r.goes
      <3>1. r.goes = FALSE /\ loop[i] = r
        BY <2>3, <2>5, <2>7
      <3>2. Waiting(u0, A, D1, h1, stack, j, op, FALSE)
        BY <2>4, <3>1
      <3>3. Waiting(u0, A, D1, h1, stack, j - 1, op, FALSE)
        BY <2>2, <3>2, WayShorter DEF Waiting
      <3> QED
        BY <2>1, <2>2, <2>5, <3>1, <3>3
    <2> QED
      BY <2>6, <2>7
  <1> HIDE DEF Well
  <1>4. Bad = {}
    <2> SUFFICES ASSUME Bad # {}
                 PROVE  FALSE
      OBVIOUS
    <2>1. PICK n \in Bad : \A m \in Bad : n <= m
      BY LeastNatural
    <2>2. n # 0
      BY <1>2, <2>1
    <2>3. n - 1 \in Nat /\ n - 1 \in 0 .. Len(stack) /\ n \in 1 .. Len(stack) /\ n - 1 < n
      BY <1>0, <2>1, <2>2
    <2>4. Well(n - 1)
      BY <2>1, <2>3
    <2> QED
      BY <1>3, <2>1, <2>3, <2>4
  <1>5. Well(Len(stack))
    BY <1>0, <1>4
  <1>6. loop[Len(stack)].tree = u
    BY <1>1
  <1>7. Apart(t, A, u) /\ \E D2, h2 : Waiting(u, A, D2, h2, stack, 0, op, loop[Len(stack)].goes)
    <2>1. Len(stack) - Len(stack) = 0
      BY <1>0
    <2> QED
      BY <1>5, <1>6, <2>1 DEF Well
  <1> QED
    BY <1>7 DEF Waiting

-----------------------------------------------------------------------------
(* Walks in a tree all of whose nodes are level.                             *)

\* A search tree all of whose nodes are level.
Avl(a, b, A, D, h) ==
    Shape(a, A, D) /\ Heights(b, h) /\ \A k \in A : Leveled(a, b, h, k)

\* A child is lower than its parent.
LEMMA ChildLower ==
  ASSUME NEW a, NEW b, NEW A, NEW D, NEW h, Avl(a, b, A, D, h), NEW k \in A, NEW s \in Sides
  PROVE  /\ a[<<k, s>>] \in A \cup {Nil} /\ a[<<k, s>>] \in Pointers
         /\ <<k, s>> \in Live(A) /\ <<k, s>> \in Places /\ k \in Keys /\ k \in Pointers
         /\ h[a[<<k, s>>]] \in Nat /\ h[k] \in Nat /\ h[a[<<k, s>>]] < h[k]
  <1>1. /\ <<k, s>> \in Live(A) /\ <<k, s>> \in Places /\ k \in Keys /\ k \in Pointers
        /\ A \in SUBSET Pointers /\ Opposite(s) \in Sides /\ <<k, Opposite(s)>> \in Live(A)
    BY LiveFacts, SidesFacts DEF Avl
  <1>2. a[<<k, s>>] \in A \cup {Nil} /\ a[<<k, Opposite(s)>>] \in A \cup {Nil}
    BY <1>1 DEF Avl, Shape
  <1>3. PICK c, o : c = a[<<k, s>>] /\ o = a[<<k, Opposite(s)>>]
    OBVIOUS
  <1>4. c \in Pointers /\ o \in Pointers
    BY <1>1, <1>2, <1>3 DEF Pointers
  <1>5. h[c] \in Nat /\ h[k] \in Nat /\ h[o] \in Nat
    BY <1>1, <1>4 DEF Avl, Heights
  <1>6. h[k] = 1 + Higher(h[c], h[o])
    BY <1>3 DEF Avl, Leveled
  <1>7. h[c] < h[k]
    BY <1>5, <1>6 DEF Higher
  <1> QED
    BY <1>1, <1>2, <1>3, <1>4, <1>5, <1>7

\* What is below a node is in use and not higher, and what is below it is below the node.
LEMMA BelowBelow ==
  ASSUME NEW a, NEW b, NEW A, NEW D, NEW h, Avl(a, b, A, D, h), NEW j \in A, NEW k \in D[j]
  PROVE  k \in A /\ D[k] \in SUBSET D[j] /\ h[k] <= h[j]
  <1> DEFINE Holds(m) == \A x \in D[m] : x \in A /\ D[x] \in SUBSET D[m] /\ h[x] <= h[m]
             Bad == {n \in Nat : \E m \in A : h[m] = n /\ ~Holds(m)}
  <1>0. Shape(a, A, D) /\ Heights(b, h) /\ A \in SUBSET Pointers
    BY LiveFacts DEF Avl
  <1>1. \A m \in A : h[m] \in Nat
    BY <1>0 DEF Heights
  <1>2. Bad = {}
    <2> SUFFICES ASSUME Bad # {}
                 PROVE  FALSE
      OBVIOUS
    <2>1. PICK n \in Bad : \A m \in Bad : n <= m
      BY LeastNatural
    <2>2. PICK m \in A : h[m] = n /\ ~Holds(m)
      BY <2>1
    <2>3. \A y \in A : h[y] < h[m] => Holds(y)
      BY <1>1, <2>1, <2>2
    <2>4. PICK l, r : l = a[<<m, "left">>] /\ r = a[<<m, "right">>]
      OBVIOUS
    <2>5. D[m] = {m} \cup D[l] \cup D[r]
      <3>1. Splits(a, D, m) /\ "left" \in Sides /\ Opposite("left") = "right"
        BY <1>0 DEF Shape, Sides, Opposite
      <3> QED
        BY <2>4, <3>1 DEF Splits
    <2>6. /\ l \in A \cup {Nil} /\ r \in A \cup {Nil}
          /\ h[l] \in Nat /\ h[r] \in Nat /\ h[l] < h[m] /\ h[r] < h[m]
      BY <2>4, ChildLower DEF Sides
    <2>7. ASSUME NEW y \in {l, r}, NEW x \in D[y]
          PROVE  x \in A /\ D[x] \in SUBSET D[m] /\ h[x] <= h[m]
      <3>1. y \in A
        BY <1>0, <2>6, <2>7 DEF Shape
      <3>2. x \in A /\ D[x] \in SUBSET D[y] /\ h[x] <= h[y]
        BY <2>3, <2>6, <3>1
      <3> QED
        BY <1>1, <2>5, <2>6, <3>1, <3>2
    <2>8. Holds(m)
      BY <1>1, <2>5, <2>7
    <2> QED
      BY <2>2, <2>8
  <1> QED
    BY <1>1, <1>2

\* All that is in use is below the root, and so not higher.
LEMMA RootHighest ==
  ASSUME NEW a, NEW b, NEW A, NEW D, NEW h, Avl(a, b, A, D, h)
  PROVE  \E N \in Nat : \A k \in A \cup {Nil} : h[k] \in 0 .. N
  <1>1. /\ D[a[RootPlace]] = A /\ a[RootPlace] \in A \cup {Nil} /\ D[Nil] = {} /\ h[Nil] = 0
        /\ h \in [Pointers -> Nat] /\ A \in SUBSET Pointers
    BY LiveFacts DEF Avl, Shape, Heights
  <1>2. CASE A = {}
    BY <1>1, <1>2
  <1>3. CASE A # {}
    <2>1. PICK r : r = a[RootPlace]
      OBVIOUS
    <2>2. r \in A /\ h[r] \in Nat
      BY <1>1, <1>3, <2>1
    <2>3. ASSUME NEW k \in A
          PROVE  h[k] <= h[r] /\ h[k] \in Nat
      <3>1. k \in D[r]
        BY <1>1, <2>1
      <3>2. h[k] <= h[r]
        BY ONLY <2>2, <3>1, BelowBelow, Avl(a, b, A, D, h)
      <3> QED
        BY <1>1, <3>2
    <2> QED
      BY <1>1, <2>2, <2>3
  <1> QED
    BY <1>2, <1>3

\* The map: A is the set of the nodes in use.
Good(t, A, D, h) ==
    /\ t \in Trees /\ Avl(Kids(t), Bals(t), A, D, h)
    /\ \A k \in A : t.node[k].key = k
    /\ \A k \in Keys \ A : t.node[k] = Free /\ t.value[k] = Null
    /\ t.num_elements = Cardinality(A)

\* Every pointer in a map is null or to a node in use.
LEMMA GoodPointers ==
  ASSUME NEW t, NEW A, NEW D, NEW h, Good(t, A, D, h), NEW p \in Places
  PROVE  Kids(t)[p] \in A \cup {Nil} /\ (p \notin Live(A) => Kids(t)[p] = Nil)
  <1>0. t \in Trees /\ Shape(Kids(t), A, D)
    BY DEF Good, Avl
  <1>1. CASE p \in Live(A)
    BY <1>0, <1>1 DEF Shape
  <1>2. CASE p \notin Live(A)
    <2>1. PICK k \in Keys, s \in Sides : p = <<k, s>>
      BY <1>2, PlacesFacts DEF Live
    <2>2. k \notin A
      BY <1>2, <2>1 DEF Live
    <2>3. t.node[k] = Free
      BY <2>2 DEF Good
    <2>4. t.node[k][s] = Nil
      BY <2>3 DEF Free, Sides
    <2>5. Kids(t)[p] = t.node[k][s]
      BY <1>0, <2>1, KidsType
    <2> QED
      BY <2>4, <2>5
  <1> QED
    BY <1>1, <1>2

\* The side on which a search for the key goes on from k.
SideTo(key, k) == IF key < k THEN "left" ELSE "right"

\* w is the way from the place p towards the key.
Leads(a, A, D, key, p, w) ==
    /\ w \in Seq(Places) /\ Len(w) >= 1 /\ w[1] = p
    /\ \A i \in 1 .. Len(w) : w[i] \in Live(A)
    /\ \A i \in 1 .. Len(w) - 1 : /\ a[w[i]] \in A \ {key}
                                  /\ w[i + 1] = <<a[w[i]], SideTo(key, a[w[i]])>>
    /\ a[w[Len(w)]] \in {key, Nil}
    /\ key \in D[a[p]] => a[w[Len(w)]] = key

\* The walk of Path is well defined: it goes from higher to lower subtrees.
LEMMA PathWalk ==
  ASSUME NEW t, NEW A, NEW D, NEW h, Good(t, A, D, h), NEW key
  PROVE  \E walk : /\ Path(t, key) = walk[RootPlace]
                   /\ \A p \in Places :
                        walk[p] = IF At(t, p) \in {key, Nil} THEN <<p>>
                                  ELSE <<p>> \o walk[Toward(t, p, key)]
  <1> DEFINE Step(p, f) == IF At(t, p) \in {key, Nil} THEN <<p>>
                           ELSE <<p>> \o f[Toward(t, p, key)]
             T == Seq(Places)
             G == [z \in Places \X [Places -> T] |-> Step(z[1], z[2])]
             walk == CHOOSE f : f = [p \in Places |-> Step(p, f)]
             rank == [p \in Places |-> h[Kids(t)[p]]]
  <1>0. t \in Trees /\ Avl(Kids(t), Bals(t), A, D, h)
    BY DEF Good
  <1>1. Path(t, key) = walk[RootPlace]
    BY DEF Path
  <1>2. PICK N \in Nat : \A k \in A \cup {Nil} : h[k] \in 0 .. N
    BY <1>0, RootHighest
  <1>3. rank \in [Places -> 0 .. N]
    BY <1>2, GoodPointers
  <1>4. ASSUME NEW p \in Places, At(t, p) \notin {key, Nil}
        PROVE  Toward(t, p, key) \in Places /\ rank[Toward(t, p, key)] < rank[p]
    <2>1. PICK k : k = Kids(t)[p]
      OBVIOUS
    <2>2. At(t, p) = k /\ k \in A
      BY <1>0, <1>4, <2>1, GoodPointers, KidsType
    <2>3. PICK s \in Sides : Toward(t, p, key) = <<k, s>>
      BY <2>2 DEF Toward, Sides
    <2>4. <<k, s>> \in Places /\ h[Kids(t)[<<k, s>>]] < h[k]
      BY <1>0, <2>2, ChildLower
    <2> QED
      BY <2>1, <2>3, <2>4
  <1> HIDE DEF rank
  <1>5. G \in [Places \X [Places -> T] -> T]
    <2> SUFFICES ASSUME NEW p \in Places, NEW f \in [Places -> T]
                 PROVE  Step(p, f) \in T
      OBVIOUS
    <2>1. <<p>> \in T
      OBVIOUS
    <2>2. CASE At(t, p) \in {key, Nil}
      BY <2>1, <2>2
    <2>3. CASE At(t, p) \notin {key, Nil}
      <3>1. f[Toward(t, p, key)] \in T
        BY <1>4, <2>3
      <3> QED
        BY <2>1, <2>3, <3>1
    <2> QED
      BY <2>2, <2>3
  <1>6. ASSUME NEW p \in Places, NEW f \in [Places -> T], NEW g \in [Places -> T],
               \A q \in Places : rank[q] < rank[p] => f[q] = g[q]
        PROVE  G[<<p, f>>] = G[<<p, g>>]
    BY <1>4, <1>6
  <1>7. <<>> \in T
    OBVIOUS
  <1>8. \A p \in Places : \A f \in [Places -> T] : G[<<p, f>>] = Step(p, f)
    OBVIOUS
  <1> HIDE DEF G, T
  <1>9. PICK f \in [Places -> T] : \A p \in Places : f[p] = G[<<p, f>>]
    <2>1. \A p \in Places : \A f, g \in [Places -> T] :
            (\A q \in Places : rank[q] < rank[p] => f[q] = g[q]) => G[<<p, f>>] = G[<<p, g>>]
      BY <1>6
    <2>2. Ranked(Places, T, N, rank, <<>>, G)
      BY <1>3, <1>5, <1>7, <2>1 DEF Ranked
    <2> QED
      BY ONLY <2>2, RecursiveFunction
  <1>10. f = [p \in Places |-> Step(p, f)]
    <2>1. \A p \in Places : f[p] = Step(p, f)
      BY <1>8, <1>9
    <2> HIDE DEF Step
    <2> QED
      BY <2>1
  <1>11. walk = [p \in Places |-> Step(p, walk)]
    <2> HIDE DEF Step
    <2> QED
      BY <1>10
  <1> HIDE DEF walk
  <1>12. \A p \in Places : walk[p] = Step(p, walk)
    <2> HIDE DEF Step
    <2> QED
      BY <1>11
  <1> QED
    BY <1>1, <1>12

\* What is below a node is on the side of the key that is searched for.
LEMMA SearchSide ==
  ASSUME NEW a, NEW A, NEW D, Shape(a, A, D), NEW k \in A, NEW key \in Keys, key # k, key \in D[k]
  PROVE  key \in D[a[<<k, SideTo(key, k)>>]]
  <1>1. PICK l, r : l = a[<<k, "left">>] /\ r = a[<<k, "right">>]
    OBVIOUS
  <1>2. /\ "left" \in Sides /\ "right" \in Sides /\ Opposite("left") = "right"
        /\ Opposite("right") = "left"
    BY DEF Sides, Opposite
  <1>3. Splits(a, D, k)
    BY DEF Shape
  <1>4. /\ D[k] = {k} \cup D[l] \cup D[r]
        /\ \A x \in D[l] : Before("left", x, k)
        /\ \A x \in D[r] : Before("right", x, k)
    BY <1>1, <1>2, <1>3 DEF Splits
  <1>5. key \in Nat /\ k \in Nat
    BY KeysFacts DEF Shape
  <1>6. CASE key < k
    BY <1>1, <1>4, <1>5, <1>6 DEF SideTo, Before
  <1>7. CASE ~(key < k)
    BY <1>1, <1>4, <1>5, <1>7 DEF SideTo, Before
  <1> QED
    BY <1>6, <1>7

\* A way to the key that begins one place further up.
LEMMA LeadsStep ==
  ASSUME NEW a, NEW A, NEW D, Shape(a, A, D), NEW key \in Keys, NEW p \in Live(A),
         NEW k \in A, k = a[p], k # key, NEW q, q = <<k, SideTo(key, k)>>,
         NEW w, Leads(a, A, D, key, q, w), NEW v, v = <<p>> \o w
  PROVE  Leads(a, A, D, key, p, v)
  <1>1. p \in Places /\ w \in Seq(Places) /\ Len(w) \in Nat /\ Len(w) >= 1 /\ w[1] = q
    BY LiveFacts DEF Leads
  <1>2. v \in Seq(Places) /\ Len(v) = Len(w) + 1 /\ v[1] = p
    BY <1>1
  <1>3. \A i \in 1 .. Len(w) : v[i + 1] = w[i]
    BY <1>1
  <1>4. \A i \in 2 .. Len(v) : i - 1 \in 1 .. Len(w) /\ v[i] = w[i - 1]
    BY <1>1, <1>2, <1>3
  <1>5. ASSUME NEW i \in 1 .. Len(v)
        PROVE  v[i] \in Live(A)
    <2>1. CASE i = 1
      BY <1>2, <2>1
    <2>2. CASE i # 1
      <3>1. i \in 2 .. Len(v)
        BY <1>1, <1>2, <2>2
      <3> QED
        BY <1>4, <3>1 DEF Leads
    <2> QED
      BY <2>1, <2>2
  <1>6. ASSUME NEW i \in 1 .. Len(v) - 1
        PROVE  /\ a[v[i]] \in A \ {key}
               /\ v[i + 1] = <<a[v[i]], SideTo(key, a[v[i]])>>
    <2>1. CASE i = 1
      <3>1. v[1 + 1] = w[1]
        BY <1>1, <1>3
      <3> QED
        BY <1>1, <1>2, <2>1, <3>1
    <2>2. CASE i # 1
      <3>1. PICK j : j = i - 1
        OBVIOUS
      <3>2. j \in 1 .. Len(w) - 1 /\ j \in 1 .. Len(w) /\ j + 1 \in 1 .. Len(w) /\ i = j + 1
        BY <1>1, <1>2, <2>2, <3>1
      <3>3. v[i] = w[j] /\ v[i + 1] = w[j + 1]
        BY <1>3, <3>2
      <3>4. a[w[j]] \in A \ {key} /\ w[j + 1] = <<a[w[j]], SideTo(key, a[w[j]])>>
        BY <3>2 DEF Leads
      <3> QED
        BY <3>3, <3>4
    <2> QED
      BY <2>1, <2>2
  <1>7. v[Len(v)] = w[Len(w)]
    BY <1>1, <1>2, <1>3
  <1>8. key \in D[a[p]] => key \in D[a[q]]
    BY SearchSide
  <1> QED
    BY <1>1, <1>2, <1>5, <1>6, <1>7, <1>8 DEF Leads

\* Path leads from the root to the key if it is there, and to where it would be otherwise.
LEMMA PathLeads ==
  ASSUME NEW t, NEW A, NEW D, NEW h, Good(t, A, D, h), NEW key \in Keys
  PROVE  Leads(Kids(t), A, D, key, RootPlace, Path(t, key))
  <1>0. PICK a : a = Kids(t)
    OBVIOUS
  <1>1. PICK b : b = Bals(t)
    OBVIOUS
  <1>2. /\ t \in Trees /\ Avl(a, b, A, D, h) /\ Shape(a, A, D) /\ h \in [Pointers -> Nat]
        /\ A \in SUBSET Pointers /\ \A p \in Places : At(t, p) = a[p]
    BY <1>0, <1>1, LiveFacts, KidsType DEF Good, Avl, Heights
  <1>3. PICK walk : /\ Path(t, key) = walk[RootPlace]
                    /\ \A p \in Places :
                         walk[p] = IF At(t, p) \in {key, Nil} THEN <<p>>
                                   ELSE <<p>> \o walk[Toward(t, p, key)]
    BY PathWalk
  <1> DEFINE Well(p) == Leads(a, A, D, key, p, walk[p])
             Bad == {n \in Nat : \E p \in Live(A) : h[a[p]] = n /\ ~Well(p)}
  <1>4. \A p \in Live(A) : p \in Places /\ a[p] \in A \cup {Nil} /\ h[a[p]] \in Nat
    <2>1. \A p \in Live(A) : p \in Places /\ a[p] \in A \cup {Nil}
      BY <1>2, LiveFacts DEF Shape
    <2> QED
      BY <1>2, <2>1 DEF Pointers
  <1>5. Bad = {}
    <2> SUFFICES ASSUME Bad # {}
                 PROVE  FALSE
      OBVIOUS
    <2>1. PICK n \in Bad : \A m \in Bad : n <= m
      BY LeastNatural
    <2>2. PICK p \in Live(A) : h[a[p]] = n /\ ~Well(p)
      BY <2>1
    <2>3. \A q \in Live(A) : h[a[q]] < h[a[p]] => Well(q)
      BY <1>4, <2>1, <2>2
    <2>4. CASE a[p] \in {key, Nil}
      <3>1. walk[p] = <<p>> /\ p \in Places
        BY <1>2, <1>3, <1>4, <2>4
      <3>2. key \in D[a[p]] => a[p] = key
        BY <1>2, <2>4 DEF Shape
      <3>3. PICK w : w = <<p>>
        OBVIOUS
      <3>4. w \in Seq(Places) /\ Len(w) = 1 /\ w[1] = p
        BY <3>1, <3>3
      <3>5. Leads(a, A, D, key, p, w)
        BY <2>4, <3>2, <3>4 DEF Leads
      <3> QED
        BY <2>2, <3>1, <3>3, <3>5
    <2>5. CASE a[p] \notin {key, Nil}
      <3>1. PICK k, s, q : k = a[p] /\ s = SideTo(key, k) /\ q = <<k, s>>
        OBVIOUS
      <3>2. k \in A /\ k # key /\ s \in Sides
        BY <1>4, <2>5, <3>1 DEF SideTo, Sides
      <3>3. q \in Live(A) /\ h[a[q]] < h[a[p]]
        BY <1>2, <3>1, <3>2, ChildLower
      <3>4. Leads(a, A, D, key, q, walk[q])
        BY <2>3, <3>3
      <3>5. walk[p] = <<p>> \o walk[q]
        <4>1. Toward(t, p, key) = q
          BY <1>2, <1>4, <3>1 DEF Toward, SideTo
        <4> QED
          BY <1>2, <1>3, <1>4, <2>5, <4>1
      <3>6. q = <<k, SideTo(key, k)>>
        BY <3>1
      <3>7. Leads(a, A, D, key, p, walk[p])
        BY ONLY <1>2, <3>1, <3>2, <3>4, <3>5, <3>6, LeadsStep, key \in Keys, p \in Live(A)
      <3> QED
        BY <2>2, <3>7
    <2> QED
      BY <2>4, <2>5
  <1>6. Well(RootPlace)
    <2>1. RootPlace \in Live(A)
      BY DEF Live
    <2> QED
      BY <1>4, <1>5, <2>1
  <1> QED
    BY <1>0, <1>3, <1>6

\* w is the chain of the nodes from k down on side s.
Chain(a, A, D, s, k, w) ==
    /\ w \in Seq(Keys) /\ Len(w) >= 1 /\ w[1] = k
    /\ \A i \in 1 .. Len(w) : w[i] \in A /\ w[i] \in D[k]
    /\ \A i \in 1 .. Len(w) - 1 : w[i + 1] = a[<<w[i], s>>]
    /\ a[<<w[Len(w)], s>>] = Nil
    /\ \A x \in D[k] : x = w[Len(w)] \/ Before(Opposite(s), x, w[Len(w)])

\* The recursion of Down is well defined: it goes from higher to lower subtrees.
LEMMA DownChain ==
  ASSUME NEW t, NEW A, NEW D, NEW h, Good(t, A, D, h), NEW s \in Sides, NEW k
  PROVE  \E chain : /\ Down(t, k, s) = chain[k]
                    /\ \A j \in Keys :
                         chain[j] = IF t.node[j][s] = Nil THEN <<j>>
                                    ELSE <<j>> \o chain[t.node[j][s]]
  <1> DEFINE Step(j, f) == IF t.node[j][s] = Nil THEN <<j>> ELSE <<j>> \o f[t.node[j][s]]
             T == Seq(Keys)
             G == [z \in Keys \X [Keys -> T] |-> Step(z[1], z[2])]
             chain == CHOOSE f : f = [j \in Keys |-> Step(j, f)]
             rank == [j \in Keys |-> IF j \in A THEN h[j] ELSE 0]
  <1>0. t \in Trees /\ Avl(Kids(t), Bals(t), A, D, h)
    BY DEF Good
  <1>1. Down(t, k, s) = chain[k]
    BY DEF Down
  <1>2. PICK N \in Nat : \A j \in A \cup {Nil} : h[j] \in 0 .. N
    BY <1>0, RootHighest
  <1>3. rank \in [Keys -> 0 .. N]
    BY <1>2
  <1>4. ASSUME NEW j \in Keys, t.node[j][s] # Nil
        PROVE  t.node[j][s] \in Keys /\ rank[t.node[j][s]] < rank[j]
    <2>1. PICK c : c = Kids(t)[<<j, s>>]
      OBVIOUS
    <2>2. c = t.node[j][s] /\ <<j, s>> \in Places
      BY <1>0, <2>1, KidsType, PlacesFacts
    <2>3. <<j, s>> \in Live(A) /\ c \in A
      BY <1>4, <2>1, <2>2, GoodPointers
    <2>4. j \in A /\ A \in SUBSET Keys
      BY <1>0, <2>2, <2>3, LiveFacts, PlacesFacts DEF Live, Avl
    <2>5. h[c] < h[j]
      BY <1>0, <2>1, <2>4, ChildLower
    <2> QED
      BY <2>2, <2>3, <2>4, <2>5
  <1> HIDE DEF rank
  <1>5. G \in [Keys \X [Keys -> T] -> T]
    <2> SUFFICES ASSUME NEW j \in Keys, NEW f \in [Keys -> T]
                 PROVE  Step(j, f) \in T
      OBVIOUS
    <2>1. <<j>> \in T
      OBVIOUS
    <2>2. CASE t.node[j][s] = Nil
      BY <2>1, <2>2
    <2>3. CASE t.node[j][s] # Nil
      <3>1. f[t.node[j][s]] \in T
        BY <1>4, <2>3, Zenon
      <3> QED
        BY <2>1, <2>3, <3>1
    <2> QED
      BY <2>2, <2>3
  <1>6. \A j \in Keys : \A f, g \in [Keys -> T] :
            (\A q \in Keys : rank[q] < rank[j] => f[q] = g[q]) => G[<<j, f>>] = G[<<j, g>>]
    <2> SUFFICES ASSUME NEW j \in Keys, NEW f \in [Keys -> T], NEW g \in [Keys -> T],
                        \A q \in Keys : rank[q] < rank[j] => f[q] = g[q]
                 PROVE  G[<<j, f>>] = G[<<j, g>>]
      OBVIOUS
    <2> QED
      BY <1>4
  <1>7. <<>> \in T
    OBVIOUS
  <1>8. \A j \in Keys : \A f \in [Keys -> T] : G[<<j, f>>] = Step(j, f)
    OBVIOUS
  <1> HIDE DEF G, T
  <1>9. PICK f \in [Keys -> T] : \A j \in Keys : f[j] = G[<<j, f>>]
    <2>2. Ranked(Keys, T, N, rank, <<>>, G)
      BY <1>3, <1>5, <1>6, <1>7 DEF Ranked
    <2> QED
      BY ONLY <2>2, RecursiveFunction
  <1>10. \A j \in Keys : f[j] = Step(j, f)
    BY <1>8, <1>9
  <1> HIDE DEF Step
  <1>11. f = [j \in Keys |-> Step(j, f)]
    BY <1>10
  <1>12. chain = [j \in Keys |-> Step(j, chain)]
    BY <1>11
  <1> HIDE DEF chain
  <1>13. \A j \in Keys : chain[j] = Step(j, chain)
    BY <1>12
  <1> QED
    BY <1>1, <1>13 DEF Step

\* A chain that begins one node further up.
LEMMA ChainStep ==
  ASSUME NEW a, NEW A, NEW D, Shape(a, A, D), NEW s \in Sides, NEW k \in A,
         NEW c \in A, c = a[<<k, s>>], NEW w, Chain(a, A, D, s, c, w), NEW v, v = <<k>> \o w
  PROVE  Chain(a, A, D, s, k, v)
  <1>0. PICK o, f, last : o = Opposite(s) /\ f = a[<<k, o>>] /\ last = w[Len(w)]
    OBVIOUS
  <1>1. k \in Keys /\ w \in Seq(Keys) /\ Len(w) \in Nat /\ Len(w) >= 1 /\ w[1] = c
    BY LiveFacts DEF Chain
  <1>2. v \in Seq(Keys) /\ Len(v) = Len(w) + 1 /\ v[1] = k
    BY <1>1
  <1>3. \A i \in 1 .. Len(w) : v[i + 1] = w[i]
    BY <1>1
  <1>4. v[Len(v)] = last
    BY <1>0, <1>1, <1>2, <1>3
  <1>5. /\ D[k] = {k} \cup D[c] \cup D[f] /\ k \in Nat /\ D[c] \in SUBSET Keys
        /\ \A x \in D[c] : Before(s, x, k)
    BY ONLY <1>0, ChildFacts, Shape(a, A, D), k \in A, s \in Sides, c = a[<<k, s>>]
  <1>6. /\ D[f] \in SUBSET Keys /\ o \in Sides /\ \A x \in D[f] : Before(o, x, k)
    <2>1. o \in Sides /\ Opposite(o) = s
      BY <1>0, SidesFacts
    <2> QED
      BY ONLY <1>0, <2>1, ChildFacts, Shape(a, A, D), k \in A, c = a[<<k, s>>]
  <1>7. last \in D[c] /\ last \in Nat /\ Before(s, last, k)
    <2>1. last \in D[c]
      <3>1. Len(w) \in 1 .. Len(w)
        BY <1>1
      <3> QED
        BY <1>0, <3>1 DEF Chain
    <2> QED
      BY <1>5, <2>1, KeysFacts
  <1>8. ASSUME NEW x \in D[k]
        PROVE  x = last \/ Before(o, x, last)
    <2>1. CASE x \in D[c]
      BY <1>0, <2>1 DEF Chain
    <2>2. CASE x = k
      BY <1>0, <1>7, <2>2 DEF Before, Opposite, Sides
    <2>3. CASE x \in D[f]
      <3>1. x \in Nat /\ Before(o, x, k)
        BY <1>6, <2>3, KeysFacts
      <3> QED
        BY <1>0, <1>5, <1>7, <3>1 DEF Before, Opposite, Sides
    <2> QED
      BY <1>5, <2>1, <2>2, <2>3
  <1>9. ASSUME NEW i \in 1 .. Len(v)
        PROVE  v[i] \in A /\ v[i] \in D[k]
    <2>1. CASE i = 1
      BY <1>2, <1>5, <2>1
    <2>2. CASE i # 1
      <3>1. i - 1 \in 1 .. Len(w) /\ (i - 1) + 1 = i
        BY <1>1, <1>2, <2>2
      <3>2. v[i] = w[i - 1]
        BY <1>3, <3>1
      <3> QED
        BY <1>5, <3>1, <3>2 DEF Chain
    <2> QED
      BY <2>1, <2>2
  <1>10. ASSUME NEW i \in 1 .. Len(v) - 1
         PROVE  v[i + 1] = a[<<v[i], s>>]
    <2>1. CASE i = 1
      <3>1. v[1 + 1] = w[1]
        BY <1>1, <1>3
      <3> QED
        BY <1>1, <1>2, <2>1, <3>1
    <2>2. CASE i # 1
      <3>1. PICK j : j = i - 1
        OBVIOUS
      <3>2. j \in 1 .. Len(w) - 1 /\ j \in 1 .. Len(w) /\ j + 1 \in 1 .. Len(w) /\ i = j + 1
        BY <1>1, <1>2, <2>2, <3>1
      <3>3. v[i] = w[j] /\ v[i + 1] = w[j + 1]
        BY <1>3, <3>2
      <3> QED
        BY <3>2, <3>3 DEF Chain
    <2> QED
      BY <2>1, <2>2
  <1>11. a[<<v[Len(v)], s>>] = Nil
    BY <1>0, <1>4 DEF Chain
  <1>12. \A x \in D[k] : x = v[Len(v)] \/ Before(Opposite(s), x, v[Len(v)])
    BY <1>0, <1>4, <1>8
  <1>13. v \in Seq(Keys) /\ Len(v) >= 1 /\ v[1] = k
    BY <1>1, <1>2
  <1> QED
    BY ONLY <1>9, <1>10, <1>11, <1>12, <1>13 DEF Chain

\* Down goes to the last node below k on this side, the first or last one in the order.
LEMMA DownWell ==
  ASSUME NEW t, NEW A, NEW D, NEW h, Good(t, A, D, h), NEW s \in Sides, NEW k \in A
  PROVE  Chain(Kids(t), A, D, s, k, Down(t, k, s))
  <1>0. PICK a : a = Kids(t)
    OBVIOUS
  <1>1. PICK b : b = Bals(t)
    OBVIOUS
  <1>2. /\ t \in Trees /\ Avl(a, b, A, D, h) /\ Shape(a, A, D) /\ h \in [Pointers -> Nat]
        /\ A \in SUBSET Pointers /\ A \in SUBSET Keys /\ \A j \in Keys : t.node[j][s] = a[<<j, s>>]
    BY <1>0, <1>1, LiveFacts, KidsType DEF Good, Avl, Heights
  <1>3. PICK chain : /\ Down(t, k, s) = chain[k]
                     /\ \A j \in Keys :
                          chain[j] = IF t.node[j][s] = Nil THEN <<j>>
                                     ELSE <<j>> \o chain[t.node[j][s]]
    BY DownChain
  <1> DEFINE Well(j) == Chain(a, A, D, s, j, chain[j])
             Bad == {n \in Nat : \E j \in A : h[j] = n /\ ~Well(j)}
  <1>4. \A j \in A : h[j] \in Nat
    BY <1>2
  <1>5. Bad = {}
    <2> SUFFICES ASSUME Bad # {}
                 PROVE  FALSE
      OBVIOUS
    <2>1. PICK n \in Bad : \A m \in Bad : n <= m
      BY LeastNatural
    <2>2. PICK j \in A : h[j] = n /\ ~Well(j)
      BY <2>1
    <2>3. \A q \in A : h[q] < h[j] => Well(q)
      BY <1>4, <2>1, <2>2
    <2>4. PICK c : c = a[<<j, s>>]
      OBVIOUS
    <2>5. h[c] < h[j] /\ c \in A \cup {Nil}
      BY <1>2, <2>4, ChildLower
    <2>6. CASE c = Nil
      <3>1. chain[j] = <<j>> /\ j \in Keys
        BY <1>2, <1>3, <2>4, <2>6
      <3>2. PICK w, o, f : w = <<j>> /\ o = Opposite(s) /\ f = a[<<j, o>>]
        OBVIOUS
      <3>3. w \in Seq(Keys) /\ Len(w) = 1 /\ w[1] = j
        BY <3>1, <3>2
      <3>4. D[j] = {j} \cup D[f] /\ \A x \in D[f] : Before(o, x, j)
        <4>1. o \in Sides /\ Opposite(o) = s
          BY <3>2, SidesFacts
        <4>2. D[j] = {j} \cup D[f] \cup D[c] /\ \A x \in D[f] : Before(o, x, j)
          BY ONLY <1>2, <2>4, <3>2, <4>1, ChildFacts, j \in A
        <4> QED
          BY <1>2, <2>6, <4>2 DEF Shape
      <3>5. Chain(a, A, D, s, j, w)
        <4>1. \A i \in 1 .. Len(w) : w[i] \in A /\ w[i] \in D[j]
          BY <3>3, <3>4
        <4>2. \A i \in 1 .. Len(w) - 1 : w[i + 1] = a[<<w[i], s>>]
          BY <3>3
        <4>3. a[<<w[Len(w)], s>>] = Nil
          BY <2>4, <2>6, <3>3
        <4>4. \A x \in D[j] : x = w[Len(w)] \/ Before(Opposite(s), x, w[Len(w)])
          BY <3>2, <3>3, <3>4
        <4>5. Len(w) >= 1
          BY <3>3
        <4> QED
          BY ONLY <3>3, <4>1, <4>2, <4>3, <4>4, <4>5 DEF Chain
      <3> QED
        BY <2>2, <3>1, <3>2, <3>5
    <2>7. CASE c # Nil
      <3>1. c \in A /\ j \in Keys
        BY <1>2, <2>5, <2>7
      <3>2. Chain(a, A, D, s, c, chain[c])
        BY <2>3, <2>5, <3>1
      <3>3. chain[j] = <<j>> \o chain[c]
        BY <1>2, <1>3, <2>4, <2>7, <3>1
      <3>4. Chain(a, A, D, s, j, chain[j])
        BY ONLY <1>2, <2>4, <3>1, <3>2, <3>3, ChainStep, j \in A, s \in Sides
      <3> QED
        BY <2>2, <3>4
    <2> QED
      BY <2>6, <2>7
  <1>6. Well(k)
    BY <1>4, <1>5
  <1> QED
    BY <1>0, <1>3, <1>6

-----------------------------------------------------------------------------
(* Insertion.                                                                *)

\* W is the set of the nodes above q, where the key is to be stored.
Above(a, A, key, W, q) ==
    /\ W \in SUBSET A /\ q \in Live(A) /\ a[q] = Nil
    /\ key \in Keys /\ key \notin A /\ \A s \in Sides : a[<<key, s>>] = Nil
    /\ \A p \in Live(A) : a[p] \in W =>
          p = RootPlace \/ \E k \in W : p = <<k, SideTo(key, k)>>
    /\ \A k \in W : <<k, SideTo(key, k)>> = q \/ a[<<k, SideTo(key, k)>>] \in W
    /\ RootPlace = q \/ a[RootPlace] \in W
    /\ q = RootPlace \/ \E k \in W : q = <<k, SideTo(key, k)>>

\* What is below the nodes with one more key, stored below the nodes W.
Grown(D, W, key) ==
    [k \in Pointers |-> IF k = key THEN {key} ELSE IF k \in W THEN D[k] \cup {key} ELSE D[k]]

\* With the key in its place the tree is a search tree with one more node.
LEMMA GrownShape ==
  ASSUME NEW a, NEW A, NEW D, Shape(a, A, D), NEW key, NEW W, NEW q, Above(a, A, key, W, q),
         NEW a2, a2 = [a EXCEPT ![q] = key]
  PROVE  Shape(a2, A \cup {key}, Grown(D, W, key))
  <1> DEFINE D2 == Grown(D, W, key)
             A2 == A \cup {key}
  <1>0. /\ W \in SUBSET A /\ q \in Live(A) /\ a[q] = Nil
        /\ key \in Keys /\ key \notin A /\ \A s \in Sides : a[<<key, s>>] = Nil
    BY DEF Above
  <1>1. /\ A \in SUBSET Keys /\ A \in SUBSET Pointers /\ Nil \notin A /\ key \in Pointers
        /\ key \in Nat /\ Nil # key /\ Nil \in Pointers /\ key \notin W
        /\ RootPlace \in Live(A) /\ q \in Places
        /\ \A p \in Live(A) : p \in Places /\ a[p] \in A \cup {Nil}
    <2>1. /\ A \in SUBSET Keys /\ A \in SUBSET Pointers /\ Nil \notin A
          /\ RootPlace \in Live(A) /\ \A p \in Live(A) : p \in Places
      BY LiveFacts
    <2>2. \A p \in Live(A) : a[p] \in A \cup {Nil}
      BY DEF Shape
    <2>3. key \in Pointers /\ key \in Nat /\ Nil # key /\ Nil \in Pointers
      BY <1>0, KeysFacts DEF Pointers
    <2> QED
      BY <1>0, <2>1, <2>2, <2>3
  <1>2. a2 \in [Places -> Pointers] /\ a2[q] = key /\ \A p \in Places : p # q => a2[p] = a[p]
    BY <1>1 DEF Shape
  <1>3. /\ D2 \in [Pointers -> SUBSET Keys] /\ D2[key] = {key} /\ D2[Nil] = {}
        /\ \A k \in W : D2[k] = D[k] \cup {key}
        /\ \A k \in A \cup {Nil} : k \notin W => D2[k] = D[k]
    <2>1. D \in [Pointers -> SUBSET Keys] /\ D[Nil] = {}
      BY DEF Shape
    <2> QED
      BY <1>0, <1>1, <2>1 DEF Grown
  <1> HIDE DEF D2
  <1>4. ASSUME NEW s \in Sides
        PROVE  <<key, s>> \in Places /\ <<key, s>> # q /\ a2[<<key, s>>] = Nil
    <2>1. <<key, s>> \in Places /\ <<key, s>> # RootPlace
      BY <1>0, PlacesFacts
    <2>2. <<key, s>> \notin Live(A)
      BY <1>0, <2>1 DEF Live
    <2> QED
      BY <1>0, <1>2, <2>1, <2>2
  <1>5. \A p \in Live(A2) : p \in Live(A) \/ \E s \in Sides : p = <<key, s>>
    BY DEF Live
  <1>6. \A p \in Live(A2) : a2[p] \in A2 \cup {Nil}
    BY <1>1, <1>2, <1>4, <1>5
  <1>7. Single(a2, A2)
    <2> SUFFICES ASSUME NEW p \in Live(A2), NEW r \in Live(A2), a2[p] = a2[r], a2[p] # Nil
                 PROVE  p = r
      BY DEF Single
    <2>1. p \in Live(A) /\ r \in Live(A)
      BY <1>4, <1>5
    <2>2. Single(a, A)
      BY DEF Shape
    <2>3. p = q <=> r = q
      BY <1>0, <1>1, <1>2, <2>1
    <2> QED
      BY <1>1, <1>2, <2>1, <2>2, <2>3 DEF Single
  <1>8. D2[a2[RootPlace]] = A2
    <2>1. CASE q = RootPlace
      <3>1. A = {}
        BY <1>0, <2>1 DEF Shape
      <3> QED
        BY <1>2, <1>3, <2>1, <3>1
    <2>2. CASE q # RootPlace
      <3>1. a[RootPlace] \in W /\ D[a[RootPlace]] = A
        BY <2>2 DEF Above, Shape
      <3> QED
        BY <1>1, <1>2, <1>3, <2>2, <3>1
    <2> QED
      BY <2>1, <2>2
  <1>9. Splits(a2, D2, key)
    <2>1. \A s \in Sides : D2[a2[<<key, s>>]] = {} /\ Opposite(s) \in Sides
      BY <1>3, <1>4, SidesFacts
    <2> QED
      BY <1>3, <2>1 DEF Splits
  <1>10. ASSUME NEW k \in A, NEW r \in Sides, k \notin W \/ r # SideTo(key, k)
         PROVE  D2[a2[<<k, r>>]] = D[a[<<k, r>>]]
    <2>1. <<k, r>> \in Live(A) /\ <<k, r>> # RootPlace
      BY <1>1, PlacesFacts DEF Live
    <2>2. <<k, r>> # q
      BY <1>10, <2>1 DEF Above
    <2>3. a[<<k, r>>] \notin W
      BY <1>10, <2>1 DEF Above
    <2> QED
      BY <1>1, <1>2, <1>3, <2>1, <2>2, <2>3
  <1>11. ASSUME NEW k \in A, k \notin W
         PROVE  Splits(a2, D2, k)
    <2>1. D2[k] = D[k] /\ Splits(a, D, k)
      BY <1>3, <1>11 DEF Shape
    <2>2. \A r \in Sides : D2[a2[<<k, r>>]] = D[a[<<k, r>>]] /\ Opposite(r) \in Sides
      BY <1>10, <1>11, SidesFacts
    <2> QED
      BY <2>1, <2>2 DEF Splits
  <1>12. ASSUME NEW k \in W
         PROVE  Splits(a2, D2, k)
    <2>0. PICK s, o : s = SideTo(key, k) /\ o = Opposite(s)
      OBVIOUS
    <2>1. s \in Sides /\ o \in Sides /\ s # o /\ Opposite(o) = s /\ \A r \in Sides : r = s \/ r = o
      <3>1. s \in Sides
        BY <2>0 DEF SideTo, Sides
      <3> QED
        BY <2>0, <3>1, SidesFacts
    <2>2. D2[a2[<<k, o>>]] = D[a[<<k, o>>]]
      BY <1>0, <1>10, <2>0, <2>1
    <2>3. D2[a2[<<k, s>>]] = D[a[<<k, s>>]] \cup {key}
      <3>1. CASE <<k, s>> = q
        BY <1>0, <1>2, <1>3, <3>1 DEF Shape
      <3>2. CASE <<k, s>> # q
        <4>1. a[<<k, s>>] \in W
          BY <2>0, <3>2 DEF Above
        <4>2. <<k, s>> \in Places
          BY <1>0, <1>1, <2>1, PlacesFacts
        <4> QED
          BY <1>2, <1>3, <3>2, <4>1, <4>2
      <3> QED
        BY <3>1, <3>2
    <2>4. Before(s, key, k)
      <3>1. k \in Nat /\ key \in Nat /\ k # key
        BY <1>0, <1>1, KeysFacts
      <3> QED
        BY <2>0, <3>1 DEF Before, SideTo
    <2>5. Splits(a, D, k) /\ D2[k] = D[k] \cup {key}
      BY <1>0, <1>3 DEF Shape
    <2>6. /\ D[k] = {k} \cup D[a[<<k, s>>]] \cup D[a[<<k, o>>]]
          /\ \A x \in D[a[<<k, s>>]] : Before(s, x, k)
          /\ \A x \in D[a[<<k, o>>]] : Before(o, x, k)
      BY <2>0, <2>1, <2>5 DEF Splits
    <2>7. D2[k] = {k} \cup D2[a2[<<k, s>>]] \cup D2[a2[<<k, o>>]]
      BY <2>2, <2>3, <2>5, <2>6
    <2>8. /\ \A x \in D2[a2[<<k, s>>]] : Before(s, x, k)
          /\ \A x \in D2[a2[<<k, o>>]] : Before(o, x, k)
      BY <2>2, <2>3, <2>4, <2>6
    <2> QED
      BY <2>0, <2>1, <2>7, <2>8 DEF Splits
  <1>13. A2 \in SUBSET Keys
    BY <1>0, <1>1
  <1>14. Shape(a2, A2, D2)
    BY <1>2, <1>3, <1>6, <1>7, <1>8, <1>9, <1>11, <1>12, <1>13 DEF Shape
  <1> QED
    BY <1>14 DEF D2

\* The nodes on the way to a key that is not there are those above its place.
LEMMA LeadsAbove ==
  ASSUME NEW a, NEW A, NEW D, Shape(a, A, D), NEW key \in Keys, key \notin A,
         \A s \in Sides : a[<<key, s>>] = Nil,
         NEW w, Leads(a, A, D, key, RootPlace, w),
         NEW q, q = w[Len(w)], NEW W, W = {a[w[i]] : i \in 1 .. Len(w) - 1}
  PROVE  Above(a, A, key, W, q)
  <1>0. Len(w) \in Nat /\ Len(w) >= 1 /\ w[1] = RootPlace /\ Len(w) \in 1 .. Len(w)
    BY DEF Leads
  <1>1. q \in Live(A) /\ a[q] = Nil
    <2>1. q \in Live(A) /\ a[q] \in {key, Nil}
      BY <1>0 DEF Leads
    <2>2. a[q] \in A \cup {Nil}
      BY <2>1 DEF Shape
    <2> QED
      BY <2>1, <2>2
  <1>2. \A i \in 1 .. Len(w) - 1 : /\ a[w[i]] \in W /\ w[i] \in Live(A) /\ i + 1 \in 1 .. Len(w)
                                   /\ a[w[i]] \in A
                                   /\ w[i + 1] = <<a[w[i]], SideTo(key, a[w[i]])>>
    BY <1>0 DEF Leads
  <1>3. ASSUME NEW i \in 1 .. Len(w), i # 1
        PROVE  i - 1 \in 1 .. Len(w) - 1 /\ \E k \in W : w[i] = <<k, SideTo(key, k)>>
    <2>1. PICK j : j = i - 1
      OBVIOUS
    <2>2. j \in 1 .. Len(w) - 1 /\ i = j + 1
      BY <1>0, <1>3, <2>1
    <2> QED
      BY <1>2, <2>1, <2>2
  <1>4. ASSUME NEW p \in Live(A), a[p] \in W
        PROVE  p = RootPlace \/ \E k \in W : p = <<k, SideTo(key, k)>>
    <2>1. PICK i \in 1 .. Len(w) - 1 : a[p] = a[w[i]]
      BY <1>4
    <2>2. a[p] # Nil /\ Single(a, A) /\ w[i] \in Live(A) /\ i \in 1 .. Len(w)
      <3>1. Nil \notin A /\ Single(a, A)
        BY LiveFacts DEF Shape
      <3>2. a[w[i]] \in A /\ w[i] \in Live(A)
        BY <1>2
      <3>3. i \in 1 .. Len(w)
        BY ONLY <1>0, i \in 1 .. Len(w) - 1
      <3> QED
        BY <2>1, <3>1, <3>2, <3>3
    <2>3. p = w[i]
      BY <2>1, <2>2 DEF Single
    <2> QED
      BY <1>0, <1>3, <2>2, <2>3
  <1>5. ASSUME NEW k \in W
        PROVE  <<k, SideTo(key, k)>> = q \/ a[<<k, SideTo(key, k)>>] \in W
    <2>1. PICK i \in 1 .. Len(w) - 1 : k = a[w[i]]
      OBVIOUS
    <2>2. w[i + 1] = <<k, SideTo(key, k)>> /\ (i + 1 = Len(w) \/ i + 1 \in 1 .. Len(w) - 1)
      BY <1>0, <1>2, <2>1
    <2> QED
      BY <1>2, <2>2
  <1>6. RootPlace = q \/ a[RootPlace] \in W
    <2>1. CASE Len(w) = 1
      BY <1>0, <2>1
    <2>2. CASE Len(w) # 1
      <3>1. 1 \in 1 .. Len(w) - 1
        <4>1. PICK n \in Nat : n = Len(w)
          BY <1>0
        <4>2. n >= 1 /\ n # 1
          BY <1>0, <2>2, <4>1
        <4>3. 1 \in 1 .. n - 1
          BY ONLY n \in Nat, <4>2
        <4> QED
          BY <4>1, <4>3
      <3> QED
        BY <1>0, <1>2, <3>1
    <2> QED
      BY <2>1, <2>2
  <1>7. q = RootPlace \/ \E k \in W : q = <<k, SideTo(key, k)>>
    BY <1>0, <1>3
  <1>8. W \in SUBSET A
    BY <1>2
  <1> QED
    BY <1>1, <1>4, <1>5, <1>6, <1>7, <1>8 DEF Above

\* The stack of a search leads down the tree, to the place where the search has ended.
LEMMA StackWay ==
  ASSUME NEW t, NEW A, NEW a, a = Kids(t), t \in Trees, NEW D, Shape(a, A, D), NEW key,
         NEW w, Leads(a, A, D, key, RootPlace, w), NEW stack, stack = Stack(t, w, key)
  PROVE  /\ stack \in Seq(StackNode) /\ Len(stack) = Len(w) - 1
         /\ \A i \in 1 .. Len(w) - 1 : /\ stack[i].place = w[i]
                                        /\ SideOf(stack[i].dir) = SideTo(key, a[w[i]])
  <1>0. Len(w) \in Nat /\ Len(w) >= 1 /\ w \in Seq(Places) /\ Len(w) - 1 \in Nat
    BY DEF Leads
  <1>1. \A i \in 1 .. Len(w) - 1 : w[i] \in Places /\ At(t, w[i]) = a[w[i]]
    BY <1>0, KidsType
  <1>2. stack = [i \in 1 .. Len(w) - 1 |->
                    [place |-> w[i], dir |-> IF key < At(t, w[i]) THEN -1 ELSE 1]]
    BY DEF Stack
  <1>3. \A i \in 1 .. Len(w) - 1 :
           stack[i] \in StackNode /\ stack[i].place = w[i]
           /\ SideOf(stack[i].dir) = SideTo(key, a[w[i]])
    BY <1>1, <1>2 DEF StackNode, SideOf, SideTo
  <1>4. stack \in Seq(StackNode) /\ Len(stack) = Len(w) - 1
    BY <1>0, <1>2, <1>3
  <1> QED
    BY <1>3, <1>4

\* With the key in its place only the node above it may not be level.
LEMMA GrownWaits ==
  ASSUME NEW t, NEW A, NEW D, NEW h, Good(t, A, D, h), NEW key \in Keys, key \notin A,
         NEW w, w = Path(t, key), NEW q, q = w[Len(w)], NEW stack, stack = Stack(t, w, key),
         NEW v \in Trees, Kids(v) = [Kids(t) EXCEPT ![q] = key], Bals(v) = Bals(t)
  PROVE  \E D2, h2 : Waiting(v, A \cup {key}, D2, h2, stack, Len(stack), 1, TRUE)
  <1>0. PICK a, b, a2, A2, W, D2, h2 :
           /\ a = Kids(t) /\ b = Bals(t) /\ a2 = Kids(v) /\ A2 = A \cup {key}
           /\ W = {a[w[i]] : i \in 1 .. Len(w) - 1} /\ D2 = Grown(D, W, key)
           /\ h2 = [h EXCEPT ![key] = 1]
    OBVIOUS
  <1>1. t \in Trees /\ Shape(a, A, D) /\ Heights(b, h) /\ Avl(a, b, A, D, h)
    BY <1>0 DEF Good, Avl
  <1>2. Leads(a, A, D, key, RootPlace, w)
    BY <1>0, PathLeads
  <1>3. \A s \in Sides : a[<<key, s>>] = Nil
    <2>1. \A s \in Sides : <<key, s>> \in Places /\ <<key, s>> # RootPlace
      BY PlacesFacts
    <2>2. \A s \in Sides : <<key, s>> \notin Live(A)
      BY <2>1 DEF Live
    <2> QED
      BY <1>0, <2>1, <2>2, GoodPointers
  <1>4. Above(a, A, key, W, q)
    <2>1. W = {a[w[i]] : i \in 1 .. Len(w) - 1}
      BY <1>0
    <2> QED
      BY ONLY <1>1, <1>2, <1>3, <2>1, LeadsAbove, key \in Keys, key \notin A, q = w[Len(w)]
  <1>5. a2 = [a EXCEPT ![q] = key] /\ Bals(v) = b
    BY <1>0
  <1>6. Shape(a2, A2, D2)
    BY <1>0, <1>1, <1>4, <1>5, GrownShape
  <1>7. /\ A \in SUBSET Keys /\ A \in SUBSET Pointers /\ Nil \notin A /\ q \in Live(A) /\ a[q] = Nil
        /\ \A p \in Live(A) : p \in Places /\ a[p] \in A \cup {Nil}
        /\ key \in Pointers /\ key # Nil /\ Nil \in Pointers /\ q \in Places
    <2>1. /\ A \in SUBSET Keys /\ A \in SUBSET Pointers /\ Nil \notin A
          /\ \A p \in Live(A) : p \in Places
      BY <1>1, LiveFacts
    <2>2. \A p \in Live(A) : a[p] \in A \cup {Nil}
      BY <1>1 DEF Shape
    <2>3. key \in Pointers /\ key # Nil /\ Nil \in Pointers
      BY KeysFacts DEF Pointers
    <2>4. q \in Live(A) /\ a[q] = Nil
      BY <1>4 DEF Above
    <2> QED
      BY <2>1, <2>2, <2>3, <2>4
  <1>8. a2[q] = key /\ \A p \in Places : p # q => a2[p] = a[p]
    BY <1>1, <1>5, <1>7 DEF Shape
  <1>9. /\ Heights(b, h2) /\ h2[key] = 1 /\ h2[Nil] = 0
        /\ \A k \in A \cup {Nil} : h2[k] = h[k] /\ h[k] \in Nat
    BY <1>0, <1>1, <1>7 DEF Heights
  <1>10. b[key] = 0
    <2>1. t.node[key] = Free
      BY DEF Good
    <2> QED
      BY <1>0, <1>1, <2>1, KidsType DEF Free
  <1>11. ASSUME NEW k \in A2, \A r \in Sides : <<k, r>> # q
         PROVE  Leveled(a2, b, h2, k)
    <2>1. CASE k = key
      <3>1. \A r \in Sides : a2[<<k, r>>] = Nil /\ Opposite(r) \in Sides
        BY <1>3, <1>8, <1>11, <2>1, PlacesFacts, SidesFacts
      <3>2. 1 + Higher(0, 0) = 1 /\ \A r \in Sides : Lean(r, 0, 0) = 0
        BY DEF Higher, Lean
      <3> QED
        BY <1>9, <1>10, <2>1, <3>1, <3>2 DEF Leveled
    <2>2. CASE k # key
      <3>1. k \in A /\ Leveled(a, b, h, k) /\ h2[k] = h[k]
        BY <1>0, <1>1, <1>9, <2>2 DEF Avl
      <3>2. ASSUME NEW r \in Sides
            PROVE  /\ a2[<<k, r>>] = a[<<k, r>>] /\ h2[a[<<k, r>>]] = h[a[<<k, r>>]]
                   /\ Opposite(r) \in Sides
        <4>1. <<k, r>> \in Live(A) /\ Opposite(r) \in Sides
          BY <3>1, SidesFacts DEF Live
        <4> QED
          BY <1>7, <1>8, <1>9, <1>11, <4>1
      <3> QED
        BY <3>1, <3>2 DEF Leveled
    <2> QED
      BY <2>1, <2>2
  <1>12. /\ stack \in Seq(StackNode) /\ Len(stack) = Len(w) - 1 /\ Len(w) \in Nat /\ Len(w) >= 1
         /\ \A i \in 1 .. Len(stack) : /\ stack[i].place = w[i]
                                       /\ SideOf(stack[i].dir) = SideTo(key, a[w[i]])
    <2>1. Len(w) \in Nat /\ Len(w) >= 1
      BY <1>2 DEF Leads
    <2> QED
      BY <1>0, <1>1, <1>2, <2>1, StackWay
  <1>13. \A i \in 1 .. Len(stack) :
            /\ w[i] \in Live(A) /\ a[w[i]] \in A /\ a2[w[i]] = a[w[i]]
            /\ w[i + 1] = <<a[w[i]], SideTo(key, a[w[i]])>>
    <2>1. \A i \in 1 .. Len(stack) : i \in 1 .. Len(w) - 1 /\ i \in 1 .. Len(w)
      BY <1>12
    <2>2. \A i \in 1 .. Len(stack) :
            /\ w[i] \in Live(A) /\ a[w[i]] \in A
            /\ w[i + 1] = <<a[w[i]], SideTo(key, a[w[i]])>>
      BY <1>2, <2>1 DEF Leads
    <2> QED
      BY <1>7, <1>8, <2>2
  <1>14. Way(a2, A2, stack, Len(stack))
    <2>1. Len(stack) \in Nat
      BY <1>12
    <2>2. ASSUME NEW x \in 1 .. Len(stack)
          PROVE  stack[x].place \in Live(A2) /\ a2[stack[x].place] \in A2
      BY <1>0, <1>12, <1>13 DEF Live
    <2>3. ASSUME NEW x \in 1 .. Len(stack)
          PROVE  stack[x].place = IF x = 1 THEN RootPlace
                                  ELSE <<a2[stack[x - 1].place], SideOf(stack[x - 1].dir)>>
      <3>1. CASE x = 1
        BY <1>2, <1>12, <3>1 DEF Leads
      <3>2. CASE x # 1
        <4>1. PICK y : y = x - 1
          OBVIOUS
        <4>2. y \in 1 .. Len(stack) /\ x = y + 1
          BY <2>1, <3>2, <4>1
        <4>3. stack[x].place = w[y + 1] /\ stack[y].place = w[y]
              /\ SideOf(stack[y].dir) = SideTo(key, a[w[y]])
          BY <1>12, <4>2
        <4>4. w[y + 1] = <<a2[w[y]], SideTo(key, a[w[y]])>>
          BY <1>13, <4>2
        <4> QED
          BY <3>2, <4>1, <4>3, <4>4
      <3> QED
        BY <3>1, <3>2
    <2> QED
      BY <1>12, <2>1, <2>2, <2>3 DEF Way
  <1>15. CASE Len(stack) = 0
    <2>1. q = RootPlace
      <3>1. Len(w) = 1
        BY <1>12, <1>15
      <3> QED
        BY <1>2, <3>1 DEF Leads
    <2>2. \A k \in A2 : Leveled(a2, b, h2, k)
      <3>1. \A k \in A2, r \in Sides : <<k, r>> # q
        BY <1>0, <1>7, <2>1, PlacesFacts
      <3> QED
        BY <1>11, <3>1
    <2>3. Waiting(v, A2, D2, h2, stack, Len(stack), 1, TRUE)
      <3>1. /\ Shape(Kids(v), A2, D2) /\ Heights(Bals(v), h2) /\ Way(Kids(v), A2, stack, Len(stack))
            /\ \A k \in A2 : Leveled(Kids(v), Bals(v), h2, k)
        BY ONLY <1>0, <1>5, <1>6, <1>9, <1>14, <2>2
      <3> QED
        BY ONLY <3>1, <1>15, v \in Trees DEF Waiting
    <2> QED
      BY <1>0, <2>3
  <1>16. CASE Len(stack) # 0
    <2>0. PICK l, n, s, p, f : /\ l = Len(stack) /\ n = a[w[l]] /\ s = SideTo(key, n) /\ p = w[l]
                               /\ f = a2[<<n, Opposite(s)>>]
      OBVIOUS
    <2>1. l \in 1 .. Len(stack) /\ l > 0 /\ Len(w) = l + 1
      BY <1>12, <1>16, <2>0
    <2>2. /\ n \in A /\ q = <<n, s>> /\ p \in Live(A) /\ a2[p] = n /\ s \in Sides
          /\ stack[l].place = p /\ SideOf(stack[l].dir) = s
      <3>1. s \in Sides
        BY <2>0 DEF SideTo, Sides
      <3> QED
        BY <1>12, <1>13, <2>0, <2>1, <3>1
    <2>3. \A k \in A2 \ {n} : Leveled(a2, b, h2, k)
      BY <1>11, <2>2
    <2>4. /\ <<n, Opposite(s)>> # q /\ f = a[<<n, Opposite(s)>>] /\ f \in A \cup {Nil}
      <3>1. <<n, Opposite(s)>> \in Live(A) /\ Opposite(s) # s
        BY <2>2, SidesFacts DEF Live
      <3>2. <<n, Opposite(s)>> # q
        <4>1. q = <<n, s>> /\ Opposite(s) # s
          BY ONLY <2>2, <3>1, Zenon
        <4> QED
          BY ONLY <4>1
      <3> QED
        BY <1>7, <1>8, <2>0, <3>1, <3>2
    <2>5. Pending(a2, b, A2, D2, h2, p, s, 1, n, key, f)
      <3>1. Leveled(a, b, h, n) /\ h[Nil] = 0
        BY <1>1, <2>2 DEF Avl, Heights
      <3>2. h[n] = 1 + Higher(0, h[f]) /\ b[n] = Lean(s, 0, h[f]) /\ b[n] \in -1 .. 1
        BY <1>7, <2>2, <2>4, <3>1 DEF Leveled
      <3>3. h2[n] = h[n] /\ h2[f] = h[f] /\ h2[key] - 1 = 0
        BY <1>9, <2>2, <2>4
      <3>4. /\ h2[n] = 1 + Higher(h2[key] - 1, h2[f])
            /\ b[n] = Lean(s, h2[key] - 1, h2[f]) /\ b[n] \in -1 .. 1
        BY <3>2, <3>3
      <3>5. p \in Live(A2) /\ n \in A2 /\ key \in A2 /\ key = a2[<<n, s>>] /\ n = a2[p]
        BY <1>0, <1>8, <2>2 DEF Live
      <3> QED
        BY <1>6, <1>9, <2>0, <2>2, <2>3, <3>4, <3>5, Zenon DEF Pending
    <2>6. Waiting(v, A2, D2, h2, stack, Len(stack), 1, TRUE)
      <3>1. \E n1, c1, f1 : Pending(Kids(v), Bals(v), A2, D2, h2, stack[Len(stack)].place,
                                    SideOf(stack[Len(stack)].dir), 1, n1, c1, f1)
        <4>1. Pending(Kids(v), Bals(v), A2, D2, h2, stack[l].place, SideOf(stack[l].dir), 1, n, key, f)
          BY <1>0, <1>5, <2>2, <2>5
        <4> QED
          BY <2>0, <4>1
      <3> QED
        <4>1. /\ Shape(Kids(v), A2, D2) /\ Heights(Bals(v), h2)
              /\ Way(Kids(v), A2, stack, Len(stack))
          BY <1>0, <1>5, <1>6, <1>9, <1>14
        <4> QED
          BY ONLY <3>1, <4>1, <1>16, v \in Trees DEF Waiting
    <2> QED
      BY <1>0, <2>6
  <1> QED
    BY <1>15, <1>16

\* The map with one more node, which is not yet stored anywhere.
WithNode(t, key, e) ==
    [t EXCEPT !.node[key] = [Free EXCEPT !.key = key], !.value[key] = e, !.num_elements = @ + 1]

\* A new node, before it is stored in its place, changes nothing in the tree.
LEMMA NewNode ==
  ASSUME NEW t \in Trees, NEW key \in Keys, NEW e \in Stored, t.node[key] = Free,
         NEW v, v = WithNode(t, key, e)
  PROVE  /\ v \in Trees /\ Kids(v) = Kids(t) /\ Bals(v) = Bals(t)
         /\ v.value = [t.value EXCEPT ![key] = e] /\ v.num_elements = t.num_elements + 1
         /\ v.node[key].key = key /\ \A k \in Keys \ {key} : v.node[k] = t.node[k]
  <1>0. PICK n : n = [Free EXCEPT !.key = key]
    OBVIOUS
  <1>1. /\ n \in Node /\ n.key = key /\ n.balance = 0 /\ \A s \in Sides : n[s] = Nil
    BY <1>0, KeysFacts DEF Free, Node, Pointers, Sides
  <1>2. /\ v \in Trees /\ v.root = t.root /\ v.node = [t.node EXCEPT ![key] = n]
        /\ v.value = [t.value EXCEPT ![key] = e] /\ v.num_elements = t.num_elements + 1
    <2>1. PICK nn, vv, m : /\ nn = [t.node EXCEPT ![key] = n] /\ vv = [t.value EXCEPT ![key] = e]
                           /\ m = t.num_elements + 1
      OBVIOUS
    <2>2. nn \in [Keys -> Node] /\ vv \in [Keys -> Stored \cup {Null}] /\ m \in Int
      BY <1>1, <2>1 DEF Trees
    <2>3. v = [t EXCEPT !.node = nn, !.value = vv, !.num_elements = m]
      BY <1>0, <2>1 DEF WithNode
    <2>4. /\ v \in Trees /\ v.root = t.root /\ v.node = nn /\ v.value = vv /\ v.num_elements = m
      BY ONLY <2>2, <2>3, t \in Trees DEF Trees
    <2> QED
      BY <2>1, <2>4
  <1>3. v.node[key] = n /\ \A k \in Keys \ {key} : v.node[k] = t.node[k]
    BY <1>2 DEF Trees
  <1>4. ASSUME NEW k \in Keys
        PROVE  /\ v.node[k].balance = t.node[k].balance
               /\ \A s \in Sides : v.node[k][s] = t.node[k][s]
    <2>1. CASE k = key
      BY <1>1, <1>3, <2>1 DEF Free, Sides
    <2>2. CASE k # key
      BY <1>3, <2>2
    <2> QED
      BY <2>1, <2>2
  <1>5. ASSUME NEW p \in Places
        PROVE  At(v, p) = At(t, p)
    <2>1. CASE p = RootPlace
      BY <1>2, <2>1 DEF At
    <2>2. CASE p # RootPlace
      <3>1. PICK k \in Keys, s \in Sides : p = <<k, s>>
        BY <2>2, PlacesFacts
      <3> QED
        BY <1>4, <2>2, <3>1 DEF At
    <2> QED
      BY <2>1, <2>2
  <1>6. Kids(v) = Kids(t) /\ Bals(v) = Bals(t)
    BY <1>4, <1>5 DEF Kids, Bals
  <1> QED
    BY <1>1, <1>2, <1>3, <1>6

\* u holds e for key, and what t holds for every other key.
HoldsNow(t, key, e, u) == u.value = [t.value EXCEPT ![key] = e]

\* set_long_map_element(): the tree is in order again, with the key, and the value is set.
LEMMA SetWell ==
  ASSUME NEW t, NEW A, NEW D, NEW h, Good(t, A, D, h), NEW key \in Keys, NEW e \in Stored,
         NEW u, u = set_long_map_element(t, key, e)
  PROVE  /\ HoldsNow(t, key, e, u)
         /\ \E D2, h2 : Good(u, A \cup {key}, D2, h2)
  <1> USE DEF HoldsNow
  <1>0. PICK w, q, stack : w = Path(t, key) /\ q = w[Len(w)] /\ stack = Stack(t, w, key)
    OBVIOUS
  <1>1. /\ t \in Trees /\ Shape(Kids(t), A, D) /\ A \in SUBSET Keys
        /\ t.value \in [Keys -> Stored \cup {Null}]
    <2>1. t \in Trees /\ Shape(Kids(t), A, D)
      BY DEF Good, Avl
    <2> QED
      BY <2>1 DEF Shape, Trees
  <1>2. Leads(Kids(t), A, D, key, RootPlace, w)
    BY <1>0, PathLeads
  <1>3. q \in Live(A) /\ q \in Places /\ At(t, q) = Kids(t)[q] /\ Kids(t)[q] \in {key, Nil}
        /\ Kids(t)[q] \in A \cup {Nil} /\ (key \in A => Kids(t)[q] = key)
    <2>1. Len(w) \in 1 .. Len(w)
      BY <1>2 DEF Leads
    <2>2. q \in Live(A) /\ Kids(t)[q] \in {key, Nil}
      BY <1>0, <1>2, <2>1 DEF Leads
    <2>3. q \in Places
      BY <1>1, <2>2, LiveFacts
    <2>4. D[Kids(t)[RootPlace]] = A
      BY <1>1 DEF Shape
    <2>5. key \in A => Kids(t)[q] = key
      BY <1>0, <1>2, <2>4 DEF Leads
    <2>6. Kids(t)[q] \in A \cup {Nil} /\ At(t, q) = Kids(t)[q]
      BY <1>1, <2>3, GoodPointers, KidsType
    <2> QED
      BY <2>2, <2>3, <2>5, <2>6
  <1> DEFINE v0 == WithNode(t, key, e)
             v == Store(v0, q, key)
  <1>4. u = IF Kids(t)[q] = key THEN [t EXCEPT !.value[key] = e] ELSE Climb(v, stack, 1)
    BY <1>0, <1>3 DEF set_long_map_element, Last, WithNode
  <1>5. CASE Kids(t)[q] = key
    <2>1. u = [t EXCEPT !.value[key] = e]
      BY <1>4, <1>5
    <2>2. /\ u \in Trees /\ u.root = t.root /\ u.node = t.node /\ u.num_elements = t.num_elements
          /\ u.value = [t.value EXCEPT ![key] = e]
      BY <1>1, <2>1 DEF Trees
    <2>3. Kids(u) = Kids(t) /\ Bals(u) = Bals(t)
      BY <2>2 DEF Kids, Bals, At
    <2>4. key \in A /\ A \cup {key} = A
      BY <1>3, <1>5, KeysFacts
    <2>5. \A k \in Keys \ A : u.value[k] = t.value[k]
      BY <1>1, <2>2, <2>4
    <2>6. Good(u, A, D, h)
      BY <2>2, <2>3, <2>5 DEF Good
    <2> QED
      BY <2>2, <2>4, <2>6
  <1>6. CASE Kids(t)[q] # key
    <2>1. key \notin A /\ t.node[key] = Free
      <3>1. key \notin A
        BY <1>3, <1>6
      <3> QED
        BY <3>1 DEF Good
    <2>2. /\ v0 \in Trees /\ Kids(v0) = Kids(t) /\ Bals(v0) = Bals(t)
          /\ v0.value = [t.value EXCEPT ![key] = e] /\ v0.num_elements = t.num_elements + 1
          /\ v0.node[key].key = key /\ \A k \in Keys \ {key} : v0.node[k] = t.node[k]
      BY <1>1, <2>1, NewNode
    <2> HIDE DEF v0
    <2>3. key \in Pointers
      BY DEF Pointers
    <2>4. /\ Kids(v) = [Kids(v0) EXCEPT ![q] = key]
          /\ Bals(v) = Bals(v0)
          /\ SameRest(v0, v)
          /\ \A k \in Keys : q \notin {k} \X Sides => v.node[k] = v0.node[k]
      BY <1>3, <2>2, <2>3, StoreFacts
    <2> HIDE DEF v
    <2>5. v \in Trees /\ Kids(v) = [Kids(t) EXCEPT ![q] = key] /\ Bals(v) = Bals(t)
      BY <2>2, <2>4 DEF SameRest
    <2>6. PICK D1, h1 : Waiting(v, A \cup {key}, D1, h1, stack, Len(stack), 1, TRUE)
      BY ONLY <1>0, <2>1, <2>5, GrownWaits, Good(t, A, D, h), key \in Keys
    <2>7. u = Climb(v, stack, 1)
      BY <1>4, <1>6
    <2>8. PICK A2 : A2 = A \cup {key}
      OBVIOUS
    <2>9. Waiting(v, A2, D1, h1, stack, Len(stack), 1, TRUE)
      BY <2>6, <2>8
    <2>10. /\ Apart(v, A2, u)
           /\ \E D2, h2 : /\ Shape(Kids(u), A2, D2) /\ Heights(Bals(u), h2)
                          /\ \A k \in A2 : Leveled(Kids(u), Bals(u), h2, k)
      BY ONLY <2>7, <2>9, ClimbWell
    <2>11. PICK D2, h2 : Avl(Kids(u), Bals(u), A2, D2, h2)
      BY <2>10 DEF Avl
    <2>12. /\ u \in Trees /\ u.value = [t.value EXCEPT ![key] = e]
           /\ u.num_elements = t.num_elements + 1
           /\ \A k \in Keys : u.node[k].key = v0.node[k].key
           /\ \A k \in Keys \ A2 : u.node[k] = v.node[k]
      BY <2>2, <2>4, <2>10 DEF Apart, SameRest
    <2>13. \A k \in A2 : u.node[k].key = k
      <3>1. \A k \in A : t.node[k].key = k
        BY DEF Good
      <3> QED
        BY <1>1, <2>1, <2>2, <2>8, <2>12, <3>1
    <2>14. ASSUME NEW k \in Keys \ A2
           PROVE  u.node[k] = Free /\ u.value[k] = Null
      <3>1. k \in Keys \ A /\ k # key
        BY <2>8
      <3>2. q \notin {k} \X Sides
        BY <1>3, <3>1, PlacesFacts DEF Live
      <3>3. u.node[k] = t.node[k]
        BY <2>2, <2>4, <2>12, <3>1, <3>2
      <3>4. u.value[k] = t.value[k]
        BY <1>1, <2>12, <3>1
      <3> QED
        BY <3>1, <3>3, <3>4 DEF Good
    <2>15. u.num_elements = Cardinality(A2)
      <3>1. IsFiniteSet(A)
        BY <1>1, KeysFacts, FS_Subset
      <3>2. Cardinality(A2) = Cardinality(A) + 1
        BY <2>1, <2>8, <3>1, FS_AddElement
      <3> QED
        BY <2>12, <3>2 DEF Good
    <2>16. Good(u, A2, D2, h2)
      BY <2>11, <2>12, <2>13, <2>14, <2>15 DEF Good
    <2> QED
      BY <2>8, <2>12, <2>16
  <1> QED
    BY <1>5, <1>6

-----------------------------------------------------------------------------
(* Removal.                                                                  *)

\* The nodes on the way to a key are not below it.
LEMMA LeadsOutside ==
  ASSUME NEW a, NEW A, NEW D, Shape(a, A, D), NEW key \in A,
         NEW w, Leads(a, A, D, key, RootPlace, w), a[w[Len(w)]] = key
  PROVE  \A i \in 1 .. Len(w) - 1 :
            /\ a[w[i]] \in A /\ a[w[i]] \notin D[key] /\ w[i] # w[Len(w)]
            /\ \A j \in D[key], r \in Sides : w[i] # <<j, r>>
  <1>0. /\ Len(w) \in Nat /\ Len(w) >= 1 /\ Len(w) - 1 \in Nat /\ w[1] = RootPlace
        /\ w \in Seq(Places) /\ Len(w) \in 1 .. Len(w)
    BY DEF Leads
  <1>1. \A i \in 1 .. Len(w) - 1 : /\ i \in 1 .. Len(w) /\ i + 1 \in 1 .. Len(w) /\ a[w[i]] \in A
                                   /\ a[w[i]] # key
                                   /\ w[i + 1] = <<a[w[i]], SideTo(key, a[w[i]])>>
    <2>1. \A i \in 1 .. Len(w) - 1 : i \in 1 .. Len(w) /\ i + 1 \in 1 .. Len(w)
      BY ONLY <1>0
    <2> QED
      BY <2>1 DEF Leads
  <1>2. \A i \in 1 .. Len(w) : w[i] \in Live(A) /\ a[w[i]] \in A /\ w[i] \in Places
    <2>1. \A i \in 1 .. Len(w) : i \in 1 .. Len(w) - 1 \/ i = Len(w)
      BY ONLY <1>0
    <2>2. \A i \in 1 .. Len(w) : w[i] \in Live(A) /\ w[i] \in Places
      BY LiveFacts DEF Leads
    <2> QED
      BY <1>1, <2>1, <2>2
  <1>3. PICK stack : stack = [i \in 1 .. Len(w) |->
            [place |-> w[i], dir |-> IF SideTo(key, a[w[i]]) = "left" THEN -1 ELSE 1]]
    OBVIOUS
  <1>4. \A i \in 1 .. Len(w) : /\ stack[i] \in StackNode /\ stack[i].place = w[i]
                               /\ SideOf(stack[i].dir) = SideTo(key, a[w[i]])
    BY <1>2, <1>3 DEF StackNode, SideOf, SideTo
  <1>5. stack \in Seq(StackNode) /\ Len(stack) = Len(w)
    BY <1>0, <1>3, <1>4
  <1>6. Way(a, A, stack, Len(w))
    <2>1. ASSUME NEW x \in 1 .. Len(w)
          PROVE  stack[x].place = IF x = 1 THEN RootPlace
                                  ELSE <<a[stack[x - 1].place], SideOf(stack[x - 1].dir)>>
      <3>1. CASE x = 1
        BY <1>0, <1>4, <3>1
      <3>2. CASE x # 1
        <4>1. PICK y : y = x - 1
          OBVIOUS
        <4>2. y \in 1 .. Len(w) - 1 /\ y \in 1 .. Len(w) /\ x = y + 1
          BY <1>0, <3>2, <4>1
        <4>3. stack[x].place = w[y + 1] /\ stack[y].place = w[y]
              /\ SideOf(stack[y].dir) = SideTo(key, a[w[y]])
          BY <1>4, <4>2
        <4>4. w[y + 1] = <<a[w[y]], SideTo(key, a[w[y]])>>
          BY <1>1, <4>2
        <4> QED
          BY <3>2, <4>1, <4>3, <4>4
      <3> QED
        BY <3>1, <3>2
    <2>2. \A x \in 1 .. Len(w) : stack[x].place \in Live(A) /\ a[stack[x].place] \in A
      BY <1>2, <1>4
    <2>3. Len(w) \in 0 .. Len(stack)
      BY <1>0, <1>5
    <2> QED
      BY <1>5, <2>1, <2>2, <2>3 DEF Way
  <1>7. ASSUME NEW i \in 1 .. Len(w) - 1
        PROVE  a[w[i]] \notin D[key]
    <2>1. PICK j : j = Len(w)
      OBVIOUS
    <2>2. i \in 1 .. j /\ j \in 1 .. j /\ i < j /\ Way(a, A, stack, j)
      BY <1>0, <1>6, <2>1
    <2>3. a[stack[i].place] \notin D[a[stack[j].place]]
      BY ONLY <2>2, WayNested, Shape(a, A, D)
    <2>4. stack[i].place = w[i] /\ stack[j].place = w[j]
      BY <1>4, <2>1, <2>2
    <2> QED
      BY <2>1, <2>3, <2>4
  <1>8. ASSUME NEW i \in 1 .. Len(w) - 1, NEW j \in D[key], NEW r \in Sides
        PROVE  w[i] # <<j, r>>
    <2>1. CASE i = 1
      <3>1. j \in Keys
        <4>1. key \in Pointers /\ D[key] \in SUBSET Keys
          BY LiveFacts DEF Shape
        <4> QED
          BY <4>1
      <3> QED
        BY <1>0, <2>1, <3>1, PlacesFacts
    <2>2. CASE i # 1
      <3>1. PICK y : y = i - 1
        OBVIOUS
      <3>2. y \in 1 .. Len(w) - 1 /\ i = y + 1
        BY <1>0, <2>2, <3>1
      <3>3. w[i] = <<a[w[y]], SideTo(key, a[w[y]])>>
        BY <1>1, <3>2
      <3>4. a[w[y]] \notin D[key]
        BY <1>7, <3>2
      <3> QED
        BY <3>3, <3>4
    <2> QED
      BY <2>1, <2>2
  <1> QED
    BY <1>1, <1>7, <1>8

\* The node at q, which has no child on the right, is cut out.
Cuts(a, A, q, k, l, a2) ==
    /\ q \in Live(A) /\ k \in A /\ k = a[q] /\ l = a[<<k, "left">>] /\ a[<<k, "right">>] = Nil
    /\ a2 = [a EXCEPT ![q] = l]

\* What is below the nodes without k.
CutBelow(D, k) == [j \in Pointers |-> D[j] \ {k}]

\* Without a node that had no child on the right the tree is a search tree of the others.
LEMMA CutShape ==
  ASSUME NEW a, NEW A, NEW D, Shape(a, A, D), NEW q, NEW k, NEW l, NEW a2,
         Cuts(a, A, q, k, l, a2)
  PROVE  Shape(a2, A \ {k}, CutBelow(D, k))
  <1> DEFINE D2 == CutBelow(D, k)
             A2 == A \ {k}
  <1>0. /\ q \in Live(A) /\ k \in A /\ k = a[q] /\ l = a[<<k, "left">>] /\ a[<<k, "right">>] = Nil
        /\ a2 = [a EXCEPT ![q] = l]
    BY DEF Cuts
  <1>1. /\ A \in SUBSET Keys /\ A \in SUBSET Pointers /\ Nil \notin A /\ RootPlace \in Live(A)
        /\ (\A p \in Live(A) : p \in Places) /\ (\A j \in A, s \in Sides : <<j, s>> \in Live(A))
        /\ q \in Places /\ Nil \in Pointers
    BY <1>0, LiveFacts DEF Pointers
  <1>2. \A p \in Live(A) : a[p] \in A \cup {Nil}
    BY DEF Shape
  <1>3. Single(a, A) /\ D \in [Pointers -> SUBSET Keys] /\ D[Nil] = {} /\ D[a[RootPlace]] = A
        /\ a \in [Places -> Pointers]
    BY DEF Shape
  <1>4. D[k] = {k} \cup D[l] /\ k \notin D[l] /\ l # k /\ l \in A \cup {Nil}
    <2>1. PICK f : f = a[<<k, "right">>]
      OBVIOUS
    <2>2. "left" \in Sides /\ Opposite("left") = "right"
      BY DEF Sides, Opposite
    <2>3. D[k] = {k} \cup D[l] \cup D[f] /\ k \notin D[l] /\ (l # Nil => l # k /\ l \in A)
      BY ONLY <1>0, <2>1, <2>2, ChildFacts, Shape(a, A, D)
    <2>4. D[f] = {} /\ k # Nil
      BY <1>0, <1>1, <1>3, <2>1
    <2> QED
      BY <2>3, <2>4
  <1>5. \A s \in Sides : q # <<k, s>>
    <2>1. k \in D[k]
      BY <1>4
    <2> QED
      BY <1>0, <2>1, OwnerOutside
  <1>6. a2 \in [Places -> Pointers] /\ a2[q] = l /\ \A p \in Places : p # q => a2[p] = a[p]
    BY <1>0, <1>1, <1>3, <1>4
  <1>7. D2 \in [Pointers -> SUBSET Keys] /\ \A j \in Pointers : D2[j] = D[j] \ {k}
    BY <1>3 DEF CutBelow
  <1> HIDE DEF D2
  <1>8. /\ \A p \in Live(A2) : p \in Live(A) /\ \A s \in Sides : p # <<k, s>>
        /\ RootPlace \in Live(A2)
    BY <1>0, <1>1, PlacesFacts DEF Live
  <1>9. \A p \in Live(A) : p # q => a[p] # k
    BY <1>0, <1>1, <1>3 DEF Single
  <1>10. \A p \in Live(A2) : a2[p] \in A2 \cup {Nil}
    BY <1>1, <1>2, <1>4, <1>6, <1>8, <1>9
  <1>11. Single(a2, A2)
    <2> SUFFICES ASSUME NEW p \in Live(A2), NEW p2 \in Live(A2), a2[p] = a2[p2], a2[p] # Nil
                 PROVE  p = p2
      BY DEF Single
    <2>1. "left" \in Sides /\ <<k, "left">> \in Live(A)
      BY <1>0, <1>1 DEF Sides
    <2>2. ASSUME NEW x \in Live(A2), x # q
          PROVE  a2[x] = a[x] /\ (a[x] = l => l = Nil)
      <3>1. x \in Live(A) /\ x # <<k, "left">> /\ x \in Places
        BY <1>1, <1>8, <2>1
      <3> QED
        BY <1>0, <1>3, <1>6, <2>1, <2>2, <3>1 DEF Single
    <2>3. p = q <=> p2 = q
      BY <1>6, <2>2
    <2> QED
      BY <1>3, <1>8, <2>2, <2>3 DEF Single
  <1>12. ASSUME NEW p \in Live(A2)
         PROVE  D2[a2[p]] = D[a[p]] \ {k}
    <2>1. CASE p = q
      <3>1. l \in Pointers
        BY <1>1, <1>4
      <3> QED
        BY <1>0, <1>4, <1>6, <1>7, <2>1, <3>1
    <2>2. CASE p # q
      BY <1>1, <1>2, <1>6, <1>7, <1>8, <2>2
    <2> QED
      BY <2>1, <2>2
  <1>13. D2[a2[RootPlace]] = A2
    BY <1>3, <1>8, <1>12
  <1>14. D2[Nil] = {}
    BY <1>1, <1>3, <1>7
  <1>15. ASSUME NEW j \in A2
         PROVE  Splits(a2, D2, j)
    <2>1. \A s \in Sides : <<j, s>> \in Live(A2) /\ Opposite(s) \in Sides
      BY SidesFacts DEF Live
    <2>2. \A s \in Sides : D2[a2[<<j, s>>]] = D[a[<<j, s>>]] \ {k}
      BY <1>12, <2>1
    <2>3. Splits(a, D, j) /\ D2[j] = D[j] \ {k} /\ j # k
      BY <1>1, <1>7 DEF Shape
    <2> QED
      BY <2>1, <2>2, <2>3 DEF Splits
  <1>16. A2 \in SUBSET Keys
    BY <1>1
  <1>17. Shape(a2, A2, D2)
    BY <1>6, <1>7, <1>10, <1>11, <1>13, <1>14, <1>15, <1>16 DEF Shape
  <1> QED
    BY <1>17 DEF D2

\* The places of a stack are those of the way, its directions those to the key.
Stacked(a, w, key, stack) ==
    /\ stack \in Seq(StackNode) /\ Len(stack) = Len(w) - 1
    /\ \A i \in 1 .. Len(w) - 1 : /\ stack[i].place = w[i]
                                  /\ SideOf(stack[i].dir) = SideTo(key, a[w[i]])

\* The stack of a search has the places of the search and its directions.
LEMMA StackFits ==
  ASSUME NEW t \in Trees, NEW A, NEW a, a = Kids(t), NEW D, Shape(a, A, D), NEW key,
         NEW w, Leads(a, A, D, key, RootPlace, w), NEW stack, stack = Stack(t, w, key)
  PROVE  Stacked(a, w, key, stack)
  <1>1. /\ stack \in Seq(StackNode) /\ Len(stack) = Len(w) - 1
        /\ \A i \in 1 .. Len(w) - 1 : /\ stack[i].place = w[i]
                                      /\ SideOf(stack[i].dir) = SideTo(key, a[w[i]])
    BY ONLY StackWay, a = Kids(t), t \in Trees, Shape(a, A, D),
            Leads(a, A, D, key, RootPlace, w), stack = Stack(t, w, key)
  <1> QED
    BY ONLY <1>1 DEF Stacked

\* The stack of the way to a key leads down a tree that is the same on this way.
LEMMA StackLeads ==
  ASSUME NEW t \in Trees, NEW A, NEW D, NEW a, a = Kids(t), Shape(a, A, D), NEW key,
         NEW w, Leads(a, A, D, key, RootPlace, w), NEW stack, stack = Stack(t, w, key),
         NEW a2, NEW A2,
         \A i \in 1 .. Len(w) - 1 : w[i] \in Live(A2) /\ a2[w[i]] = a[w[i]] /\ a[w[i]] \in A2
  PROVE  Way(a2, A2, stack, Len(stack))
  <1>1. Len(w) \in Nat /\ Len(w) >= 1 /\ w[1] = RootPlace
    BY DEF Leads
  <1>2. /\ stack \in Seq(StackNode) /\ Len(stack) = Len(w) - 1
        /\ \A i \in 1 .. Len(stack) : /\ stack[i].place = w[i]
                                      /\ SideOf(stack[i].dir) = SideTo(key, a[w[i]])
    <2>1. /\ stack \in Seq(StackNode) /\ Len(stack) = Len(w) - 1
          /\ \A i \in 1 .. Len(w) - 1 : /\ stack[i].place = w[i]
                                        /\ SideOf(stack[i].dir) = SideTo(key, a[w[i]])
      BY ONLY StackWay, a = Kids(t), t \in Trees, Shape(a, A, D),
              Leads(a, A, D, key, RootPlace, w), stack = Stack(t, w, key)
    <2> QED
      BY ONLY <2>1
  <1>3. Len(stack) \in Nat /\ \A i \in 1 .. Len(stack) : i \in 1 .. Len(w) - 1
    BY ONLY <1>1, <1>2
  <1>4. \A i \in 1 .. Len(stack) :
           /\ w[i] \in Live(A2) /\ a[w[i]] \in A2 /\ a2[w[i]] = a[w[i]]
           /\ w[i + 1] = <<a[w[i]], SideTo(key, a[w[i]])>>
    BY <1>3 DEF Leads
  <1>5. ASSUME NEW x \in 1 .. Len(stack)
        PROVE  stack[x].place = IF x = 1 THEN RootPlace
                                ELSE <<a2[stack[x - 1].place], SideOf(stack[x - 1].dir)>>
    <2>1. CASE x = 1
      BY <1>1, <1>2, <2>1
    <2>2. CASE x # 1
      <3>1. PICK y : y = x - 1
        OBVIOUS
      <3>2. y \in 1 .. Len(stack) /\ x = y + 1
        BY <1>3, <2>2, <3>1
      <3>3. stack[x].place = w[y + 1] /\ stack[y].place = w[y]
            /\ SideOf(stack[y].dir) = SideTo(key, a[w[y]])
        BY <1>2, <3>2
      <3>4. w[y + 1] = <<a2[w[y]], SideTo(key, a[w[y]])>>
        BY <1>4, <3>2
      <3> QED
        BY <2>2, <3>1, <3>3, <3>4
    <2> QED
      BY <2>1, <2>2
  <1> QED
    BY <1>2, <1>3, <1>4, <1>5 DEF Way

\* Without a node that had no child on the right only the node above it may not be level.
LEMMA CutWaits ==
  ASSUME NEW t, NEW A, NEW D, NEW h, Good(t, A, D, h), NEW key \in A,
         NEW w, w = Path(t, key), NEW q, q = w[Len(w)], NEW stack, stack = Stack(t, w, key),
         NEW l, Kids(t)[q] = key, NEW v \in Trees, Cuts(Kids(t), A, q, key, l, Kids(v)), Bals(v) = Bals(t)
  PROVE  \E D2, h2 : Waiting(v, A \ {key}, D2, h2, stack, Len(stack), -1, TRUE)
  <1>0. PICK a, b, a2, A2, D2 :
           /\ a = Kids(t) /\ b = Bals(t) /\ a2 = Kids(v) /\ A2 = A \ {key}
           /\ D2 = CutBelow(D, key)
    OBVIOUS
  <1>1. t \in Trees /\ Shape(a, A, D) /\ Heights(b, h) /\ Avl(a, b, A, D, h)
    BY <1>0 DEF Good, Avl
  <1>2. /\ q \in Live(A) /\ key = a[q] /\ l = a[<<key, "left">>] /\ a[<<key, "right">>] = Nil
        /\ a2 = [a EXCEPT ![q] = l] /\ Bals(v) = b
    BY <1>0 DEF Cuts
  <1>3. A \in SUBSET Keys /\ A \in SUBSET Pointers /\ key \in Keys /\ Nil \notin A /\ q \in Places
        /\ (\A p \in Live(A) : p \in Places /\ a[p] \in A \cup {Nil})
        /\ a \in [Places -> Pointers] /\ Single(a, A)
    <2>1. A \in SUBSET Keys /\ A \in SUBSET Pointers /\ key \in Keys /\ Nil \notin A /\ q \in Places
          /\ (\A p \in Live(A) : p \in Places)
      BY <1>1, <1>2, LiveFacts
    <2> QED
      BY <1>1, <2>1, Zenon DEF Shape
  <1>4. Leads(a, A, D, key, RootPlace, w)
    BY <1>0, <1>3, PathLeads
  <1>5. Shape(a2, A2, D2)
    <2>1. Cuts(a, A, q, key, l, a2)
      BY <1>0, Zenon
    <2> QED
      BY <1>0, <1>1, <2>1, CutShape
  <1>6. a2[q] = l /\ \A p \in Places : p # q => a2[p] = a[p]
    <2>1. l \in Pointers
      BY <1>2, <1>3, PlacesFacts DEF Sides
    <2> QED
      BY <1>2, <1>3, <2>1
  <1>7. \A i \in 1 .. Len(w) - 1 :
           /\ a[w[i]] \in A /\ a[w[i]] \notin D[key] /\ w[i] # q /\ w[i] \in Live(A)
           /\ \A j \in D[key], r \in Sides : w[i] # <<j, r>>
    <2>1. \A i \in 1 .. Len(w) - 1 :
           /\ a[w[i]] \in A /\ a[w[i]] \notin D[key] /\ w[i] # w[Len(w)]
           /\ \A j \in D[key], r \in Sides : w[i] # <<j, r>>
      <3>1. a[w[Len(w)]] = key
        BY <1>2
      <3> QED
        BY ONLY <1>1, <1>4, <3>1, LeadsOutside, key \in A
    <2>2. \A i \in 1 .. Len(w) - 1 : w[i] \in Live(A)
      <3>1. Len(w) \in Nat
        BY <1>4 DEF Leads
      <3>2. \A i \in 1 .. Len(w) - 1 : i \in 1 .. Len(w)
        BY ONLY <3>1
      <3> QED
        BY <1>4, <3>2 DEF Leads
    <2> QED
      BY <2>1, <2>2
  <1>8. key \in D[key]
    BY <1>1, SelfBelow
  <1>9. \A i \in 1 .. Len(w) - 1 : w[i] \in Live(A2) /\ a2[w[i]] = a[w[i]] /\ a[w[i]] \in A2
    <2>1. \A i \in 1 .. Len(w) - 1 : a2[w[i]] = a[w[i]] /\ a[w[i]] \in A2
      BY <1>0, <1>3, <1>6, <1>7, <1>8
    <2>2. \A p \in Live(A) : (\A r \in Sides : p # <<key, r>>) => p \in Live(A2)
      BY <1>0 DEF Live
    <2> QED
      BY <1>7, <1>8, <2>1, <2>2
  <1>10. Way(a2, A2, stack, Len(stack))
    <2>1. a = Kids(t) /\ t \in Trees /\ Shape(a, A, D)
      BY <1>0, <1>1
    <2>2. stack = Stack(t, w, key)
      OBVIOUS
    <2> QED
      BY ONLY <2>1, <2>2, <1>4, <1>9, StackLeads
  <1>11. /\ stack \in Seq(StackNode) /\ Len(stack) = Len(w) - 1 /\ Len(w) \in Nat /\ Len(w) >= 1
         /\ \A i \in 1 .. Len(w) - 1 : /\ stack[i].place = w[i]
                                       /\ SideOf(stack[i].dir) = SideTo(key, a[w[i]])
    <2>1. Len(w) \in Nat /\ Len(w) >= 1
      BY <1>4 DEF Leads
    <2> QED
      <3>1. a = Kids(t) /\ t \in Trees /\ Shape(a, A, D)
        BY <1>0, <1>1
      <3>2. stack = Stack(t, w, key)
        OBVIOUS
      <3>3. Stacked(a, w, key, stack)
        BY ONLY <3>1, <3>2, <1>4, StackFits
      <3> QED
        BY ONLY <2>1, <3>3 DEF Stacked
  <1>12. /\ h[key] \in Nat /\ h[l] \in Nat /\ h[key] = h[l] + 1 /\ h[Nil] = 0
    <2>1. "left" \in Sides /\ Opposite("left") = "right"
      BY DEF Sides, Opposite
    <2>2. Leveled(a, b, h, key) /\ h[Nil] = 0
      BY <1>1, Zenon DEF Avl, Heights
    <2>3. h[key] \in Nat /\ h[l] \in Nat
      BY ONLY <1>1, <1>2, <2>1, ChildLower
    <2>4. h[key] = 1 + Higher(h[l], 0)
      BY <1>2, <2>1, <2>2 DEF Leveled
    <2> QED
      BY <2>2, <2>3, <2>4 DEF Higher
  <1>13. ASSUME NEW k \in A2, \A r \in Sides : <<k, r>> # q
         PROVE  Leveled(a2, b, h, k)
    <2>1. k \in A /\ Leveled(a, b, h, k)
      BY <1>0, <1>1 DEF Avl
    <2>2. \A r \in Sides : a2[<<k, r>>] = a[<<k, r>>] /\ Opposite(r) \in Sides
      BY <1>3, <1>6, <1>13, <2>1, PlacesFacts, SidesFacts
    <2> QED
      BY <2>1, <2>2 DEF Leveled
  <1>14. CASE Len(stack) = 0
    <2>1. q = RootPlace
      <3>1. Len(w) = 1
        BY <1>11, <1>14
      <3> QED
        BY <1>4, <3>1 DEF Leads
    <2>2. \A k \in A2 : Leveled(a2, b, h, k)
      <3>1. \A k \in A2, r \in Sides : <<k, r>> # q
        BY <1>0, <1>3, <2>1, PlacesFacts
      <3> QED
        BY <1>13, <3>1
    <2>3. Waiting(v, A2, D2, h, stack, Len(stack), -1, TRUE)
      <3>1. /\ Shape(Kids(v), A2, D2) /\ Heights(Bals(v), h) /\ Way(Kids(v), A2, stack, Len(stack))
            /\ \A k \in A2 : Leveled(Kids(v), Bals(v), h, k)
        BY ONLY <1>0, <1>1, <1>2, <1>5, <1>10, <2>2, Zenon
      <3> QED
        BY ONLY <3>1, <1>14, v \in Trees DEF Waiting
    <2> QED
      BY <1>0, <2>3
  <1>15. CASE Len(stack) # 0
    <2>0. PICK i, n, s, p, f : /\ i = Len(stack) /\ n = a[w[i]] /\ s = SideTo(key, n) /\ p = w[i]
                               /\ f = a2[<<n, Opposite(s)>>]
      OBVIOUS
    <2>1. i \in 1 .. Len(w) - 1 /\ i > 0 /\ Len(w) = i + 1
      BY <1>11, <1>15, <2>0
    <2>2. /\ n \in A2 /\ q = <<n, s>> /\ p \in Live(A2) /\ a2[p] = n /\ s \in Sides
          /\ stack[i].place = p /\ SideOf(stack[i].dir) = s
      <3>1. s \in Sides
        BY <2>0 DEF SideTo, Sides
      <3>2. w[i + 1] = <<n, s>>
        BY <1>4, <2>0, <2>1 DEF Leads
      <3> QED
        BY <1>9, <1>11, <2>0, <2>1, <3>1, <3>2
    <2>3. \A k \in A2 \ {n} : Leveled(a2, b, h, k)
      BY <1>13, <2>2
    <2>4. /\ <<n, Opposite(s)>> # q /\ f = a[<<n, Opposite(s)>>] /\ f \in A \cup {Nil} /\ n \in A
      <3>1. <<n, Opposite(s)>> \in Live(A) /\ Opposite(s) # s /\ n \in A
        BY <1>0, <2>2, SidesFacts DEF Live
      <3>2. <<n, Opposite(s)>> # q
        <4>1. q = <<n, s>> /\ Opposite(s) # s
          BY ONLY <2>2, <3>1, Zenon
        <4> QED
          BY ONLY <4>1
      <3> QED
        BY <1>3, <1>6, <2>0, <3>1, <3>2
    <2>5. Pending(a2, b, A2, D2, h, p, s, -1, n, l, f)
      <3>1. Leveled(a, b, h, n)
        BY <1>1, <2>4 DEF Avl
      <3>2. h[n] = 1 + Higher(h[key], h[f]) /\ b[n] = Lean(s, h[key], h[f]) /\ b[n] \in -1 .. 1
        BY <1>2, <2>2, <2>4, <3>1 DEF Leveled
      <3>3. h[l] - (-1) = h[key]
        BY <1>12
      <3>4. /\ h[n] = 1 + Higher(h[l] - (-1), h[f])
            /\ b[n] = Lean(s, h[l] - (-1), h[f]) /\ b[n] \in -1 .. 1
        BY <3>2, <3>3
      <3>5. l = a2[<<n, s>>] /\ n = a2[p]
        BY <1>6, <2>2
      <3> QED
        BY <1>1, <1>5, <2>0, <2>2, <2>3, <3>4, <3>5 DEF Pending
    <2>6. Waiting(v, A2, D2, h, stack, Len(stack), -1, TRUE)
      <3>1. \E n1, c1, f1 : Pending(Kids(v), Bals(v), A2, D2, h, stack[Len(stack)].place,
                                    SideOf(stack[Len(stack)].dir), -1, n1, c1, f1)
        <4>1. Pending(Kids(v), Bals(v), A2, D2, h, stack[i].place, SideOf(stack[i].dir), -1, n, l, f)
          BY <1>0, <1>2, <2>2, <2>5
        <4> QED
          BY <2>0, <4>1
      <3> QED
        <4>1. /\ Shape(Kids(v), A2, D2) /\ Heights(Bals(v), h)
              /\ Way(Kids(v), A2, stack, Len(stack))
          BY <1>0, <1>1, <1>2, <1>5, <1>10
        <4> QED
          BY ONLY <3>1, <4>1, <1>15, v \in Trees DEF Waiting
    <2> QED
      BY <1>0, <2>6
  <1> QED
    BY <1>14, <1>15

------------------------------------------------------------------------------
(* A removal, when the node k at q has a child r on the right: the smallest node s below *)
(* r, which was at g, takes the place of k, and what was on the right of s goes to z.    *)

\* a2 is a after the move.
Moves(a, A, D, q, k, l, r, s, y, z, g, a2) ==
    /\ q \in Live(A) /\ k \in A /\ k = a[q] /\ l = a[<<k, "left">>] /\ r = a[<<k, "right">>]
    /\ r \in A /\ s \in A /\ s \in D[r] /\ y = a[<<s, "right">>] /\ a[<<s, "left">>] = Nil
    /\ \A x \in D[r] : x = s \/ s < x
    /\ \/ r = s /\ z = <<s, "right">> /\ g = <<k, "right">>
       \/ /\ r # s /\ g = z /\ a[g] = s /\ a2[<<s, "right">>] = r
          /\ \E m \in A : m # s /\ m \in D[r] /\ z = <<m, "left">>
    /\ a2 \in [Places -> Pointers] /\ a2[q] = s /\ a2[<<s, "left">>] = l /\ a2[z] = y
    /\ \A p \in Places : p \notin {q, <<s, "left">>, <<s, "right">>, z} => a2[p] = a[p]

\* How the nodes that take part are placed in the tree.
MovedNodes(A, D, k, l, r, s, y) ==
    /\ k # s /\ k \notin D[r] /\ k \notin D[l] /\ k \notin D[s] /\ k \notin D[y]
    /\ s \notin D[l] /\ s \notin D[y] /\ l # s /\ y # s /\ s \in D[k] /\ k \in D[k]
    /\ D[k] = {k} \cup D[l] \cup D[r] /\ D[s] = {s} \cup D[y] /\ k < s
    /\ \A x \in D[l] : x < k
    /\ D[r] \in SUBSET D[k]
    /\ l \in A \cup {Nil} /\ y \in A \cup {Nil}
    /\ k \in Nat /\ s \in Nat /\ D[k] \in SUBSET Nat

\* The nodes that take part in a move are different and lie below one another as stated.
LEMMA MovesBelow ==
  ASSUME NEW a, NEW b, NEW A, NEW D, NEW h, Avl(a, b, A, D, h), NEW q, NEW k, NEW l, NEW r, NEW s,
         NEW y, NEW z, NEW g, NEW a2, Moves(a, A, D, q, k, l, r, s, y, z, g, a2)
  PROVE  MovedNodes(A, D, k, l, r, s, y)
  <1>0. "left" \in Sides /\ Opposite("left") = "right" /\ "right" \in Sides /\ Opposite("right") = "left"
    BY DEF Sides, Opposite
  <1>1. /\ k \in A /\ l = a[<<k, "left">>] /\ r = a[<<k, "right">>] /\ r \in A /\ s \in A /\ s \in D[r]
        /\ y = a[<<s, "right">>] /\ a[<<s, "left">>] = Nil
    BY DEF Moves
  <1>2. Shape(a, A, D) /\ Nil \notin A /\ D[Nil] = {}
    BY LiveFacts DEF Avl, Shape
  <1>3. /\ D[k] = {k} \cup D[l] \cup D[r] /\ k \notin D[r] /\ (\A x \in D[r] : x \notin D[l] /\ Before("right", x, k))
        /\ k \in Nat /\ D[r] \in SUBSET Keys
    <2>1. /\ D[k] = {k} \cup D[r] \cup D[l] /\ k \notin D[r] /\ (\A x \in D[r] : x \notin D[l] /\ Before("right", x, k))
          /\ k \in Nat /\ D[r] \in SUBSET Keys
      BY ONLY <1>0, <1>1, <1>2, ChildFacts
    <2> QED
      BY <2>1
  <1>4. /\ k \notin D[l] /\ (\A x \in D[l] : Before("left", x, k)) /\ (l # Nil => l \in A /\ l \in D[l])
        /\ D[l] \in SUBSET Keys
    BY ONLY <1>0, <1>1, <1>2, ChildFacts
  <1>5. PICK e : e = a[<<s, "left">>]
    OBVIOUS
  <1>6. /\ D[s] = {s} \cup D[y] \cup D[e] /\ s \notin D[y] /\ (y # Nil => y \in A /\ y \in D[y]) /\ s \in Nat
    <2>1. s \in A /\ y = a[<<s, "right">>] /\ e = a[<<s, Opposite("right")>>]
      BY <1>0, <1>1, <1>5
    <2>2. "right" \in Sides /\ Shape(a, A, D)
      BY <1>0, <1>2
    <2> QED
      <3>1. D[s] = {s} \cup D[y] \cup D[e]
        BY ONLY <2>1, <2>2, ChildFacts
      <3>2. s \notin D[y] /\ s \in Nat
        BY ONLY <2>1, <2>2, ChildFacts
      <3>3. y # Nil => y \in A /\ y \in D[y]
        BY ONLY <2>1, <2>2, ChildFacts
      <3> QED
        BY <3>1, <3>2, <3>3
  <1>7. D[s] \in SUBSET D[r]
    <2>1. r \in A /\ s \in D[r]
      BY <1>1
    <2>2. s \in A /\ D[s] \in SUBSET D[r] /\ h[s] <= h[r]
      BY ONLY <2>1, BelowBelow, Avl(a, b, A, D, h)
    <2> QED
      BY <2>2
  <1>8. D[s] = {s} \cup D[y]
    BY <1>1, <1>2, <1>5, <1>6
  <1>9. k < s /\ \A x \in D[l] : x < k
    BY <1>1, <1>3, <1>4 DEF Before
  <1>10. s \notin D[l] /\ k # s /\ k \notin D[s] /\ k \notin D[y]
    BY <1>1, <1>3, <1>7, <1>8
  <1>11. l # s /\ y # s /\ l \in A \cup {Nil} /\ y \in A \cup {Nil}
    BY <1>1, <1>2, <1>4, <1>6, <1>10
  <1>12. s \in D[k] /\ k \in D[k] /\ D[r] \in SUBSET D[k]
    BY <1>1, <1>3
  <1>13. D[k] \in SUBSET Nat
    BY <1>3, <1>4, KeysFacts
  <1> QED
    BY <1>3, <1>4, <1>6, <1>8, <1>9, <1>10, <1>11, <1>12, <1>13 DEF MovedNodes

\* How the places that take part are placed in the tree.
MovedPlaces(a, A, q, k, s, z, g) ==
    /\ g \in Live(A) /\ a[g] = s /\ g # RootPlace /\ q \in Live(A)
    /\ \A e \in Sides : q # <<k, e>> /\ q # <<s, e>>
    /\ q # z /\ z # <<s, "left">> /\ z \in Live(A \ {k})
    /\ \A e \in Sides : z # <<k, e>>
    /\ \A p \in Live(A) : a[p] = s => p = g
    /\ \A p \in Live(A) : a[p] = k => p = q
    /\ g # q

\* The places that take part in a move are different, and each node was in one of them.
LEMMA MovesPlaces ==
  ASSUME NEW a, NEW b, NEW A, NEW D, NEW h, Avl(a, b, A, D, h), NEW q, NEW k, NEW l, NEW r, NEW s,
         NEW y, NEW z, NEW g, NEW a2, Moves(a, A, D, q, k, l, r, s, y, z, g, a2)
  PROVE  MovedPlaces(a, A, q, k, s, z, g)
  <1>0. "left" \in Sides /\ "right" \in Sides
    BY DEF Sides
  <1>1. /\ k \in A /\ r = a[<<k, "right">>] /\ r \in A /\ s \in A /\ s \in D[r] /\ k = a[q] /\ q \in Live(A)
        /\ \/ r = s /\ z = <<s, "right">> /\ g = <<k, "right">>
           \/ /\ r # s /\ g = z /\ a[g] = s
              /\ \E m \in A : m # s /\ m \in D[r] /\ z = <<m, "left">>
    BY DEF Moves
  <1>2. Shape(a, A, D) /\ Nil \notin A /\ Single(a, A) /\ A \in SUBSET Keys
        /\ \A j \in A, e \in Sides : <<j, e>> \in Live(A)
    <2>1. Shape(a, A, D)
      BY DEF Avl
    <2>2. Single(a, A)
      BY <2>1 DEF Shape
    <2> QED
      BY <2>1, <2>2, LiveFacts
  <1>3. k # s /\ k \notin D[r] /\ s \in D[k] /\ k \in D[k] /\ D[r] \in SUBSET D[k]
    <2>1. MovedNodes(A, D, k, l, r, s, y)
      BY MovesBelow
    <2> QED
      BY <2>1 DEF MovedNodes
  <1>4. PICK m \in A : m \in D[k] /\ m # k /\ \E e \in Sides : z = <<m, e>> /\ z # <<s, "left">>
    <2>1. CASE r = s
      BY <1>0, <1>1, <1>3, <2>1
    <2>2. CASE r # s
      BY <1>0, <1>1, <1>3, <2>2
    <2> QED
      BY <2>1, <2>2
  <1>5. \A e \in Sides, j \in D[k] : j \in A => q # <<j, e>>
    <2> SUFFICES ASSUME NEW j \in A, j \in D[k]
                 PROVE  \A e \in Sides : q # <<j, e>>
      OBVIOUS
    <2> QED
      BY ONLY <1>1, <1>2, OwnerOutside, j \in A, j \in D[k]
  <1>6. g \in Live(A) /\ a[g] = s /\ g # RootPlace
    <2>1. \A j \in A, e \in Sides : <<j, e>> # RootPlace
      BY <1>2, PlacesFacts
    <2>2. CASE r = s
      BY <1>0, <1>1, <1>2, <2>1, <2>2
    <2>3. CASE r # s
      BY <1>0, <1>1, <1>2, <2>1, <2>3
    <2> QED
      BY <2>2, <2>3
  <1>7. z \in Live(A \ {k})
    BY <1>4 DEF Live
  <1>8. \A p \in Live(A) : (a[p] = s => p = g) /\ (a[p] = k => p = q)
    BY <1>1, <1>2, <1>6 DEF Single
  <1>9. g # q
    BY <1>1, <1>3, <1>6
  <1> QED
    BY <1>1, <1>3, <1>4, <1>5, <1>6, <1>7, <1>8, <1>9 DEF MovedPlaces

\* What is below the nodes after a move.
MoveBelow(D, k, s) ==
    [j \in Pointers |-> IF j = s THEN D[k] \ {k} ELSE IF k \in D[j] THEN D[j] \ {k} ELSE D[j] \ {s}]

\* What the places store after a move.
MovedKids(a, A, D, q, k, l, r, s, y, z, g, a2) ==
    /\ a2[q] = s /\ a2[<<s, "left">>] = l /\ a2[z] = y
    /\ IF r = s THEN z = <<s, "right">> /\ g = <<k, "right">>
       ELSE g = z /\ a2[<<s, "right">>] = r /\ z # <<s, "right">>
    /\ \A p \in Live(A \ {k}) : p \notin {q, <<s, "left">>, <<s, "right">>, z} =>
           a2[p] = a[p] /\ a[p] # s /\ a[p] # k

\* After a move the places store what is stated, and those not concerned what they did.
LEMMA MovesKids ==
  ASSUME NEW a, NEW b, NEW A, NEW D, NEW h, Avl(a, b, A, D, h), NEW q, NEW k, NEW l, NEW r, NEW s,
         NEW y, NEW z, NEW g, NEW a2, Moves(a, A, D, q, k, l, r, s, y, z, g, a2)
  PROVE  MovedKids(a, A, D, q, k, l, r, s, y, z, g, a2)
  <1>1. /\ a2[q] = s /\ a2[<<s, "left">>] = l /\ a2[z] = y
        /\ \/ r = s /\ z = <<s, "right">> /\ g = <<k, "right">>
           \/ /\ r # s /\ g = z /\ a2[<<s, "right">>] = r
              /\ \E m \in A : m # s /\ m \in D[r] /\ z = <<m, "left">>
        /\ \A p \in Places : p \notin {q, <<s, "left">>, <<s, "right">>, z} => a2[p] = a[p]
    BY DEF Moves
  <1>2. MovedPlaces(a, A, q, k, s, z, g)
    BY MovesPlaces
  <1>3. /\ \A p \in Live(A) : a[p] = s => p = g
        /\ \A p \in Live(A) : a[p] = k => p = q
    BY <1>2 DEF MovedPlaces
  <1>4. \A p \in Live(A) : p \in Places
    BY LiveFacts DEF Avl
  <1>5. \A p \in Live(A \ {k}) : p \in Live(A) /\ p # <<k, "right">>
    <2>1. <<k, "right">> # RootPlace
      <3>1. k \in A /\ A \in SUBSET Keys /\ "right" \in Sides
        BY DEF Moves, Avl, Shape, Sides
      <3> QED
        BY <3>1, PlacesFacts
    <2> QED
      BY <2>1 DEF Live
  <1>6. IF r = s THEN z = <<s, "right">> /\ g = <<k, "right">>
        ELSE g = z /\ a2[<<s, "right">>] = r /\ z # <<s, "right">>
    BY <1>1
  <1>7. ASSUME NEW p \in Live(A \ {k}), p \notin {q, <<s, "left">>, <<s, "right">>, z}
        PROVE  a2[p] = a[p] /\ a[p] # s /\ a[p] # k
    <2>1. p # g
      BY <1>5, <1>6, <1>7
    <2> QED
      BY <1>1, <1>3, <1>4, <1>5, <1>7, <2>1
  <1> QED
    BY <1>1, <1>6, <1>7 DEF MovedKids

\* The place a pointer was in before the move.
From(q, k, s, z, g, p) ==
    IF p = q THEN g ELSE IF p = <<s, "left">> THEN <<k, "left">> ELSE IF p = z THEN <<s, "right">>
    ELSE IF p = <<s, "right">> THEN <<k, "right">> ELSE p

\* After a move each node is still in one place.
LEMMA MovedSingle ==
  ASSUME NEW a, NEW b, NEW A, NEW D, NEW h, Avl(a, b, A, D, h), NEW q, NEW k, NEW l, NEW r, NEW s,
         NEW y, NEW z, NEW g, NEW a2, Moves(a, A, D, q, k, l, r, s, y, z, g, a2)
  PROVE  Single(a2, A \ {k}) /\ \A p \in Live(A \ {k}) : a2[p] \in (A \ {k}) \cup {Nil}
  <1> DEFINE F(p) == From(q, k, s, z, g, p)
             A2 == A \ {k}
  <1>1. MovedKids(a, A, D, q, k, l, r, s, y, z, g, a2)
    BY MovesKids
  <1>2. MovedPlaces(a, A, q, k, s, z, g)
    BY MovesPlaces
  <1>3. Single(a, A) /\ \A p \in Live(A) : a[p] \in A \cup {Nil}
    BY DEF Avl, Shape
  <1>4. MovedNodes(A, D, k, l, r, s, y)
    BY MovesBelow
  <1>5. k \in A /\ s \in A /\ l = a[<<k, "left">>] /\ r = a[<<k, "right">>] /\ y = a[<<s, "right">>]
        /\ a[q] = k /\ q \in Live(A)
    BY DEF Moves
  <1>6. /\ <<k, "left">> \in Live(A) /\ <<k, "right">> \in Live(A) /\ <<s, "right">> \in Live(A)
        /\ "left" \in Sides /\ "right" \in Sides
        /\ \A p \in Live(A2) : p \in Live(A)
    BY <1>5 DEF Live, Sides
  <1>7. \A p \in Live(A2), e \in Sides : p # <<k, e>>
    <2>1. \A e \in Sides : <<k, e>> # RootPlace
      BY <1>5, PlacesFacts DEF Avl, Shape
    <2> QED
      BY <2>1 DEF Live
  <1>8. /\ a[g] = s /\ g \in Live(A) /\ q # <<k, "left">> /\ q # <<k, "right">> /\ q # <<s, "left">>
        /\ q # <<s, "right">> /\ q # z /\ z # <<s, "left">> /\ z \in Live(A2) /\ g # q
    BY <1>2, <1>6 DEF MovedPlaces
  <1>9. /\ a2[q] = s /\ a2[<<s, "left">>] = l /\ a2[z] = y
        /\ IF r = s THEN z = <<s, "right">> /\ g = <<k, "right">>
           ELSE g = z /\ a2[<<s, "right">>] = r /\ z # <<s, "right">>
        /\ \A p \in Live(A2) : p \notin {q, <<s, "left">>, <<s, "right">>, z} => a2[p] = a[p]
    BY <1>1 DEF MovedKids
  <1>10. ASSUME NEW p \in Live(A2)
         PROVE  a2[p] = a[F(p)] /\ F(p) \in Live(A) /\ F(p) # q
    <2>1. CASE p = q
      BY <1>8, <1>9, <2>1 DEF From
    <2>2. CASE p = <<s, "left">>
      BY <1>5, <1>6, <1>8, <1>9, <2>2 DEF From
    <2>3. CASE p = z
      BY <1>5, <1>6, <1>8, <1>9, <2>3 DEF From
    <2>4. CASE p = <<s, "right">> /\ r # s
      BY <1>5, <1>6, <1>8, <1>9, <2>4 DEF From
    <2>5. CASE p \notin {q, <<s, "left">>, <<s, "right">>, z}
      BY <1>6, <1>9, <2>5 DEF From
    <2> QED
      BY <1>9, <2>1, <2>2, <2>3, <2>4, <2>5
  <1>11. ASSUME NEW p \in Live(A2), NEW p2 \in Live(A2), F(p) = F(p2)
         PROVE  p = p2
    <2>1. p # <<k, "left">> /\ p # <<k, "right">> /\ p2 # <<k, "left">> /\ p2 # <<k, "right">>
      BY <1>6, <1>7
    <2>2. CASE r = s
      BY <1>8, <1>9, <1>11, <2>1, <2>2 DEF From
    <2>3. CASE r # s
      <3>1. k # s
        BY <1>4 DEF MovedNodes
      <3>2. PICK kl, kr, sl, sr : /\ kl = <<k, "left">> /\ kr = <<k, "right">>
                                  /\ sl = <<s, "left">> /\ sr = <<s, "right">>
        OBVIOUS
      <3>3. /\ q # sl /\ q # sr /\ q # z /\ z # sl /\ g = z /\ z # sr /\ sl # sr /\ kl # kr
            /\ kl # sl /\ kl # sr /\ kr # sl /\ kr # sr /\ z # kl /\ z # kr
        BY <1>6, <1>7, <1>8, <1>9, <2>3, <3>1, <3>2
      <3>4. /\ F(p) = IF p = q THEN z ELSE IF p = sl THEN kl ELSE IF p = z THEN sr
                      ELSE IF p = sr THEN kr ELSE p
            /\ F(p2) = IF p2 = q THEN z ELSE IF p2 = sl THEN kl ELSE IF p2 = z THEN sr
                       ELSE IF p2 = sr THEN kr ELSE p2
        BY <3>2, <3>3 DEF From
      <3>5. p # kl /\ p # kr /\ p2 # kl /\ p2 # kr
        BY <2>1, <3>2
      <3> HIDE DEF F
      <3> QED
        BY <1>11, <3>3, <3>4, <3>5
    <2> QED
      BY <2>2, <2>3
  <1> HIDE DEF F
  <1>12. Single(a2, A2)
    BY <1>3, <1>10, <1>11 DEF Single
  <1>13. \A p \in Live(A2) : a2[p] \in A2 \cup {Nil}
    BY <1>3, <1>5, <1>10, <1>12 DEF Single
  <1> QED
    BY <1>12, <1>13

\* What is below a place after a move: as before, without the node or without its successor.
Under(a, D, a2, D2, k, s, p) ==
    D2[a2[p]] = IF k \in D[a[p]] THEN D[a[p]] \ {k} ELSE D[a[p]] \ {s}

\* After a move this holds for every place but those in the successor.
LEMMA MovedUnder ==
  ASSUME NEW a, NEW b, NEW A, NEW D, NEW h, Avl(a, b, A, D, h), NEW q, NEW k, NEW l, NEW r, NEW s,
         NEW y, NEW z, NEW g, NEW a2, Moves(a, A, D, q, k, l, r, s, y, z, g, a2),
         NEW D2, D2 = MoveBelow(D, k, s),
         NEW p \in Live(A \ {k}), p # <<s, "left">>, p # <<s, "right">>
  PROVE  Under(a, D, a2, D2, k, s, p)
  <1>1. MovedKids(a, A, D, q, k, l, r, s, y, z, g, a2)
    BY MovesKids
  <1>2. MovedNodes(A, D, k, l, r, s, y)
    BY MovesBelow
  <1>3. MovedPlaces(a, A, q, k, s, z, g)
    BY MovesPlaces
  <1>4. k \in A /\ s \in A /\ a[q] = k /\ A \in SUBSET Pointers /\ Nil \in Pointers
    <2>1. k \in A /\ s \in A /\ a[q] = k
      BY DEF Moves
    <2>2. Shape(a, A, D)
      BY DEF Avl
    <2> QED
      BY <2>1, <2>2, LiveFacts DEF Pointers
  <1>5. /\ D2[s] = D[k] \ {k}
        /\ \A j \in Pointers : j # s => D2[j] = IF k \in D[j] THEN D[j] \ {k} ELSE D[j] \ {s}
    <2>1. s \in Pointers
      BY <1>4
    <2> QED
      BY <2>1 DEF MoveBelow
  <1>6. CASE p = q
    <2>1. a2[p] = s /\ a[p] = k /\ k \in D[k]
      BY <1>1, <1>2, <1>4, <1>6 DEF MovedKids, MovedNodes
    <2> QED
      BY <1>5, <2>1 DEF Under
  <1>7. CASE p = z
    <2>1. a2[p] = y /\ a[p] = s
      <3>1. r # s /\ g = z
        BY <1>1, <1>7 DEF MovedKids
      <3> QED
        BY <1>1, <1>3, <1>7, <3>1 DEF MovedKids, MovedPlaces
    <2>2. y \in Pointers /\ y # s /\ k \notin D[y] /\ s \notin D[y] /\ D[s] = {s} \cup D[y] /\ k \notin D[s]
      BY <1>2, <1>4 DEF MovedNodes
    <2>3. D2[y] = D[y] \ {s}
      BY <1>5, <2>2
    <2> QED
      BY <2>1, <2>2, <2>3 DEF Under
  <1>8. CASE p # q /\ p # z
    <2>1. a2[p] = a[p] /\ a[p] # s
      BY <1>1, <1>8 DEF MovedKids
    <2>2. a[p] \in Pointers
      <3>1. p \in Live(A)
        BY DEF Live
      <3> QED
        BY <1>4, <3>1 DEF Avl, Shape
    <2> QED
      BY <1>5, <2>1, <2>2 DEF Under
  <1> QED
    BY <1>6, <1>7, <1>8

\* The node that has taken the place splits what is below it.
LEMMA MovedSplits ==
  ASSUME NEW a, NEW b, NEW A, NEW D, NEW h, Avl(a, b, A, D, h), NEW q, NEW k, NEW l, NEW r, NEW s,
         NEW y, NEW z, NEW g, NEW a2, Moves(a, A, D, q, k, l, r, s, y, z, g, a2),
         NEW D2, D2 = MoveBelow(D, k, s)
  PROVE  Splits(a2, D2, s)
  <1>1. MovedKids(a, A, D, q, k, l, r, s, y, z, g, a2)
    BY MovesKids
  <1>2. MovedNodes(A, D, k, l, r, s, y)
    BY MovesBelow
  <1>4. /\ k \in A /\ s \in A /\ a[q] = k /\ A \in SUBSET Pointers /\ Nil \in Pointers /\ r \in A
        /\ \A x \in D[r] : x = s \/ s < x
    <2>1. k \in A /\ s \in A /\ a[q] = k /\ r \in A /\ \A x \in D[r] : x = s \/ s < x
      BY DEF Moves
    <2>2. Shape(a, A, D)
      BY DEF Avl
    <2> QED
      BY <2>1, <2>2, LiveFacts DEF Pointers
  <1>5. /\ D2[s] = D[k] \ {k}
        /\ \A j \in Pointers : j # s => D2[j] = IF k \in D[j] THEN D[j] \ {k} ELSE D[j] \ {s}
    <2>1. s \in Pointers
      BY <1>4
    <2> QED
      BY <2>1 DEF MoveBelow
  <1>6. PICK c : c = a2[<<s, "right">>]
    OBVIOUS
  <1>7. /\ k # s /\ k \notin D[r] /\ k \notin D[l] /\ k \notin D[y] /\ s \notin D[l] /\ s \notin D[y]
        /\ l # s /\ y # s /\ D[k] = {k} \cup D[l] \cup D[r] /\ D[s] = {s} \cup D[y] /\ k < s
        /\ (\A x \in D[l] : x < k) /\ l \in Pointers /\ y \in Pointers
        /\ k \in Nat /\ s \in Nat /\ D[k] \in SUBSET Nat
    BY <1>2, <1>4 DEF MovedNodes
  <1>8. a2[<<s, "left">>] = l /\ (r = s => c = y) /\ (r # s => c = r)
    BY <1>1, <1>6 DEF MovedKids
  <1>9. D2[l] = D[l]
    BY <1>5, <1>7
  <1>10. D2[c] = D[r] \ {s}
    <2>1. CASE r = s
      BY <1>5, <1>7, <1>8, <2>1
    <2>2. CASE r # s
      BY <1>4, <1>5, <1>7, <1>8, <2>2
    <2> QED
      BY <2>1, <2>2
  <1>11. s \in D[r]
    BY DEF Moves
  <1>12. D2[s] = {s} \cup D2[l] \cup D2[c]
    BY <1>5, <1>7, <1>9, <1>10, <1>11
  <1>13. (\A x \in D2[l] : Before("left", x, s)) /\ (\A x \in D2[c] : Before("right", x, s))
    <2>1. \A x \in D[l] : x \in Nat
      BY <1>7
    <2>2. \A x \in D[l] : x < s
      BY <1>7, <2>1
    <2> QED
      BY <1>4, <1>9, <1>10, <2>2 DEF Before
  <1>14. Sides = {"left", "right"} /\ Opposite("left") = "right" /\ Opposite("right") = "left"
    BY DEF Sides, Opposite
  <1> QED
    BY <1>6, <1>8, <1>12, <1>13, <1>14 DEF Splits

\* The other nodes split what is below them.
LEMMA OthersSplit ==
  ASSUME NEW a, NEW b, NEW A, NEW D, NEW h, Avl(a, b, A, D, h), NEW q, NEW k, NEW l, NEW r, NEW s,
         NEW y, NEW z, NEW g, NEW a2, Moves(a, A, D, q, k, l, r, s, y, z, g, a2),
         NEW D2, D2 = MoveBelow(D, k, s), NEW j \in A, j # k, j # s
  PROVE  Splits(a2, D2, j)
  <1>0. Shape(a, A, D) /\ k \in A /\ s \in A /\ A \in SUBSET Pointers /\ Nil \notin A /\ D[Nil] = {}
    <2>1. Shape(a, A, D) /\ k \in A /\ s \in A
      BY DEF Avl, Moves
    <2> QED
      BY <2>1, LiveFacts DEF Shape
  <1>1. s \in D[k]
    <2>1. MovedNodes(A, D, k, l, r, s, y)
      BY MovesBelow
    <2> QED
      BY <2>1 DEF MovedNodes
  <1>2. ASSUME NEW e \in Sides
        PROVE  D2[a2[<<j, e>>]] = IF k \in D[a[<<j, e>>]] THEN D[a[<<j, e>>]] \ {k}
                                  ELSE D[a[<<j, e>>]] \ {s}
    <2>1. PICK p : p = <<j, e>>
      OBVIOUS
    <2>2. p \in Live(A \ {k}) /\ p # <<s, "left">> /\ p # <<s, "right">>
      BY <2>1 DEF Live
    <2>3. Under(a, D, a2, D2, k, s, p)
      BY <2>2, MovedUnder
    <2> QED
      BY <2>1, <2>3 DEF Under
  <1>3. D2[j] = IF k \in D[j] THEN D[j] \ {k} ELSE D[j] \ {s}
    BY <1>0 DEF MoveBelow
  <1>4. ASSUME NEW e \in Sides
        PROVE  /\ D2[j] = {j} \cup D2[a2[<<j, e>>]] \cup D2[a2[<<j, Opposite(e)>>]]
               /\ \A x \in D2[a2[<<j, e>>]] : Before(e, x, j)
    <2>1. PICK c, o : c = a[<<j, e>>] /\ o = a[<<j, Opposite(e)>>]
      OBVIOUS
    <2>2. D[j] = {j} \cup D[c] \cup D[o] /\ (\A x \in D[c] : x \notin D[o] /\ Before(e, x, j))
          /\ (c # Nil => c \in A)
      BY ONLY <1>0, <2>1, ChildFacts, j \in A, e \in Sides
    <2>3. Opposite(e) \in Sides /\ Opposite(Opposite(e)) = e
      BY SidesFacts
    <2>4. o # Nil => o \in A
      <3>1. c = a[<<j, Opposite(Opposite(e))>>] /\ o = a[<<j, Opposite(e)>>]
        BY <2>1, <2>3
      <3> QED
        BY ONLY <1>0, <2>3, <3>1, ChildFacts, j \in A
    <2>5. ASSUME NEW x \in {c, o}, k \in D[x]
          PROVE  s \in D[x]
      <3>1. x \in A
        BY <1>0, <2>2, <2>4, <2>5
      <3>2. D[k] \in SUBSET D[x]
        <4>1. k \in A /\ D[k] \in SUBSET D[x] /\ h[k] <= h[x]
          BY ONLY <2>5, <3>1, BelowBelow, Avl(a, b, A, D, h)
        <4> QED
          BY <4>1
      <3> QED
        BY <1>1, <3>2
    <2>6. /\ D2[a2[<<j, e>>]] = IF k \in D[c] THEN D[c] \ {k} ELSE D[c] \ {s}
          /\ D2[a2[<<j, Opposite(e)>>]] = IF k \in D[o] THEN D[o] \ {k} ELSE D[o] \ {s}
      BY <1>2, <2>1, <2>3
    <2>7. PICK U, V : U = D2[a2[<<j, e>>]] /\ V = D2[a2[<<j, Opposite(e)>>]]
      OBVIOUS
    <2>8. /\ U = IF k \in D[c] THEN D[c] \ {k} ELSE D[c] \ {s}
          /\ V = IF k \in D[o] THEN D[o] \ {k} ELSE D[o] \ {s}
      BY <2>6, <2>7
    <2>9. D2[j] = {j} \cup U \cup V
      <3>1. CASE k \in D[c]
        BY <1>3, <2>2, <2>5, <2>8, <3>1
      <3>2. CASE k \in D[o]
        BY <1>3, <2>2, <2>5, <2>8, <3>2
      <3>3. CASE k \notin D[c] /\ k \notin D[o]
        BY <1>3, <2>2, <2>8, <3>3
      <3> QED
        BY <3>1, <3>2, <3>3
    <2>10. \A x \in U : Before(e, x, j)
      BY <2>2, <2>8
    <2> QED
      BY <2>7, <2>9, <2>10
  <1> QED
    BY <1>4 DEF Splits

\* After a move the tree is a search tree.
LEMMA MovedShape ==
  ASSUME NEW a, NEW b, NEW A, NEW D, NEW h, Avl(a, b, A, D, h), NEW q, NEW k, NEW l, NEW r, NEW s,
         NEW y, NEW z, NEW g, NEW a2, Moves(a, A, D, q, k, l, r, s, y, z, g, a2),
         NEW D2, D2 = MoveBelow(D, k, s)
  PROVE  Shape(a2, A \ {k}, D2)
  <1>0. Shape(a, A, D) /\ k \in A /\ s \in A /\ A \in SUBSET Pointers /\ Nil \notin A /\ A \in SUBSET Keys
        /\ Nil \in Pointers
    <2>1. Shape(a, A, D) /\ k \in A /\ s \in A
      BY DEF Avl, Moves
    <2> QED
      BY <2>1, LiveFacts DEF Pointers
  <1>1. D \in [Pointers -> SUBSET Keys] /\ D[Nil] = {} /\ D[a[RootPlace]] = A
    BY <1>0 DEF Shape
  <1>2. D2 \in [Pointers -> SUBSET Keys] /\ D2[Nil] = {}
    <2>1. k \in Pointers /\ Nil # s
      BY <1>0
    <2> QED
      BY <1>0, <1>1, <2>1 DEF MoveBelow
  <1>3. D2[a2[RootPlace]] = A \ {k}
    <2>1. RootPlace \in Live(A \ {k}) /\ RootPlace # <<s, "left">> /\ RootPlace # <<s, "right">>
      BY <1>0, PlacesFacts DEF Live, Sides
    <2>2. PICK p : p = RootPlace
      OBVIOUS
    <2>3. Under(a, D, a2, D2, k, s, p)
      BY <2>1, <2>2, MovedUnder
    <2> QED
      BY <1>0, <1>1, <2>2, <2>3 DEF Under
  <1>4. Single(a2, A \ {k}) /\ \A p \in Live(A \ {k}) : a2[p] \in (A \ {k}) \cup {Nil}
    BY MovedSingle
  <1>5. \A j \in A \ {k} : Splits(a2, D2, j)
    BY MovedSplits, OthersSplit
  <1>6. a2 \in [Places -> Pointers]
    BY DEF Moves
  <1>7. A \ {k} \in SUBSET Keys
    BY <1>0
  <1> QED
    BY <1>2, <1>3, <1>4, <1>5, <1>6, <1>7 DEF Shape

\* The successor takes over the balance, and with it the height, of the node.
TakesOver(b, h, A, k, s, b2, h2) ==
    /\ b2 \in [Keys -> Int] /\ b2[s] = b[k] /\ \A j \in A \ {s} : b2[j] = b[j]
    /\ h2 \in [Pointers -> Nat] /\ h2[s] = h[k] /\ h2[Nil] = h[Nil] /\ \A j \in A \ {s} : h2[j] = h[j]

\* What is stored in p is as high as before.
AsHigh(a, h, a2, h2, p) == h2[a2[p]] = h[a[p]]

\* Under a place that is not z everything is as high as before.
LEMMA MovedHeight ==
  ASSUME NEW a, NEW b, NEW A, NEW D, NEW h, Avl(a, b, A, D, h), NEW q, NEW k, NEW l, NEW r, NEW s,
         NEW y, NEW z, NEW g, NEW a2, Moves(a, A, D, q, k, l, r, s, y, z, g, a2),
         NEW b2, NEW h2, TakesOver(b, h, A, k, s, b2, h2),
         NEW p \in Live(A \ {k}), p # <<s, "left">>, p # <<s, "right">>, p # z
  PROVE  AsHigh(a, h, a2, h2, p)
  <1>1. MovedKids(a, A, D, q, k, l, r, s, y, z, g, a2)
    BY MovesKids
  <1>2. a[q] = k
    BY DEF Moves
  <1>3. CASE p = q
    BY <1>1, <1>2, <1>3 DEF MovedKids, TakesOver, AsHigh
  <1>4. CASE p # q
    <2>1. a2[p] = a[p] /\ a[p] # s
      BY <1>1, <1>4 DEF MovedKids
    <2>2. a[p] \in A \cup {Nil}
      <3>1. p \in Live(A)
        BY DEF Live
      <3> QED
        BY <3>1 DEF Avl, Shape
    <2> QED
      BY <2>1, <2>2 DEF TakesOver, AsHigh
  <1> QED
    BY <1>3, <1>4

\* All nodes that do not own z are level.
LEMMA MovedLevel ==
  ASSUME NEW a, NEW b, NEW A, NEW D, NEW h, Avl(a, b, A, D, h), NEW q, NEW k, NEW l, NEW r, NEW s,
         NEW y, NEW z, NEW g, NEW a2, Moves(a, A, D, q, k, l, r, s, y, z, g, a2),
         NEW b2, NEW h2, TakesOver(b, h, A, k, s, b2, h2),
         NEW j \in A, j # k, \A e \in Sides : z # <<j, e>>
  PROVE  Leveled(a2, b2, h2, j)
  <1>0. "left" \in Sides /\ "right" \in Sides /\ Opposite("left") = "right" /\ Opposite("right") = "left"
        /\ Sides = {"left", "right"}
    BY DEF Sides, Opposite
  <1>1. Leveled(a, b, h, j) /\ Leveled(a, b, h, k) /\ k \in A
    BY DEF Avl, Moves
  <1>2. CASE j = s
    <2>1. MovedKids(a, A, D, q, k, l, r, s, y, z, g, a2)
      BY MovesKids
    <2>2. r # s /\ a2[<<s, "left">>] = l /\ a2[<<s, "right">>] = r
      BY <1>0, <1>2, <2>1 DEF MovedKids
    <2>3. MovedNodes(A, D, k, l, r, s, y)
      BY MovesBelow
    <2>4. l # s /\ l \in A \cup {Nil} /\ r \in A /\ l = a[<<k, "left">>] /\ r = a[<<k, "right">>]
      BY <2>3 DEF MovedNodes, Moves
    <2>5. h2[s] = h[k] /\ h2[l] = h[l] /\ h2[r] = h[r] /\ b2[s] = b[k]
      BY <2>2, <2>4 DEF TakesOver
    <2> QED
      BY <1>0, <1>1, <1>2, <2>2, <2>4, <2>5 DEF Leveled
  <1>3. CASE j # s
    <2>1. ASSUME NEW e \in Sides
          PROVE  h2[a2[<<j, e>>]] = h[a[<<j, e>>]]
      <3>1. PICK p : p = <<j, e>>
        OBVIOUS
      <3>2. p \in Live(A \ {k}) /\ p # <<s, "left">> /\ p # <<s, "right">> /\ p # z
        BY <1>3, <3>1 DEF Live
      <3>3. AsHigh(a, h, a2, h2, p)
        BY <3>2, MovedHeight
      <3> QED
        BY <3>1, <3>3 DEF AsHigh
    <2>2. h2[j] = h[j] /\ b2[j] = b[j]
      BY <1>3 DEF TakesOver
    <2>3. \A e \in Sides : Opposite(e) \in Sides
      BY SidesFacts
    <2> QED
      BY <1>1, <2>1, <2>2, <2>3 DEF Leveled
  <1> QED
    BY <1>2, <1>3

\* Under z the tree is lower by one than what the balance of its owner says.
LEMMA MovedPending ==
  ASSUME NEW a, NEW b, NEW A, NEW D, NEW h, Avl(a, b, A, D, h), NEW q, NEW k, NEW l, NEW r, NEW s,
         NEW y, NEW z, NEW g, NEW a2, Moves(a, A, D, q, k, l, r, s, y, z, g, a2),
         NEW b2, NEW h2, TakesOver(b, h, A, k, s, b2, h2),
         NEW D2, D2 = MoveBelow(D, k, s), NEW n \in A, n # k, NEW e \in Sides, z = <<n, e>>,
         NEW p \in Live(A \ {k}), a2[p] = n, NEW f, f = a2[<<n, Opposite(e)>>]
  PROVE  Pending(a2, b2, A \ {k}, D2, h2, p, e, -1, n, y, f)
  <1>0. "left" \in Sides /\ "right" \in Sides /\ Opposite("left") = "right" /\ Opposite("right") = "left"
        /\ Sides = {"left", "right"} /\ Opposite(e) \in Sides /\ Opposite(e) # e
    BY DEF Sides, Opposite
  <1>1. Shape(a2, A \ {k}, D2)
    BY MovedShape
  <1>2. MovedKids(a, A, D, q, k, l, r, s, y, z, g, a2)
    BY MovesKids
  <1>3. MovedNodes(A, D, k, l, r, s, y)
    BY MovesBelow
  <1>4. MovedPlaces(a, A, q, k, s, z, g)
    BY MovesPlaces
  <1>5. /\ k \in A /\ s \in A /\ Heights(b, h) /\ y = a[<<s, "right">>] /\ a[<<s, "left">>] = Nil
        /\ l = a[<<k, "left">>] /\ r = a[<<k, "right">>]
        /\ \A j \in A : Leveled(a, b, h, j)
    BY DEF Avl, Moves
  <1>6. Heights(b2, h2)
    BY <1>5 DEF Heights, TakesOver
  <1>7. \A j \in (A \ {k}) \ {n} : Leveled(a2, b2, h2, j)
    <2> SUFFICES ASSUME NEW j \in A, j # k, j # n
                 PROVE  Leveled(a2, b2, h2, j)
      OBVIOUS
    <2>1. \A e1 \in Sides : z # <<j, e1>>
      OBVIOUS
    <2> QED
      BY <2>1, MovedLevel
  <1>8. h2[y] = h[y] /\ h[y] \in Nat /\ h[s] \in Nat /\ h[s] = h[y] + 1
    <2>1. y # s /\ y \in A \cup {Nil}
      BY <1>3 DEF MovedNodes
    <2>2. s \in Pointers /\ y \in Pointers
      BY <1>5, <2>1, LiveFacts DEF Avl, Pointers
    <2>3. h[s] = 1 + Higher(h[y], h[Nil]) /\ h[Nil] = 0 /\ h[y] \in Nat /\ h[s] \in Nat
      BY <1>0, <1>5, <2>2 DEF Leveled, Heights
    <2> QED
      BY <2>1, <2>3 DEF TakesOver, Higher
  <1>9. /\ h2[n] = 1 + Higher(h[s], h2[f]) /\ b2[n] = Lean(e, h[s], h2[f]) /\ b2[n] \in -1 .. 1
    <2>1. CASE r = s
      <3>1. n = s /\ e = "right" /\ f = l
        BY <1>0, <1>2, <2>1 DEF MovedKids
      <3>2. h2[n] = h[k] /\ b2[n] = b[k] /\ h2[l] = h[l]
        <4>1. l # s /\ l \in A \cup {Nil}
          BY <1>3 DEF MovedNodes
        <4> QED
          BY <3>1, <4>1 DEF TakesOver
      <3>3. /\ h[k] = 1 + Higher(h[r], h[l]) /\ b[k] = Lean("right", h[r], h[l]) /\ b[k] \in -1 .. 1
        BY <1>0, <1>5 DEF Leveled
      <3> QED
        BY <2>1, <3>1, <3>2, <3>3
    <2>2. CASE r # s
      <3>1. g = z /\ z # <<s, "right">> /\ a[z] = s /\ z # <<s, "left">> /\ q # z
        BY <1>2, <1>4, <2>2 DEF MovedKids, MovedPlaces
      <3>2. n # s
        BY <1>0, <3>1
      <3>3. PICK x : x = <<n, Opposite(e)>>
        OBVIOUS
      <3>4. x \in Live(A \ {k}) /\ x # <<s, "left">> /\ x # <<s, "right">> /\ x # z
        BY <1>0, <3>2, <3>3 DEF Live
      <3>5. h2[f] = h[a[<<n, Opposite(e)>>]]
        <4>1. AsHigh(a, h, a2, h2, x)
          BY <3>4, MovedHeight
        <4> QED
          BY <3>3, <4>1 DEF AsHigh
      <3>6. /\ h[n] = 1 + Higher(h[s], h[a[<<n, Opposite(e)>>]])
            /\ b[n] = Lean(e, h[s], h[a[<<n, Opposite(e)>>]]) /\ b[n] \in -1 .. 1
        BY <1>5, <3>1 DEF Leveled
      <3>7. h2[n] = h[n] /\ b2[n] = b[n]
        BY <3>2 DEF TakesOver
      <3> QED
        BY <3>5, <3>6, <3>7
    <2> QED
      BY <2>1, <2>2
  <1>10. h2[y] - (-1) = h[s]
    BY <1>8
  <1>11. y = a2[<<n, e>>]
    BY <1>2 DEF MovedKids
  <1>12. /\ h2[n] = 1 + Higher(h2[y] - (-1), h2[f])
         /\ b2[n] = Lean(e, h2[y] - (-1), h2[f]) /\ b2[n] \in -1 .. 1
    BY <1>9, <1>10
  <1>13. n \in A \ {k}
    OBVIOUS
  <1> QED
    BY <1>1, <1>6, <1>7, <1>11, <1>12, <1>13 DEF Pending

\* The tree that TakeOut leaves when the node at q has a child on the right, from which
\* the chain leads down on the left to the successor s.
Hangs(a, A, D, q, k, l, r, chain, s, y, z, g, a2) ==
    /\ q \in Live(A) /\ k \in A /\ k = a[q] /\ l = a[<<k, "left">>] /\ r = a[<<k, "right">>]
    /\ r \in A /\ Chain(a, A, D, "left", r, chain) /\ s = chain[Len(chain)] /\ y = a[<<s, "right">>]
    /\ IF Len(chain) = 1 THEN z = <<s, "right">> /\ g = <<k, "right">>
       ELSE z = <<chain[Len(chain) - 1], "left">> /\ g = z /\ a2[<<s, "right">>] = r
    /\ a2 \in [Places -> Pointers] /\ a2[q] = s /\ a2[<<s, "left">>] = l /\ a2[z] = y
    /\ \A p \in Places : p \notin {q, <<s, "left">>, <<s, "right">>, z} => a2[p] = a[p]

\* The nodes of a chain down on the left of r.
Links(a, A, D, r, chain, s) ==
    /\ Len(chain) \in Nat /\ Len(chain) >= 1 /\ chain[1] = r /\ s = chain[Len(chain)]
    /\ s \in A /\ s \in D[r] /\ a[<<s, "left">>] = Nil /\ \A x \in D[r] : x = s \/ s < x
    /\ \A i \in 1 .. Len(chain) - 1 : /\ chain[i] \in A /\ chain[i] \in D[r] /\ chain[i] # s
                                      /\ a[<<chain[i], "left">>] = chain[i + 1]

\* The links of the chain that Down finds: only the last node has no child on the left.
LEMMA ChainLinks ==
  ASSUME NEW a, NEW A, NEW D, Shape(a, A, D), NEW r \in A, NEW chain, Chain(a, A, D, "left", r, chain),
         NEW s, s = chain[Len(chain)]
  PROVE  Links(a, A, D, r, chain, s)
  <1>0. Nil \notin A
    BY LiveFacts
  <1>1. Len(chain) \in Nat /\ Len(chain) >= 1 /\ chain[1] = r
    BY DEF Chain
  <1>2. /\ Len(chain) \in 1 .. Len(chain)
        /\ \A i \in 1 .. Len(chain) - 1 : i \in 1 .. Len(chain) /\ i + 1 \in 1 .. Len(chain)
    BY ONLY <1>1
  <1>3. s \in A /\ s \in D[r] /\ a[<<s, "left">>] = Nil /\ \A x \in D[r] : x = s \/ s < x
    <2>1. Opposite("left") = "right"
      BY DEF Opposite
    <2> QED
      BY <1>2, <2>1 DEF Chain, Before
  <1>4. ASSUME NEW i \in 1 .. Len(chain) - 1
        PROVE  /\ chain[i] \in A /\ chain[i] \in D[r] /\ chain[i] # s
               /\ a[<<chain[i], "left">>] = chain[i + 1]
    <2>1. chain[i] \in A /\ chain[i] \in D[r] /\ chain[i + 1] \in A
      BY <1>2 DEF Chain
    <2>2. a[<<chain[i], "left">>] = chain[i + 1]
      BY DEF Chain
    <2> QED
      BY <1>0, <1>3, <2>1, <2>2
  <1> QED
    BY <1>1, <1>3, <1>4 DEF Links

\* What TakeOut leaves is a move of the successor into the place of the removed node.
LEMMA HangsMoves ==
  ASSUME NEW a, NEW A, NEW D, Shape(a, A, D), NEW q, NEW k, NEW l, NEW r, NEW chain, NEW s,
         NEW y, NEW z, NEW g, NEW a2, Hangs(a, A, D, q, k, l, r, chain, s, y, z, g, a2)
  PROVE  Moves(a, A, D, q, k, l, r, s, y, z, g, a2)
  <1>0. r \in A /\ Chain(a, A, D, "left", r, chain) /\ s = chain[Len(chain)]
    BY DEF Hangs
  <1>1. Links(a, A, D, r, chain, s)
    BY <1>0, ChainLinks
  <1>2. /\ q \in Live(A) /\ k \in A /\ k = a[q] /\ l = a[<<k, "left">>] /\ r = a[<<k, "right">>]
        /\ y = a[<<s, "right">>]
        /\ a2 \in [Places -> Pointers] /\ a2[q] = s /\ a2[<<s, "left">>] = l /\ a2[z] = y
        /\ \A p \in Places : p \notin {q, <<s, "left">>, <<s, "right">>, z} => a2[p] = a[p]
    BY DEF Hangs
  <1>3. s \in A /\ s \in D[r] /\ a[<<s, "left">>] = Nil /\ \A x \in D[r] : x = s \/ s < x
    BY <1>1 DEF Links
  <1>4. \/ r = s /\ z = <<s, "right">> /\ g = <<k, "right">>
        \/ /\ r # s /\ g = z /\ a[g] = s /\ a2[<<s, "right">>] = r
           /\ \E m \in A : m # s /\ m \in D[r] /\ z = <<m, "left">>
    <2>1. CASE Len(chain) = 1
      <3>1. r = s
        BY <1>1, <2>1 DEF Links
      <3> QED
        BY <2>1, <3>1 DEF Hangs
    <2>2. CASE Len(chain) # 1
      <3>1. PICK i : i = Len(chain) - 1
        OBVIOUS
      <3>2. i \in 1 .. Len(chain) - 1 /\ 1 \in 1 .. Len(chain) - 1 /\ i + 1 = Len(chain)
        BY <1>1, <2>2, <3>1 DEF Links
      <3>3. chain[i] \in A /\ chain[i] \in D[r] /\ chain[i] # s /\ a[<<chain[i], "left">>] = s /\ r # s
        BY <1>1, <3>2 DEF Links
      <3>4. z = <<chain[i], "left">> /\ g = z /\ a2[<<s, "right">>] = r
        BY <2>2, <3>1 DEF Hangs
      <3> QED
        BY <3>3, <3>4
    <2> QED
      BY <2>1, <2>2
  <1> QED
    BY <1>0, <1>2, <1>3, <1>4 DEF Moves

\* A stack that begins where another ends.
Joins(a, A, st, rest) ==
    /\ Way(a, A, st, Len(st)) /\ rest \in Seq(StackNode) /\ Len(rest) >= 1
    /\ \A x \in 1 .. Len(rest) : rest[x].place \in Live(A) /\ a[rest[x].place] \in A
    /\ \A x \in 2 .. Len(rest) : rest[x].place = <<a[rest[x - 1].place], SideOf(rest[x - 1].dir)>>
    /\ rest[1].place = IF Len(st) = 0 THEN RootPlace
                       ELSE <<a[st[Len(st)].place], SideOf(st[Len(st)].dir)>>

\* The two stacks as one.
Joined(a, A, rest, both) ==
    Way(a, A, both, Len(both)) /\ Len(both) > 0 /\ both[Len(both)] = rest[Len(rest)]

\* A stack and one that begins where it ends lead together down the tree.
LEMMA WayJoin ==
  ASSUME NEW a, NEW A, NEW st, NEW rest, Joins(a, A, st, rest), NEW both, both = st \o rest
  PROVE  Joined(a, A, rest, both)
  <1>1. st \in Seq(StackNode) /\ rest \in Seq(StackNode) /\ Len(rest) >= 1
    BY DEF Joins, Way
  <1>2. PICK n \in Nat, m \in Nat : n = Len(st) /\ m = Len(rest)
    BY <1>1
  <1>3. both \in Seq(StackNode) /\ Len(both) = n + m /\ m >= 1
    BY <1>1, <1>2
  <1>4. \A x \in 1 .. n : both[x] = st[x]
    BY <1>1, <1>2
  <1>5. \A x \in 1 .. m : both[n + x] = rest[x]
    BY <1>1, <1>2
  <1>6. both[n + m] = rest[m]
    BY <1>3, <1>5
  <1>7. /\ \A x \in 1 .. n : st[x].place \in Live(A) /\ a[st[x].place] \in A
        /\ \A x \in 1 .. n : st[x].place = IF x = 1 THEN RootPlace
                                           ELSE <<a[st[x - 1].place], SideOf(st[x - 1].dir)>>
    BY <1>2 DEF Joins, Way
  <1>8. /\ \A x \in 1 .. m : rest[x].place \in Live(A) /\ a[rest[x].place] \in A
        /\ \A x \in 2 .. m : rest[x].place = <<a[rest[x - 1].place], SideOf(rest[x - 1].dir)>>
        /\ rest[1].place = IF n = 0 THEN RootPlace ELSE <<a[st[n].place], SideOf(st[n].dir)>>
    BY <1>2 DEF Joins
  <1>0. n \in Nat /\ m \in Nat
    OBVIOUS
  <1>9. ASSUME NEW x \in 1 .. n + m
        PROVE  /\ both[x].place \in Live(A) /\ a[both[x].place] \in A
               /\ both[x].place = IF x = 1 THEN RootPlace
                                  ELSE <<a[both[x - 1].place], SideOf(both[x - 1].dir)>>
    <2>1. CASE x <= n
      <3>1. x \in 1 .. n /\ both[x] = st[x]
        BY ONLY <1>0, <1>4, <2>1, x \in 1 .. n + m
      <3>2. CASE x = 1
        BY ONLY <1>0, <1>7, <3>1, <3>2, x \in 1 .. n + m
      <3>3. CASE x # 1
        <4>1. PICK u : u = x - 1
          OBVIOUS
        <4>2. u \in 1 .. n /\ both[u] = st[u]
          BY ONLY <1>0, <1>4, <3>1, <3>3, <4>1, x \in 1 .. n + m
        <4> QED
          BY ONLY <1>0, <1>7, <3>1, <3>3, <4>1, <4>2, x \in 1 .. n + m
      <3> QED
        BY <3>2, <3>3
    <2>2. CASE x > n
      <3>1. PICK u : u = x - n
        OBVIOUS
      <3>2. u \in 1 .. m /\ x = n + u /\ both[x] = rest[u]
        BY ONLY <1>0, <1>5, <2>2, <3>1, x \in 1 .. n + m
      <3>3. CASE u = 1
        <4>1. CASE n = 0
          BY ONLY <1>0, <1>8, <3>2, <3>3, <4>1, x \in 1 .. n + m
        <4>2. CASE n # 0
          <5>1. x # 1 /\ x - 1 = n /\ both[n] = st[n]
            BY ONLY <1>0, <1>4, <3>2, <3>3, <4>2, x \in 1 .. n + m
          <5> QED
            BY ONLY <1>0, <1>8, <3>2, <3>3, <4>2, <5>1, x \in 1 .. n + m
        <4> QED
          BY <4>1, <4>2
      <3>4. CASE u # 1
        <4>1. PICK d : d = u - 1
          OBVIOUS
        <4>2. d \in 1 .. m /\ u \in 2 .. m /\ x - 1 = n + d /\ x # 1 /\ both[n + d] = rest[d]
          BY ONLY <1>0, <1>5, <3>2, <3>4, <4>1, x \in 1 .. n + m
        <4> QED
          BY ONLY <1>0, <1>8, <3>2, <4>1, <4>2, x \in 1 .. n + m
      <3> QED
        BY <3>3, <3>4
    <2>3. x <= n \/ x > n
      BY ONLY <1>0, x \in 1 .. n + m
    <2> QED
      BY ONLY <2>1, <2>2, <2>3
  <1>10. Len(both) \in 0 .. Len(both) /\ Len(both) > 0
    BY <1>3
  <1>11. both[Len(both)] = rest[Len(rest)]
    BY <1>2, <1>3, <1>6
  <1> QED
    BY <1>3, <1>9, <1>10, <1>11 DEF Way, Joined

\* The places below the removed node that TakeOut adds to the stack.
RestOf(chain, s, q, rest) ==
    /\ rest \in Seq(StackNode) /\ Len(rest) = Len(chain)
    /\ rest[1].place = q /\ rest[1].dir = 1
    /\ \A i \in 2 .. Len(rest) : /\ rest[i].dir = -1
                                 /\ rest[i].place = IF i = 2 THEN <<s, "right">>
                                                    ELSE <<chain[i - 2], "left">>

\* What they store in the tree that TakeOut leaves.
RestStores(A2, chain, s, rest, a2) ==
    \A x \in 1 .. Len(rest) : /\ rest[x].place \in Live(A2)
                              /\ a2[rest[x].place] = IF x = 1 THEN s ELSE chain[x - 1]
                              /\ a2[rest[x].place] \in A2

\* The places that TakeOut adds to the stack store the successor and the nodes of the chain.
LEMMA RestKids ==
  ASSUME NEW a, NEW b, NEW A, NEW D, NEW h, Avl(a, b, A, D, h), NEW q, NEW k, NEW l, NEW r, NEW chain,
         NEW s, NEW y, NEW z, NEW g, NEW a2, Hangs(a, A, D, q, k, l, r, chain, s, y, z, g, a2),
         NEW rest, RestOf(chain, s, q, rest)
  PROVE  RestStores(A \ {k}, chain, s, rest, a2)
  <1>0. "left" \in Sides /\ "right" \in Sides
    BY DEF Sides
  <1>1. Shape(a, A, D)
    BY DEF Avl
  <1>2. r \in A /\ Chain(a, A, D, "left", r, chain) /\ s = chain[Len(chain)] /\ q \in Live(A)
        /\ k \in A /\ k = a[q]
    BY DEF Hangs
  <1>3. Links(a, A, D, r, chain, s)
    BY <1>1, <1>2, ChainLinks
  <1>4. Moves(a, A, D, q, k, l, r, s, y, z, g, a2)
    BY <1>1, HangsMoves
  <1>5. MovedPlaces(a, A, q, k, s, z, g)
    BY <1>4, MovesPlaces
  <1>6. MovedNodes(A, D, k, l, r, s, y)
    BY <1>4, MovesBelow
  <1>7. /\ a2[q] = s /\ (Len(chain) # 1 => a2[<<s, "right">>] = r /\ g = z)
        /\ \A p \in Places : p \notin {q, <<s, "left">>, <<s, "right">>, z} => a2[p] = a[p]
    BY DEF Hangs
  <1>8. k # s /\ k \notin D[r] /\ D[r] \in SUBSET D[k] /\ s \in A
    BY <1>3, <1>6 DEF MovedNodes, Links
  <1>9. q \in Live(A \ {k}) /\ a[g] = s
    BY <1>2, <1>5 DEF MovedPlaces, Live
  <1>10. ASSUME NEW i \in 1 .. Len(chain) - 1
         PROVE  chain[i] \in A \ {k} /\ chain[i] # s /\ \A e \in Sides : <<chain[i], e>> # q
    <2>1. PICK j : j = chain[i]
      OBVIOUS
    <2>2. j \in A /\ j \in D[k] /\ j # k /\ j # s
      BY <1>3, <1>8, <2>1 DEF Links
    <2>3. \A e \in Sides : <<j, e>> # q
      BY ONLY <1>1, <1>2, <2>2, OwnerOutside
    <2> QED
      BY <2>1, <2>2, <2>3
  <1>11. Len(rest) = Len(chain) /\ Len(chain) \in Nat
    BY <1>3 DEF RestOf, Links
  <1>12. ASSUME NEW x \in 1 .. Len(rest)
         PROVE  /\ rest[x].place \in Live(A \ {k})
                /\ a2[rest[x].place] = IF x = 1 THEN s ELSE chain[x - 1]
                /\ a2[rest[x].place] \in A \ {k}
    <2>1. CASE x = 1
      BY <1>7, <1>8, <1>9, <2>1 DEF RestOf
    <2>2. CASE x = 2
      <3>0. Len(chain) # 1 /\ 1 \in 1 .. Len(chain) - 1 /\ 2 \in 2 .. Len(rest)
        BY ONLY <1>11, <2>2, x \in 1 .. Len(rest)
      <3>1. rest[x].place = <<s, "right">>
        BY <2>2, <3>0 DEF RestOf
      <3>2. <<s, "right">> \in Live(A \ {k})
        BY <1>0, <1>8 DEF Live
      <3>3. chain[1] = r /\ chain[1] \in A \ {k}
        BY <1>3, <1>10, <3>0 DEF Links
      <3> QED
        BY <1>7, <2>2, <3>0, <3>1, <3>2, <3>3
    <2>3. CASE x # 1 /\ x # 2
      <3>1. PICK i : i = x - 2
        OBVIOUS
      <3>2. /\ i \in 1 .. Len(chain) - 1 /\ i + 1 \in 1 .. Len(chain) - 1 /\ x - 1 = i + 1
            /\ x \in 2 .. Len(rest) /\ Len(chain) # 1
        BY <1>11, <2>3, <3>1
      <3>3. PICK p : p = <<chain[i], "left">>
        OBVIOUS
      <3>4. rest[x].place = p
        BY <2>3, <3>1, <3>2, <3>3 DEF RestOf
      <3>5. a[p] = chain[i + 1] /\ chain[i + 1] # s /\ chain[i + 1] \in A \ {k}
        BY <1>3, <1>10, <3>2, <3>3 DEF Links
      <3>6. p # q /\ p # <<s, "left">> /\ p # <<s, "right">> /\ p # z
        BY <1>0, <1>7, <1>9, <1>10, <3>2, <3>3, <3>5
      <3>7. p \in Live(A \ {k}) /\ p \in Places
        <4>1. chain[i] \in A \ {k} /\ A \in SUBSET Keys
          BY <1>1, <1>10, <3>2 DEF Shape
        <4> QED
          BY <1>0, <3>3, <4>1, PlacesFacts DEF Live
      <3>8. a2[p] = chain[i + 1]
        BY <1>7, <3>5, <3>6, <3>7
      <3> QED
        BY <2>3, <3>2, <3>4, <3>5, <3>7, <3>8
    <2> QED
      BY <2>1, <2>2, <2>3
  <1> QED
    BY <1>12 DEF RestStores

\* The stack of the search goes on with the places that TakeOut adds.
LEMMA RestJoins ==
  ASSUME NEW t \in Trees, NEW a, a = Kids(t), NEW b, NEW A, NEW D, NEW h, Avl(a, b, A, D, h),
         NEW w, NEW k, Leads(a, A, D, k, RootPlace, w), NEW q, q = w[Len(w)],
         NEW l, NEW r, NEW chain, NEW s, NEW y, NEW z, NEW g, NEW a2,
         Hangs(a, A, D, q, k, l, r, chain, s, y, z, g, a2), NEW rest, RestOf(chain, s, q, rest),
         NEW st, st = Stack(t, w, k)
  PROVE  Joins(a2, A \ {k}, st, rest)
  <1>1. Shape(a, A, D)
    BY DEF Avl
  <1>2. /\ q \in Live(A) /\ k \in A /\ k = a[q]
        /\ \A p \in Places : p \notin {q, <<s, "left">>, <<s, "right">>, z} => a2[p] = a[p]
    BY DEF Hangs
  <1>3. Moves(a, A, D, q, k, l, r, s, y, z, g, a2)
    BY <1>1, HangsMoves
  <1>4. MovedNodes(A, D, k, l, r, s, y)
    BY <1>3, MovesBelow
  <1>5. Len(w) \in Nat /\ Len(w) >= 1 /\ w[1] = RootPlace
    BY DEF Leads
  <1>6. \A i \in 1 .. Len(w) - 1 :
           /\ a[w[i]] \in A /\ a[w[i]] \notin D[k] /\ w[i] # w[Len(w)]
           /\ \A j \in D[k], e \in Sides : w[i] # <<j, e>>
    <2>1. a[w[Len(w)]] = k
      BY <1>2
    <2> QED
      BY ONLY <1>1, <1>2, <2>1, LeadsOutside, Leads(a, A, D, k, RootPlace, w)
  <1>7. \E j \in D[k], e \in Sides : z = <<j, e>>
    <2>1. s \in D[k] /\ D[r] \in SUBSET D[k]
      BY <1>4 DEF MovedNodes
    <2> QED
      BY <1>3, <2>1 DEF Moves, Sides
  <1>8. s \in D[k] /\ k \in D[k] /\ "left" \in Sides /\ "right" \in Sides
    BY <1>4 DEF MovedNodes, Sides
  <1>9. \A i \in 1 .. Len(w) - 1 : w[i] \in Live(A \ {k}) /\ a2[w[i]] = a[w[i]] /\ a[w[i]] \in A \ {k}
    <2> SUFFICES ASSUME NEW i \in 1 .. Len(w) - 1
                 PROVE  w[i] \in Live(A \ {k}) /\ a2[w[i]] = a[w[i]] /\ a[w[i]] \in A \ {k}
      OBVIOUS
    <2>1. i \in 1 .. Len(w)
      BY <1>5
    <2>2. w[i] \in Live(A) /\ w[i] \in Places
      <3>1. w[i] \in Live(A)
        BY <2>1 DEF Leads
      <3> QED
        BY <1>1, <3>1, LiveFacts
    <2>3. w[i] \notin {q, <<s, "left">>, <<s, "right">>, z} /\ \A e \in Sides : w[i] # <<k, e>>
      BY <1>6, <1>7, <1>8
    <2>4. w[i] \in Live(A \ {k})
      BY <2>2, <2>3 DEF Live
    <2> QED
      BY <1>2, <1>6, <1>8, <2>2, <2>3, <2>4
  <1>10. Way(a2, A \ {k}, st, Len(st))
    <2>1. PICK A2 : A2 = A \ {k}
      OBVIOUS
    <2>2. \A i \in 1 .. Len(w) - 1 : w[i] \in Live(A2) /\ a2[w[i]] = a[w[i]] /\ a[w[i]] \in A2
      BY <1>9, <2>1
    <2>3. Way(a2, A2, st, Len(st))
      BY ONLY <1>1, <2>2, StackLeads, t \in Trees, a = Kids(t), Leads(a, A, D, k, RootPlace, w),
              st = Stack(t, w, k)
    <2> QED
      BY <2>1, <2>3
  <1>11. Stacked(a, w, k, st)
    BY ONLY <1>1, StackFits, t \in Trees, a = Kids(t), Leads(a, A, D, k, RootPlace, w),
            st = Stack(t, w, k)
  <1>12. rest[1].place = IF Len(st) = 0 THEN RootPlace
                         ELSE <<a2[st[Len(st)].place], SideOf(st[Len(st)].dir)>>
    <2>1. rest[1].place = w[Len(w)] /\ Len(st) = Len(w) - 1
      BY <1>11 DEF RestOf, Stacked
    <2>2. CASE Len(st) = 0
      <3>1. Len(w) = 1
        BY <1>5, <2>1, <2>2
      <3> QED
        BY <1>5, <2>1, <2>2, <3>1
    <2>3. CASE Len(st) # 0
      <3>1. PICK i : i = Len(st)
        OBVIOUS
      <3>2. i \in 1 .. Len(w) - 1 /\ Len(w) = i + 1
        BY <1>5, <2>1, <2>3, <3>1
      <3>3. w[i + 1] = <<a[w[i]], SideTo(k, a[w[i]])>>
        BY <3>2 DEF Leads
      <3>4. st[i].place = w[i] /\ SideOf(st[i].dir) = SideTo(k, a[w[i]])
        BY <1>11, <3>2 DEF Stacked
      <3> QED
        BY <1>9, <2>1, <2>3, <3>1, <3>2, <3>3, <3>4
    <2> QED
      BY <2>2, <2>3
  <1>13. RestStores(A \ {k}, chain, s, rest, a2)
    BY ONLY RestKids, Avl(a, b, A, D, h), Hangs(a, A, D, q, k, l, r, chain, s, y, z, g, a2),
            RestOf(chain, s, q, rest)
  <1>14. rest \in Seq(StackNode) /\ Len(rest) \in Nat /\ Len(rest) >= 1
    BY DEF RestOf, Hangs, Chain
  <1>15. ASSUME NEW x \in 2 .. Len(rest)
         PROVE  rest[x].place = <<a2[rest[x - 1].place], SideOf(rest[x - 1].dir)>>
    <2>1. SideOf(1) = "right" /\ SideOf(-1) = "left"
      BY DEF SideOf
    <2>2. CASE x = 2
      <3>1. a2[rest[1].place] = s
        BY <1>13, <1>14 DEF RestStores
      <3>2. rest[x].place = <<s, "right">> /\ rest[1].dir = 1
        BY <2>2 DEF RestOf
      <3>3. x - 1 = 1
        BY ONLY <2>2
      <3> QED
        BY <2>1, <3>1, <3>2, <3>3
    <2>3. CASE x # 2
      <3>1. PICK u : u = x - 1
        OBVIOUS
      <3>2. u \in 1 .. Len(rest) /\ u \in 2 .. Len(rest) /\ u # 1 /\ u - 1 = x - 2
        BY <1>14, <2>3, <3>1
      <3>3. a2[rest[u].place] = chain[u - 1]
        BY <1>13, <3>2 DEF RestStores
      <3>4. rest[x].place = <<chain[x - 2], "left">> /\ rest[u].dir = -1
        BY <2>3, <3>2 DEF RestOf
      <3> QED
        BY <2>1, <3>1, <3>2, <3>3, <3>4
    <2> QED
      BY <2>2, <2>3
  <1>16. \A x \in 1 .. Len(rest) : rest[x].place \in Live(A \ {k}) /\ a2[rest[x].place] \in A \ {k}
    BY <1>13 DEF RestStores
  <1> QED
    BY <1>10, <1>12, <1>14, <1>15, <1>16 DEF Joins

\* The successor takes over the removed node's child on the left and its balance, and if it is
\* further down its child on the right too.
LinkOne(t, s, l, b) == [t EXCEPT !.node[s].left = l, !.node[s].balance = b]

LinkFar(t, m, s, y, l, r, b) ==
    [t EXCEPT !.node[m].left = y, !.node[s].left = l, !.node[s].right = r, !.node[s].balance = b]

\* The changes of TakeOut in single steps, for a successor that is the child on the right.
LEMMA TakeOne ==
  ASSUME NEW t \in Trees, NEW s \in Keys, NEW l \in Pointers, NEW b \in Int
  PROVE  LinkOne(t, s, l, b) = SetBalance(Store(t, <<s, "left">>, l), s, b)
  <1>1. <<s, "left">> # RootPlace
    BY PlacesFacts DEF Sides
  <1>2. Store(t, <<s, "left">>, l) = [t EXCEPT !.node[s]["left"] = l]
    BY <1>1 DEF Store
  <1>3. SetBalance(Store(t, <<s, "left">>, l), s, b) = [[t EXCEPT !.node[s]["left"] = l] EXCEPT !.node[s].balance = b]
    BY <1>2 DEF SetBalance
  <1> QED
    BY <1>3 DEF LinkOne

\* The changes of TakeOut in single steps, for a successor further down.
LEMMA TakeTwo ==
  ASSUME NEW t \in Trees, NEW s \in Keys, NEW m \in Keys, NEW y \in Pointers,
         NEW r \in Pointers, NEW l \in Pointers, NEW b \in Int
  PROVE  LinkFar(t, m, s, y, l, r, b)
           = SetBalance(Store(Store(Store(t, <<m, "left">>, y), <<s, "left">>, l), <<s, "right">>, r), s, b)
  <1>1. <<s, "left">> # RootPlace /\ <<s, "right">> # RootPlace /\ <<m, "left">> # RootPlace
    BY PlacesFacts DEF Sides
  <1>2. \A u : Store(u, <<m, "left">>, y) = [u EXCEPT !.node[m]["left"] = y]
    BY <1>1 DEF Store
  <1>3. \A u : Store(u, <<s, "left">>, l) = [u EXCEPT !.node[s]["left"] = l]
    BY <1>1 DEF Store
  <1>4. \A u : Store(u, <<s, "right">>, r) = [u EXCEPT !.node[s]["right"] = r]
    BY <1>1 DEF Store
  <1>5. \A u : SetBalance(u, s, b) = [u EXCEPT !.node[s]["balance"] = b]
    BY DEF SetBalance
  <1>6. Store(Store(Store(t, <<m, "left">>, y), <<s, "left">>, l), <<s, "right">>, r)
          = [[[t EXCEPT !.node[m]["left"] = y] EXCEPT !.node[s]["left"] = l] EXCEPT !.node[s]["right"] = r]
    BY ONLY <1>2, <1>3, <1>4
  <1>7. SetBalance(Store(Store(Store(t, <<m, "left">>, y), <<s, "left">>, l), <<s, "right">>, r), s, b)
          = [[[[t EXCEPT !.node[m]["left"] = y] EXCEPT !.node[s]["left"] = l] EXCEPT !.node[s]["right"] = r]
              EXCEPT !.node[s]["balance"] = b]
    BY ONLY <1>5, <1>6
  <1> QED
    BY ONLY <1>7 DEF LinkFar

\* The rest of the stack begins where the search has ended, and only its last node waits.
LEMMA MovedWaits ==
  ASSUME NEW t, NEW A, NEW D, NEW h, Good(t, A, D, h), NEW k \in A,
         NEW w, w = Path(t, k), NEW q, q = w[Len(w)], NEW st, st = Stack(t, w, k),
         NEW l, NEW r, NEW chain, NEW s, NEW y, NEW z, NEW g, NEW v \in Trees,
         Hangs(Kids(t), A, D, q, k, l, r, chain, s, y, z, g, Kids(v)),
         Bals(v) = [Bals(t) EXCEPT ![s] = Bals(t)[k]],
         NEW rest, RestOf(chain, s, q, rest), NEW both, both = st \o rest
  PROVE  \E D2, h2 : Waiting(v, A \ {k}, D2, h2, both, Len(both), -1, TRUE)
  <1>0. PICK a, b, a2, b2, A2, D2, h2 :
           /\ a = Kids(t) /\ b = Bals(t) /\ a2 = Kids(v) /\ b2 = Bals(v) /\ A2 = A \ {k}
           /\ D2 = MoveBelow(D, k, s) /\ h2 = [h EXCEPT ![s] = h[k]]
    OBVIOUS
  <1>1. t \in Trees /\ Avl(a, b, A, D, h) /\ Shape(a, A, D)
    BY <1>0 DEF Good, Avl
  <1>2. A \in SUBSET Keys /\ A \in SUBSET Pointers /\ Nil \notin A /\ k \in Keys
    BY <1>1, LiveFacts
  <1>3. Hangs(a, A, D, q, k, l, r, chain, s, y, z, g, a2)
    BY <1>0
  <1>4. Moves(a, A, D, q, k, l, r, s, y, z, g, a2)
    BY ONLY <1>1, <1>3, HangsMoves, Zenon
  <1>5. r \in A /\ Chain(a, A, D, "left", r, chain) /\ s = chain[Len(chain)]
    BY <1>3 DEF Hangs
  <1>6. Links(a, A, D, r, chain, s)
    BY <1>1, <1>5, ChainLinks
  <1>7. s \in A /\ Len(chain) \in Nat /\ Len(chain) >= 1
    BY <1>6 DEF Links
  <1>8. TakesOver(b, h, A, k, s, b2, h2)
    <2>1. b \in [Keys -> Int] /\ h \in [Pointers -> Nat]
      BY <1>1 DEF Avl, Heights
    <2>2. b2 = [b EXCEPT ![s] = b[k]]
      BY <1>0
    <2>3. s \in Keys /\ s \in Pointers /\ k \in Pointers /\ Nil \in Pointers /\ s # Nil
      BY <1>2, <1>7 DEF Pointers
    <2>4. b2 \in [Keys -> Int] /\ b2[s] = b[k] /\ \A j \in A \ {s} : b2[j] = b[j]
      BY <1>2, <2>1, <2>2, <2>3
    <2>5. h2 \in [Pointers -> Nat] /\ h2[s] = h[k] /\ h2[Nil] = h[Nil] /\ \A j \in A \ {s} : h2[j] = h[j]
      BY <1>0, <1>2, <2>1, <2>3
    <2> QED
      BY <2>4, <2>5 DEF TakesOver
  <1>9. Shape(a2, A2, D2)
    BY <1>0, <1>1, <1>4, MovedShape
  <1>10. Leads(a, A, D, k, RootPlace, w)
    BY <1>0, <1>2, PathLeads
  <1>11. Joins(a2, A2, st, rest)
    <2>1. Joins(a2, A \ {k}, st, rest)
      BY ONLY RestJoins, <1>0, <1>1, <1>3, <1>10, q = w[Len(w)], RestOf(chain, s, q, rest), st = Stack(t, w, k)
    <2> QED
      BY <1>0, <2>1
  <1>12. /\ Way(a2, A2, both, Len(both)) /\ Len(both) > 0
         /\ both[Len(both)] = rest[Len(rest)]
    <2>1. Joined(a2, A2, rest, both)
      BY ONLY <1>11, WayJoin, both = st \o rest
    <2> QED
      BY ONLY <2>1 DEF Joined
  <1>13. RestStores(A \ {k}, chain, s, rest, a2)
    BY ONLY RestKids, <1>1, <1>3, RestOf(chain, s, q, rest)
  <1>14. PICK p, e, n : /\ p = rest[Len(rest)].place /\ e = SideOf(rest[Len(rest)].dir)
                        /\ n = a2[p]
    OBVIOUS
  <1>15. Len(rest) = Len(chain) /\ Len(rest) \in 1 .. Len(rest)
    <2>1. Len(rest) = Len(chain)
      BY DEF RestOf
    <2> QED
      BY ONLY <1>7, <2>1
  <1>16. /\ p \in Live(A \ {k}) /\ n \in A /\ n # k
         /\ n = IF Len(rest) = 1 THEN s ELSE chain[Len(rest) - 1]
    BY <1>13, <1>14, <1>15 DEF RestStores
  <1>17. z = <<n, e>> /\ e \in Sides
    <2>1. SideOf(1) = "right" /\ SideOf(-1) = "left" /\ "left" \in Sides /\ "right" \in Sides
      BY DEF SideOf, Sides
    <2>2. CASE Len(rest) = 1
      <3>1. rest[Len(rest)].dir = 1
        BY <2>2 DEF RestOf
      <3>2. e = "right" /\ n = s
        BY ONLY <1>14, <1>16, <2>1, <2>2, <3>1
      <3>3. z = <<s, "right">>
        BY ONLY <1>3, <1>15, <2>2, Zenon DEF Hangs
      <3> QED
        BY ONLY <2>1, <3>2, <3>3
    <2>3. CASE Len(rest) # 1
      <3>0. PICK x : x = Len(rest)
        OBVIOUS
      <3>1. rest[Len(rest)].dir = -1
        <4>1. x \in 2 .. Len(rest)
          BY ONLY <1>7, <1>15, <2>3, <3>0
        <4>2. rest[x].dir = -1
          BY <4>1 DEF RestOf
        <4> QED
          BY <3>0, <4>2
      <3> QED
        BY ONLY <1>3, <1>14, <1>15, <1>16, <2>1, <2>3, <3>1 DEF Hangs
    <2> QED
      BY <2>2, <2>3
  <1>18. PICK f : f = a2[<<n, Opposite(e)>>]
    OBVIOUS
  <1>19. Pending(a2, b2, A \ {k}, D2, h2, p, e, -1, n, y, f)
    <2>1. D2 = MoveBelow(D, k, s) /\ a2[p] = n
      BY <1>0, <1>14
    <2> QED
      BY ONLY MovedPending, <1>1, <1>4, <1>8, <1>16, <1>17, <1>18, <2>1
  <1>20. Waiting(v, A2, D2, h2, both, Len(both), -1, TRUE)
    <2>1. \E n1, c1, f1 : Pending(Kids(v), Bals(v), A2, D2, h2, both[Len(both)].place,
                                  SideOf(both[Len(both)].dir), -1, n1, c1, f1)
      <3>1. Pending(Kids(v), Bals(v), A2, D2, h2, both[Len(both)].place,
                    SideOf(both[Len(both)].dir), -1, n, y, f)
        BY <1>0, <1>12, <1>14, <1>19
      <3> QED
        BY <3>1
    <2>2. /\ Shape(Kids(v), A2, D2) /\ Heights(Bals(v), h2)
          /\ Way(Kids(v), A2, both, Len(both))
      <3>1. Heights(b2, h2)
        BY <1>19 DEF Pending
      <3> QED
        BY <1>0, <1>9, <1>12, <3>1
    <2>3. ~(Len(both) = 0)
      BY <1>12
    <2> QED
      BY ONLY <2>1, <2>2, <2>3, v \in Trees DEF Waiting
  <1> QED
    BY <1>0, <1>20

\* u is t with c stored in p.
PointerSet(t, A, p, c, u) ==
    /\ u \in Trees /\ Apart(t, A, u) /\ Bals(u) = Bals(t)
    /\ Kids(u) = [Kids(t) EXCEPT ![p] = c]

\* Storing a pointer in a place of a node in use leaves the other nodes alone.
LEMMA StoreApart ==
  ASSUME NEW t \in Trees, NEW A \in SUBSET Keys, NEW p \in Live(A), NEW c \in Pointers,
         NEW u, u = Store(t, p, c)
  PROVE  PointerSet(t, A, p, c, u)
  <1>1. p \in Places
    BY DEF Live, Places
  <1>2. /\ Kids(u) = [Kids(t) EXCEPT ![p] = c] /\ Bals(u) = Bals(t) /\ SameRest(t, u)
        /\ \A k \in Keys : p \notin {k} \X Sides => u.node[k] = t.node[k]
    BY <1>1, StoreFacts
  <1>3. \A k \in Keys \ A : p \notin {k} \X Sides
    BY PlacesFacts DEF Live
  <1> QED
    BY <1>2, <1>3 DEF PointerSet, Apart, SameRest

\* What TakeOut does when there is a child on the right.
Replaced(t, A, D, q, k, l, r, chain, s, v) ==
    /\ v \in Trees /\ Apart(t, A, v) /\ Bals(v) = [Bals(t) EXCEPT ![s] = Bals(t)[k]]
    /\ \E y, z, g : Hangs(Kids(t), A, D, q, k, l, r, chain, s, y, z, g, Kids(v))

\* The tree before that: the node k at q, its children and the chain to its successor.
Replaces(t, A, D, q, k, l, r, chain, s) ==
    /\ t \in Trees /\ Shape(Kids(t), A, D)
    /\ q \in Live(A) /\ k \in A /\ k = Kids(t)[q] /\ l = Kids(t)[<<k, "left">>]
    /\ r = Kids(t)[<<k, "right">>] /\ r \in A /\ Chain(Kids(t), A, D, "left", r, chain)
    /\ s = chain[Len(chain)]

\* The places where pointers are stored.
ReplacePlaces(A, D, q, k, l, r, s) ==
    /\ s \in A /\ <<s, "left">> \in Live(A) /\ <<s, "right">> \in Live(A) /\ q \in Live(A)
    /\ (\A j \in D[r] : j \in A => <<j, "left">> # q /\ <<j, "right">> # q)
    /\ s \in Pointers /\ l \in Pointers /\ r \in Pointers /\ s \in D[r] /\ s \in Keys /\ A \in SUBSET Keys
    /\ (\A p \in Live(A) : p \in Places)

\* The places where TakeOut stores pointers are in use and differ, and the chain is linked.
LEMMA ReplacesFacts ==
  ASSUME NEW t, NEW A, NEW D, NEW q, NEW k, NEW l, NEW r, NEW chain, NEW s,
         Replaces(t, A, D, q, k, l, r, chain, s)
  PROVE  ReplacePlaces(A, D, q, k, l, r, s) /\ Links(Kids(t), A, D, r, chain, s)
  <1>0. PICK a : a = Kids(t)
    OBVIOUS
  <1>1. /\ t \in Trees /\ Shape(a, A, D)
        /\ q \in Live(A) /\ k \in A /\ k = a[q] /\ l = a[<<k, "left">>]
        /\ r = a[<<k, "right">>] /\ r \in A /\ Chain(a, A, D, "left", r, chain)
        /\ s = chain[Len(chain)]
    BY <1>0 DEF Replaces
  <1>2. Links(a, A, D, r, chain, s)
    BY <1>1, ChainLinks
  <1>3. s \in A /\ s \in D[r]
    BY <1>2 DEF Links
  <1>4. /\ A \in SUBSET Keys /\ A \in SUBSET Pointers /\ (\A p \in Live(A) : p \in Places)
        /\ \A j \in A, e \in Sides : <<j, e>> \in Live(A)
    BY <1>1, LiveFacts
  <1>5. "left" \in Sides /\ "right" \in Sides /\ Opposite("right") = "left"
    BY DEF Sides, Opposite
  <1>6. D[r] \in SUBSET D[k]
    <2>1. D[k] = {k} \cup D[r] \cup D[l]
      <3>1. k \in A /\ r = a[<<k, "right">>] /\ l = a[<<k, Opposite("right")>>] /\ Shape(a, A, D)
        BY <1>1, <1>5
      <3>2. "right" \in Sides
        BY <1>5
      <3> QED
        BY ONLY <3>1, <3>2, ChildFacts
    <2> QED
      BY <2>1
  <1>7. ASSUME NEW j \in D[r], j \in A
        PROVE  <<j, "left">> # q /\ <<j, "right">> # q
    <2>1. j \in A /\ j \in D[k]
      BY <1>6, <1>7
    <2>2. \A e \in Sides : <<j, e>> # q
      BY ONLY <1>1, <2>1, OwnerOutside
    <2> QED
      BY <1>5, <2>2
  <1>8. l \in Pointers
    <2>1. a \in [Places -> Pointers]
      BY <1>1 DEF Shape
    <2> QED
      BY <1>1, <1>4, <1>5, <2>1
  <1> QED
    BY <1>0, <1>1, <1>2, <1>3, <1>4, <1>5, <1>7, <1>8 DEF ReplacePlaces

\* TakeOut when the child on the right is the successor.
LEMMA ReplacedOne ==
  ASSUME NEW t, NEW A, NEW D, NEW q, NEW k, NEW l, NEW r, NEW chain, NEW s,
         Replaces(t, A, D, q, k, l, r, chain, s), Len(chain) = 1, NEW b, b = Bals(t)[k],
         NEW v, v = Store(LinkOne(t, s, l, b), q, s)
  PROVE  Replaced(t, A, D, q, k, l, r, chain, s, v)
  <1>0. PICK a, a2, y, z, g : /\ a = Kids(t) /\ a2 = Kids(v) /\ y = a[<<s, "right">>]
                              /\ z = <<s, "right">> /\ g = <<k, "right">>
    OBVIOUS
  <1>1. ReplacePlaces(A, D, q, k, l, r, s)
    BY ReplacesFacts
  <1>2. /\ s \in A /\ <<s, "left">> \in Live(A) /\ <<s, "right">> \in Live(A) /\ q \in Live(A)
        /\ <<s, "left">> # q /\ <<s, "right">> # q
        /\ s \in Pointers /\ l \in Pointers /\ s \in Keys /\ A \in SUBSET Keys
        /\ (\A p \in Live(A) : p \in Places)
    BY <1>1 DEF ReplacePlaces
  <1>3. t \in Trees /\ Bals(t) \in [Keys -> Int] /\ b \in Int /\ k \in A /\ a \in [Places -> Pointers]
    <2>1. t \in Trees /\ k \in A
      BY DEF Replaces
    <2> QED
      BY <1>0, <1>2, <2>1, KidsType
  <1>4. PICK u1, u2 : u1 = Store(t, <<s, "left">>, l) /\ u2 = SetBalance(u1, s, b)
    OBVIOUS
  <1>5. v = Store(u2, q, s)
    <2>1. LinkOne(t, s, l, b) = SetBalance(Store(t, <<s, "left">>, l), s, b)
      BY ONLY <1>2, <1>3, TakeOne
    <2> QED
      BY <1>4, <2>1
  <1>6. PointerSet(t, A, <<s, "left">>, l, u1)
    BY ONLY <1>2, <1>3, <1>4, StoreApart
  <1>7. u1 \in Trees
    BY <1>6 DEF PointerSet
  <1>8. BalanceSet(u1, A, s, b, u2)
    BY ONLY <1>2, <1>3, <1>4, <1>7, SetBalanceApart
  <1>9. u2 \in Trees
    BY <1>8 DEF BalanceSet
  <1>10. PointerSet(u2, A, q, s, v)
    BY ONLY <1>2, <1>5, <1>9, StoreApart
  <1>11. v \in Trees /\ Apart(t, A, v)
    <2>1. Apart(t, A, u1) /\ Apart(u1, A, u2) /\ Apart(u2, A, v) /\ v \in Trees
      BY <1>6, <1>8, <1>10 DEF PointerSet, BalanceSet
    <2>2. Apart(t, A, u2)
      BY ONLY <2>1, ApartTrans
    <2> QED
      BY ONLY <2>1, <2>2, ApartTrans
  <1>12. Bals(v) = [Bals(t) EXCEPT ![s] = Bals(t)[k]]
    BY <1>6, <1>8, <1>10 DEF PointerSet, BalanceSet
  <1>13. a2 = [[a EXCEPT ![<<s, "left">>] = l] EXCEPT ![q] = s]
    BY <1>0, <1>6, <1>8, <1>10 DEF PointerSet, BalanceSet
  <1>14. a2 \in [Places -> Pointers] /\ a2[q] = s /\ a2[<<s, "left">>] = l /\ a2[z] = y
         /\ \A p \in Places : p \notin {q, <<s, "left">>, <<s, "right">>, z} => a2[p] = a[p]
    BY <1>0, <1>2, <1>3, <1>13
  <1>15. Hangs(a, A, D, q, k, l, r, chain, s, y, z, g, a2)
    BY <1>0, <1>14 DEF Replaces, Hangs
  <1> QED
    BY <1>0, <1>11, <1>12, <1>15 DEF Replaced

\* TakeOut when the successor is further down.
LEMMA ReplacedFar ==
  ASSUME NEW t, NEW A, NEW D, NEW q, NEW k, NEW l, NEW r, NEW chain, NEW s,
         Replaces(t, A, D, q, k, l, r, chain, s), Len(chain) # 1, NEW b, b = Bals(t)[k],
         NEW m, m = chain[Len(chain) - 1], NEW y, y = Kids(t)[<<s, "right">>],
         NEW v, v = Store(LinkFar(t, m, s, y, l, r, b), q, s)
  PROVE  Replaced(t, A, D, q, k, l, r, chain, s, v)
  <1>0. PICK a, a2, z : /\ a = Kids(t) /\ a2 = Kids(v) /\ z = <<m, "left">>
    OBVIOUS
  <1>1. ReplacePlaces(A, D, q, k, l, r, s) /\ Links(a, A, D, r, chain, s)
    BY <1>0, ReplacesFacts
  <1>2. m \in A /\ m \in D[r] /\ m # s
    <2>1. PICK i : i = Len(chain) - 1
      OBVIOUS
    <2>2. i \in 1 .. Len(chain) - 1
      <3>1. Len(chain) \in Nat /\ Len(chain) >= 1
        BY <1>1 DEF Links
      <3> QED
        BY ONLY <2>1, <3>1, Len(chain) # 1
    <2> QED
      BY <1>1, <2>1, <2>2 DEF Links
  <1>3. /\ s \in A /\ <<s, "left">> \in Live(A) /\ <<s, "right">> \in Live(A) /\ q \in Live(A)
        /\ <<s, "left">> # q /\ <<s, "right">> # q /\ z # q /\ z \in Live(A) /\ m \in Keys
        /\ s \in Pointers /\ l \in Pointers /\ r \in Pointers /\ s \in Keys /\ A \in SUBSET Keys
        /\ (\A p \in Live(A) : p \in Places)
    <2>1. z \in Live(A)
      BY <1>0, <1>2 DEF Live, Sides
    <2> QED
      BY <1>0, <1>1, <1>2, <2>1 DEF ReplacePlaces
  <1>4. t \in Trees /\ Bals(t) \in [Keys -> Int] /\ b \in Int /\ k \in A /\ a \in [Places -> Pointers]
        /\ y \in Pointers
    <2>1. t \in Trees /\ k \in A
      BY DEF Replaces
    <2> QED
      BY <1>0, <1>3, <2>1, KidsType
  <1>5. PICK u1, u2, u3, u4 : /\ u1 = Store(t, z, y) /\ u2 = Store(u1, <<s, "left">>, l)
                              /\ u3 = Store(u2, <<s, "right">>, r) /\ u4 = SetBalance(u3, s, b)
    OBVIOUS
  <1>6. v = Store(u4, q, s)
    <2>1. LinkFar(t, m, s, y, l, r, b)
             = SetBalance(Store(Store(Store(t, <<m, "left">>, y), <<s, "left">>, l), <<s, "right">>, r), s, b)
      BY ONLY <1>3, <1>4, TakeTwo
    <2> QED
      BY <1>0, <1>5, <2>1
  <1>7. PointerSet(t, A, z, y, u1)
    BY ONLY <1>3, <1>4, <1>5, StoreApart
  <1>8. PointerSet(u1, A, <<s, "left">>, l, u2)
    <2>1. u1 \in Trees
      BY <1>7 DEF PointerSet
    <2> QED
      BY ONLY <1>3, <1>5, <2>1, StoreApart
  <1>9. PointerSet(u2, A, <<s, "right">>, r, u3)
    <2>1. u2 \in Trees
      BY <1>8 DEF PointerSet
    <2> QED
      BY ONLY <1>3, <1>5, <2>1, StoreApart
  <1>10. BalanceSet(u3, A, s, b, u4)
    <2>1. u3 \in Trees
      BY <1>9 DEF PointerSet
    <2> QED
      BY ONLY <1>3, <1>4, <1>5, <2>1, SetBalanceApart
  <1>11. PointerSet(u4, A, q, s, v)
    <2>1. u4 \in Trees
      BY <1>10 DEF BalanceSet
    <2> QED
      BY ONLY <1>3, <1>6, <2>1, StoreApart
  <1>12. v \in Trees /\ Apart(t, A, v)
    <2>1. Apart(t, A, u1) /\ Apart(u1, A, u2) /\ Apart(u2, A, u3) /\ Apart(u3, A, u4) /\ Apart(u4, A, v)
          /\ v \in Trees
      BY <1>7, <1>8, <1>9, <1>10, <1>11 DEF PointerSet, BalanceSet
    <2>2. Apart(t, A, u2) /\ Apart(u2, A, u4)
      BY ONLY <2>1, ApartTrans
    <2>3. Apart(t, A, u4)
      BY ONLY <2>2, ApartTrans
    <2> QED
      BY ONLY <2>1, <2>3, ApartTrans
  <1>13. Bals(v) = [Bals(t) EXCEPT ![s] = Bals(t)[k]]
    BY <1>7, <1>8, <1>9, <1>10, <1>11 DEF PointerSet, BalanceSet
  <1>15. /\ a2 \in [Places -> Pointers] /\ a2[q] = s /\ a2[<<s, "left">>] = l /\ a2[z] = y
         /\ a2[<<s, "right">>] = r
         /\ \A p \in Places : p \notin {q, <<s, "left">>, <<s, "right">>, z} => a2[p] = a[p]
    <2>1. z # <<s, "left">> /\ z # <<s, "right">> /\ <<s, "left">> # <<s, "right">>
      BY <1>0, <1>2
    <2>2. PICK sl, sr, a3, a4, a5 : /\ sl = <<s, "left">> /\ sr = <<s, "right">> /\ a3 = Kids(u1)
                                    /\ a4 = Kids(u2) /\ a5 = Kids(u3)
      OBVIOUS
    <2>3. /\ a3 = [a EXCEPT ![z] = y] /\ a4 = [a3 EXCEPT ![sl] = l] /\ a5 = [a4 EXCEPT ![sr] = r]
      BY <1>0, <1>7, <1>8, <1>9, <2>2 DEF PointerSet
    <2>4. a2 = [a5 EXCEPT ![q] = s]
      BY <1>0, <1>10, <1>11, <2>2 DEF PointerSet, BalanceSet
    <2>5. /\ z # sl /\ z # sr /\ sl # sr /\ q # z /\ q # sl /\ q # sr
          /\ z \in Places /\ sl \in Places /\ sr \in Places /\ q \in Places
      BY <1>3, <2>1, <2>2
    <2>6. a4 \in [Places -> Pointers] /\ a4[z] = y /\ a4[sl] = l /\ \A p \in Places : p \notin {z, sl} => a4[p] = a[p]
      BY ONLY <1>3, <1>4, <2>3, <2>5
    <2>7. /\ a2 \in [Places -> Pointers] /\ a2[q] = s /\ a2[sr] = r
          /\ \A p \in Places : p \notin {q, sr} => a2[p] = a4[p]
      BY ONLY <1>3, <2>3, <2>4, <2>5, <2>6
    <2>8. /\ a2[sl] = l /\ a2[z] = y
          /\ \A p \in Places : p \notin {q, sl, sr, z} => a2[p] = a[p]
      BY ONLY <2>5, <2>6, <2>7
    <2> QED
      BY <2>2, <2>7, <2>8
  <1>16. Hangs(a, A, D, q, k, l, r, chain, s, y, z, z, a2)
    BY <1>0, <1>15 DEF Replaces, Hangs
  <1> QED
    BY <1>0, <1>12, <1>13, <1>16 DEF Replaced

\* The stack of the search and what TakeOut adds to it.
OutWaits(t, A, k, st, v, rest) ==
    /\ Apart(t, A, v)
    /\ \E D2, h2 : Waiting(v, A \ {k}, D2, h2, st \o rest, Len(st \o rest), -1, TRUE)

\* The place where the search ends.
Found(t, A, D, h, k, w, q, st) ==
    /\ Good(t, A, D, h) /\ k \in A /\ w = Path(t, k) /\ q = w[Len(w)] /\ st = Stack(t, w, k)

\* What is known of the place q and the node k there.
FoundNode(t, A, D, k, q, st) ==
    /\ t \in Trees /\ Shape(Kids(t), A, D) /\ A \in SUBSET Keys /\ k \in Keys /\ k \in A
    /\ q \in Live(A) /\ Kids(t)[q] = k /\ At(t, q) = k
    /\ Kids(t)[<<k, "left">>] = t.node[k].left /\ Kids(t)[<<k, "right">>] = t.node[k].right
    /\ Bals(t)[k] = t.node[k].balance /\ st \in Seq(StackNode)
    /\ q \in Places

\* A search for a key in use finds its node.
LEMMA FoundFacts ==
  ASSUME NEW t, NEW A, NEW D, NEW h, NEW k, NEW w, NEW q, NEW st, Found(t, A, D, h, k, w, q, st)
  PROVE  FoundNode(t, A, D, k, q, st)
  <1>0. PICK a : a = Kids(t)
    OBVIOUS
  <1>1. t \in Trees /\ Shape(a, A, D) /\ k \in A /\ w = Path(t, k) /\ q = w[Len(w)] /\ st = Stack(t, w, k)
        /\ Good(t, A, D, h)
    BY <1>0 DEF Found, Good, Avl
  <1>2. A \in SUBSET Keys /\ (\A p \in Live(A) : p \in Places) /\ D[a[RootPlace]] = A
    BY <1>1, LiveFacts DEF Shape
  <1>3. Leads(a, A, D, k, RootPlace, w)
    BY <1>0, <1>1, <1>2, PathLeads
  <1>4. q \in Live(A) /\ a[q] = k
    <2>1. Len(w) \in 1 .. Len(w)
      BY <1>3 DEF Leads
    <2> QED
      BY <1>1, <1>2, <1>3, <2>1 DEF Leads
  <1>5. Stacked(a, w, k, st)
    BY ONLY <1>0, <1>1, <1>3, StackFits
  <1>6. st \in Seq(StackNode)
    BY <1>5 DEF Stacked
  <1>7. "left" \in Sides /\ "right" \in Sides
    BY DEF Sides
  <1> QED
    BY <1>0, <1>1, <1>2, <1>4, <1>6, <1>7, KidsType DEF FoundNode

\* TakeOut of a node without a child on the right: only the stack of the search waits.
LEMMA OutCut ==
  ASSUME NEW t, NEW A, NEW D, NEW h, NEW k, NEW w, NEW q, NEW st, Found(t, A, D, h, k, w, q, st),
         t.node[k].right = Nil, NEW v, v = Store(t, q, t.node[k].left)
  PROVE  OutWaits(t, A, k, st, v, << >>)
  <1>0. PICK l, a : l = t.node[k].left /\ a = Kids(t)
    OBVIOUS
  <1>1. /\ t \in Trees /\ Shape(a, A, D) /\ A \in SUBSET Keys /\ k \in Keys
        /\ q \in Live(A) /\ a[q] = k /\ a[<<k, "left">>] = l /\ a[<<k, "right">>] = Nil
        /\ st \in Seq(StackNode) /\ a \in [Places -> Pointers] /\ <<k, "left">> \in Places
    <2>1. FoundNode(t, A, D, k, q, st)
      BY FoundFacts
    <2> QED
      BY <1>0, <2>1, PlacesFacts, KidsType DEF Sides, FoundNode
  <1>2. l \in Pointers
    BY <1>1
  <1>3. PointerSet(t, A, q, l, v)
    BY ONLY <1>0, <1>1, <1>2, StoreApart, v = Store(t, q, t.node[k].left)
  <1>4. Good(t, A, D, h) /\ k \in A /\ w = Path(t, k) /\ q = w[Len(w)] /\ st = Stack(t, w, k)
    BY DEF Found
  <1>5. v \in Trees /\ Cuts(Kids(t), A, q, k, l, Kids(v)) /\ Bals(v) = Bals(t) /\ Kids(t)[q] = k /\ Apart(t, A, v)
    BY <1>0, <1>1, <1>3, <1>4 DEF PointerSet, Cuts
  <1>6. \E D2, h2 : Waiting(v, A \ {k}, D2, h2, st, Len(st), -1, TRUE)
    BY ONLY <1>4, <1>5, CutWaits
  <1>7. st \o << >> = st
    BY <1>1
  <1> QED
    BY <1>5, <1>6, <1>7 DEF OutWaits

\* TakeOut of a node with a child on the right: the stack of the search and the places added
\* to it wait.
LEMMA OutMove ==
  ASSUME NEW t, NEW A, NEW D, NEW h, NEW k, NEW w, NEW q, NEW st, Found(t, A, D, h, k, w, q, st),
         NEW l, NEW r, NEW chain, NEW s, NEW v, Replaced(t, A, D, q, k, l, r, chain, s, v),
         NEW rest, RestOf(chain, s, q, rest)
  PROVE  OutWaits(t, A, k, st, v, rest)
  <1>1. /\ v \in Trees /\ Apart(t, A, v) /\ Bals(v) = [Bals(t) EXCEPT ![s] = Bals(t)[k]]
        /\ \E y, z, g : Hangs(Kids(t), A, D, q, k, l, r, chain, s, y, z, g, Kids(v))
    BY DEF Replaced
  <1>2. PICK y, z, g : Hangs(Kids(t), A, D, q, k, l, r, chain, s, y, z, g, Kids(v))
    BY <1>1
  <1>3. Good(t, A, D, h) /\ k \in A /\ w = Path(t, k) /\ q = w[Len(w)] /\ st = Stack(t, w, k)
    BY DEF Found
  <1>4. PICK both : both = st \o rest
    OBVIOUS
  <1>5. \E D2, h2 : Waiting(v, A \ {k}, D2, h2, both, Len(both), -1, TRUE)
    BY ONLY <1>1, <1>2, <1>3, <1>4, MovedWaits, RestOf(chain, s, q, rest)
  <1> QED
    BY <1>1, <1>4, <1>5 DEF OutWaits

\* w is u followed by v.
Appended(S, u, v, w) ==
    /\ w \in Seq(S) /\ Len(w) = Len(u) + Len(v) /\ Len(u) \in Nat /\ Len(v) \in Nat
    /\ (\A i \in 1 .. Len(u) : w[i] = u[i]) /\ \A i \in 1 .. Len(v) : w[Len(u) + i] = v[i]

\* The length and the entries of a concatenation.
LEMMA AppendedFacts ==
  ASSUME NEW S, NEW u \in Seq(S), NEW v \in Seq(S), NEW w, w = u \o v
  PROVE  Appended(S, u, v, w)
  BY DEF Appended

\* The stack that TakeOut adds has the place of the removed node, then those of the chain.
LEMMA RestFits ==
  ASSUME NEW chain, Len(chain) \in Nat, Len(chain) >= 1, NEW s \in Keys, NEW q \in Places,
         \A i \in 1 .. Len(chain) - 1 : chain[i] \in Keys,
         NEW rest, rest = <<[place |-> q, dir |-> 1]>> \o
             [i \in 1 .. Len(chain) - 1 |->
                 [place |-> IF i = 1 THEN <<s, "right">> ELSE <<chain[i - 1], "left">>, dir |-> -1]]
  PROVE  RestOf(chain, s, q, rest)
  <1>0. PICK n \in Nat : n = Len(chain)
    OBVIOUS
  <1>1. PICK one, below : /\ one = <<[place |-> q, dir |-> 1]>>
                     /\ below = [i \in 1 .. n - 1 |->
                 [place |-> IF i = 1 THEN <<s, "right">> ELSE <<chain[i - 1], "left">>, dir |-> -1]]
    OBVIOUS
  <1>2. rest = one \o below
    BY <1>0, <1>1
  <1>3. \A i \in 1 .. n - 1 : /\ below[i].dir = -1
                              /\ below[i].place = IF i = 1 THEN <<s, "right">> ELSE <<chain[i - 1], "left">>
    BY <1>1
  <1>4. n - 1 \in Nat /\ n >= 1
    BY <1>0
  <1>5. below \in Seq(StackNode) /\ Len(below) = n - 1
    <2>1. ASSUME NEW i \in 1 .. n - 1
          PROVE  below[i] \in StackNode
      <3>1. \A j \in Keys, e \in {"left", "right"} : <<j, e>> \in Places
        BY PlacesFacts DEF Sides
      <3>2. i # 1 => chain[i - 1] \in Keys
        <4>1. i # 1 => i - 1 \in 1 .. n - 1
          BY <1>4
        <4> QED
          BY <1>0, <4>1
      <3>3. (IF i = 1 THEN <<s, "right">> ELSE <<chain[i - 1], "left">>) \in Places
        BY <3>1, <3>2
      <3>4. below[i] = [place |-> IF i = 1 THEN <<s, "right">> ELSE <<chain[i - 1], "left">>, dir |-> -1]
        BY <1>1
      <3> QED
        BY <3>3, <3>4 DEF StackNode
    <2> QED
      BY <1>1, <1>4, <2>1
  <1>6. one \in Seq(StackNode) /\ Len(one) = 1 /\ one[1].place = q /\ one[1].dir = 1
    BY <1>1 DEF StackNode
  <1>7. rest \in Seq(StackNode) /\ Len(rest) = n /\ rest[1] = one[1]
    <2>0. Appended(StackNode, one, below, rest)
      BY ONLY <1>2, <1>5, <1>6, AppendedFacts
    <2>1. rest \in Seq(StackNode) /\ Len(rest) = 1 + (n - 1)
      BY ONLY <1>5, <1>6, <2>0 DEF Appended
    <2>2. rest[1] = one[1]
      BY ONLY <1>6, <2>0 DEF Appended
    <2> QED
      BY ONLY <1>4, <2>1, <2>2, n \in Nat
  <1>8. ASSUME NEW i \in 2 .. n
        PROVE  /\ rest[i].dir = -1
               /\ rest[i].place = IF i = 2 THEN <<s, "right">> ELSE <<chain[i - 2], "left">>
    <2>1. PICK j : j = i - 1
      OBVIOUS
    <2>2. j \in 1 .. n - 1 /\ i = 1 + j /\ j - 1 = i - 2 /\ (i = 2 <=> j = 1)
      BY <1>4, <2>1
    <2>3. rest[1 + j] = below[j]
      <3>1. Appended(StackNode, one, below, rest)
        BY ONLY <1>2, <1>5, <1>6, AppendedFacts
      <3> QED
        BY ONLY <1>5, <1>6, <2>2, <3>1 DEF Appended
    <2> QED
      BY <1>3, <2>2, <2>3
  <1> QED
    BY <1>0, <1>6, <1>7, <1>8 DEF RestOf

\* Without the node only those on the way to its place may not be level, and they are
\* all on the stack.
LEMMA TakeOutWaits ==
  ASSUME NEW t, NEW A, NEW D, NEW h, NEW k, NEW w, NEW q, NEW st, Found(t, A, D, h, k, w, q, st)
  PROVE  OutWaits(t, A, k, st, TakeOut(t, q).tree, TakeOut(t, q).stack)
  <1>0. PICK a, l, r, chain, s, b, y, rest :
           /\ a = Kids(t) /\ l = t.node[k].left /\ r = t.node[k].right
           /\ chain = Down(t, r, "left") /\ s = chain[Len(chain)] /\ b = t.node[k].balance
           /\ y = t.node[s].right
           /\ rest = <<[place |-> q, dir |-> 1]>> \o
                     [i \in 1 .. Len(chain) - 1 |->
                        [place |-> IF i = 1 THEN <<s, "right">> ELSE <<chain[i - 1], "left">>,
                         dir |-> -1]]
    OBVIOUS
  <1>1. FoundNode(t, A, D, k, q, st)
    BY FoundFacts
  <1>2. At(t, q) = k /\ t \in Trees /\ Shape(a, A, D) /\ A \in SUBSET Keys /\ q \in Places /\ q \in Live(A)
        /\ k \in A /\ a[q] = k /\ l = a[<<k, "left">>] /\ r = a[<<k, "right">>] /\ b = Bals(t)[k]
    BY <1>0, <1>1 DEF FoundNode
  <1>3. CASE r = Nil
    <2>1. TakeOut(t, q) = [tree |-> Store(t, q, l), stack |-> << >>]
      BY <1>0, <1>2, <1>3 DEF TakeOut
    <2>2. PICK v : v = Store(t, q, t.node[k].left)
      OBVIOUS
    <2>3. t.node[k].right = Nil
      BY <1>0, <1>3
    <2>4. OutWaits(t, A, k, st, v, << >>)
      BY ONLY <2>2, <2>3, OutCut, Found(t, A, D, h, k, w, q, st), Zenon
    <2>5. TakeOut(t, q).tree = v /\ TakeOut(t, q).stack = << >>
      BY <1>0, <2>1, <2>2
    <2> QED
      BY <2>4, <2>5
  <1>4. CASE r # Nil
    <2>1. Good(t, A, D, h) /\ r \in A /\ "left" \in Sides
      <3>1. <<k, "right">> \in Live(A) /\ "left" \in Sides
        BY <1>2, Zenon DEF Live, Sides
      <3> QED
        BY <1>2, <1>4, <3>1 DEF Found, Shape
    <2>2. Chain(a, A, D, "left", r, chain)
      BY <1>0, <2>1, DownWell
    <2>3. Replaces(t, A, D, q, k, l, r, chain, s)
      BY <1>0, <1>2, <2>1, <2>2 DEF Replaces
    <2>4. Links(a, A, D, r, chain, s)
      BY <1>0, <1>2, <2>1, <2>2, ChainLinks
    <2>5. Len(chain) \in Nat /\ Len(chain) >= 1 /\ s \in Keys
          /\ \A i \in 1 .. Len(chain) - 1 : chain[i] \in Keys
      BY <1>2, <2>4 DEF Links
    <2>6. RestOf(chain, s, q, rest)
      BY ONLY <1>0, <1>2, <2>5, RestFits
    <2>7. Last(chain) = s
      BY <1>0 DEF Last
    <2>8. y = a[<<s, "right">>]
      BY <1>0, <1>2, <2>5, KidsType DEF Sides
    <2>9. CASE Len(chain) = 1
      <3>1. PICK v : v = Store(LinkOne(t, s, l, b), q, s)
        OBVIOUS
      <3>2. Replaced(t, A, D, q, k, l, r, chain, s, v)
        BY ONLY <1>2, <2>3, <2>9, <3>1, ReplacedOne
      <3>3. PICK one : one = <<[place |-> q, dir |-> 1]>>
        OBVIOUS
      <3>4. OutWaits(t, A, k, st, v, one)
        <4>1. one \in Seq(StackNode) /\ Len(one) = 1 /\ one[1].place = q /\ one[1].dir = 1
          BY <1>2, <3>3 DEF StackNode
        <4>2. \A i \in 2 .. 1 : FALSE
          OBVIOUS
        <4>3. RestOf(chain, s, q, one)
          BY <2>9, <4>1, <4>2, Zenon DEF RestOf
        <4> QED
          BY ONLY <3>2, <4>3, OutMove, Found(t, A, D, h, k, w, q, st)
      <3>5. TakeOut(t, q) = [tree |-> Store([t EXCEPT !.node[s].left = l, !.node[s].balance = b], q, s),
                             stack |-> <<[place |-> q, dir |-> 1]>>]
        BY <1>0, <1>2, <1>4, <2>7, <2>9 DEF TakeOut
      <3>6. TakeOut(t, q).tree = v /\ TakeOut(t, q).stack = one
        BY <3>1, <3>3, <3>5 DEF LinkOne
      <3> QED
        BY <3>4, <3>6
    <2>10. CASE Len(chain) # 1
      <3>0. PICK m : m = chain[Len(chain) - 1]
        OBVIOUS
      <3>1. PICK v : v = Store(LinkFar(t, m, s, y, l, r, b), q, s)
        OBVIOUS
      <3>2. Replaced(t, A, D, q, k, l, r, chain, s, v)
        <4>1. y = Kids(t)[<<s, "right">>]
          BY <1>0, <2>8
        <4> QED
          BY ONLY <1>2, <2>3, <2>10, <3>0, <3>1, <4>1, ReplacedFar, Zenon
      <3>3. OutWaits(t, A, k, st, v, rest)
        BY ONLY <2>6, <3>2, OutMove, Found(t, A, D, h, k, w, q, st), Zenon
      <3>5. /\ TakeOut(t, q).tree = Store([t EXCEPT !.node[m].left = y, !.node[s].left = l,
                                                   !.node[s].right = r, !.node[s].balance = b], q, s)
            /\ TakeOut(t, q).stack = rest
        BY ONLY <1>0, <1>2, <1>4, <2>7, <2>10, <3>0, Zenon DEF TakeOut
      <3>6. TakeOut(t, q).tree = v
        BY <3>1, <3>5 DEF LinkFar
      <3> QED
        BY <3>3, <3>5, <3>6
    <2> QED
      BY <2>9, <2>10
  <1> QED
    BY <1>3, <1>4

\* Whether a tree is in order depends on the nodes in use alone.
LEMMA AvlOn ==
  ASSUME NEW a, NEW b, NEW A, NEW D, NEW h, Avl(a, b, A, D, h),
         NEW a2 \in [Places -> Pointers], NEW b2 \in [Keys -> Int],
         \A p \in Live(A) : a2[p] = a[p], \A k \in A : b2[k] = b[k]
  PROVE  Avl(a2, b2, A, D, h)
  <1>1. Shape(a, A, D) /\ Heights(b, h) /\ \A k \in A : Leveled(a, b, h, k)
    BY DEF Avl
  <1>2. RootPlace \in Live(A) /\ \A k \in A, s \in Sides : <<k, s>> \in Live(A) /\ Opposite(s) \in Sides
    BY <1>1, LiveFacts, SidesFacts
  <1>3. \A k \in A, s \in Sides : a2[<<k, s>>] = a[<<k, s>>] /\ a2[<<k, Opposite(s)>>] = a[<<k, Opposite(s)>>]
    BY <1>2
  <1>4. Shape(a2, A, D)
    <2>1. ASSUME NEW k \in A
          PROVE  Splits(a2, D, k)
      <3>1. Splits(a, D, k)
        BY <1>1 DEF Shape
      <3>2. \A s \in Sides : a2[<<k, s>>] = a[<<k, s>>] /\ a2[<<k, Opposite(s)>>] = a[<<k, Opposite(s)>>]
        BY <1>3
      <3> QED
        BY ONLY <3>1, <3>2 DEF Splits
    <2>2. Single(a2, A)
      BY <1>1 DEF Shape, Single
    <2> QED
      BY <1>1, <1>2, <2>1, <2>2 DEF Shape
  <1>5. ASSUME NEW k \in A
        PROVE  Leveled(a2, b2, h, k)
    <2>1. Leveled(a, b, h, k) /\ b2[k] = b[k]
      BY <1>1
    <2>2. \A s \in Sides : a2[<<k, s>>] = a[<<k, s>>] /\ a2[<<k, Opposite(s)>>] = a[<<k, Opposite(s)>>]
      BY <1>3
    <2> QED
      BY ONLY <2>1, <2>2 DEF Leveled
  <1>6. Heights(b2, h)
    BY <1>1 DEF Heights
  <1> QED
    BY <1>4, <1>5, <1>6 DEF Avl

\* The map with the node of the key freed.
WithoutNode(t, key) ==
    [t EXCEPT !.node[key] = Free, !.value[key] = Null, !.num_elements = @ - 1]

\* Freeing a node that is no longer in use changes nothing for the nodes in use.
LEMMA NodeFreed ==
  ASSUME NEW t \in Trees, NEW key \in Keys, NEW A \in SUBSET Keys, key \notin A,
         NEW v, v = WithoutNode(t, key)
  PROVE  /\ v \in Trees /\ (\A p \in Live(A) : Kids(v)[p] = Kids(t)[p])
         /\ (\A k \in A : Bals(v)[k] = Bals(t)[k])
         /\ v.value = [t.value EXCEPT ![key] = Null] /\ v.num_elements = t.num_elements - 1
         /\ v.node[key] = Free /\ \A k \in Keys \ {key} : v.node[k] = t.node[k]
  <1>0. Free \in Node /\ Nil \in Pointers
    BY DEF Free, Node, Pointers
  <1>1. /\ v \in Trees /\ v.root = t.root
        /\ v.value = [t.value EXCEPT ![key] = Null] /\ v.num_elements = t.num_elements - 1
        /\ v.node[key] = Free /\ \A k \in Keys \ {key} : v.node[k] = t.node[k]
    <2>1. PICK nn, vv, m : /\ nn = [t.node EXCEPT ![key] = Free] /\ vv = [t.value EXCEPT ![key] = Null]
                           /\ m = t.num_elements - 1
      OBVIOUS
    <2>2. nn \in [Keys -> Node] /\ vv \in [Keys -> Stored \cup {Null}] /\ m \in Int
      BY <1>0, <2>1 DEF Trees
    <2>3. v = [t EXCEPT !.node = nn, !.value = vv, !.num_elements = m]
      BY <2>1 DEF WithoutNode
    <2>4. /\ v \in Trees /\ v.root = t.root /\ v.node = nn /\ v.value = vv /\ v.num_elements = m
      BY ONLY <2>2, <2>3, t \in Trees DEF Trees
    <2>5. nn[key] = Free /\ \A k \in Keys \ {key} : nn[k] = t.node[k]
      BY <2>1 DEF Trees
    <2> QED
      BY <2>1, <2>4, <2>5
  <1>2. \A k \in A : Bals(v)[k] = Bals(t)[k]
    BY <1>1, KidsType
  <1>3. \A p \in Live(A) : Kids(v)[p] = Kids(t)[p]
    <2>1. ASSUME NEW k \in A, NEW s \in Sides
          PROVE  Kids(v)[<<k, s>>] = Kids(t)[<<k, s>>]
      <3>1. v.node[k] = t.node[k] /\ k \in Keys /\ v \in Trees
        BY <1>1
      <3>2. Kids(v)[<<k, s>>] = v.node[k][s] /\ Kids(t)[<<k, s>>] = t.node[k][s]
        BY <3>1, KidsType
      <3> QED
        BY <3>1, <3>2
    <2>2. Kids(v)[RootPlace] = Kids(t)[RootPlace]
      BY <1>1, KidsType
    <2> QED
      BY <2>1, <2>2 DEF Live
  <1> QED
    BY <1>1, <1>2, <1>3

\* Removing an element leaves a map without it, with all nodes in order.
LEMMA RemoveWell ==
  ASSUME NEW t, NEW A, NEW D, NEW h, Good(t, A, D, h), NEW key \in Keys,
         NEW u, u = remove_long_map_element(t, key)
  PROVE  /\ u.value = [t.value EXCEPT ![key] = Null]
         /\ \E D2, h2 : Good(u, A \ {key}, D2, h2)
  <1>0. PICK w, q, st, a : w = Path(t, key) /\ q = w[Len(w)] /\ st = Stack(t, w, key) /\ a = Kids(t)
    OBVIOUS
  <1>1. /\ t \in Trees /\ Shape(a, A, D) /\ A \in SUBSET Keys
        /\ t.value \in [Keys -> Stored \cup {Null}]
    <2>1. t \in Trees /\ Shape(a, A, D)
      BY <1>0 DEF Good, Avl
    <2> QED
      BY <2>1 DEF Shape, Trees
  <1>2. CASE key \notin A
    <2>1. Leads(a, A, D, key, RootPlace, w)
      BY <1>0, PathLeads
    <2>2. q \in Live(A) /\ a[q] \in {key, Nil}
      <3>1. Len(w) \in 1 .. Len(w)
        BY <2>1 DEF Leads
      <3> QED
        BY <1>0, <2>1, <3>1 DEF Leads
    <2>3. At(t, q) = Nil
      <3>1. q \in Places /\ a[q] \in A \cup {Nil}
        BY <1>1, <2>2, LiveFacts DEF Shape
      <3> QED
        BY <1>0, <1>1, <1>2, <2>2, <3>1, KidsType
    <2>4. u = t
      BY <1>0, <2>3 DEF remove_long_map_element, Last
    <2>5. t.value[key] = Null /\ A \ {key} = A
      BY <1>2 DEF Good
    <2>6. [t.value EXCEPT ![key] = Null] = t.value
      BY <1>1, <2>5
    <2> QED
      BY <2>4, <2>5, <2>6
  <1>3. CASE key \in A
    <2>1. Found(t, A, D, h, key, w, q, st)
      BY <1>0, <1>3 DEF Found
    <2>2. OutWaits(t, A, key, st, TakeOut(t, q).tree, TakeOut(t, q).stack)
      BY <2>1, TakeOutWaits
    <2>3. PICK v, both, A2, c : /\ v = TakeOut(t, q).tree /\ both = st \o TakeOut(t, q).stack /\ A2 = A \ {key}
                                /\ c = Climb(v, both, -1)
      OBVIOUS
    <2>4. Apart(t, A, v) /\ \E D1, h1 : Waiting(v, A2, D1, h1, both, Len(both), -1, TRUE)
      BY <2>2, <2>3 DEF OutWaits
    <2>5. PICK D1, h1 : Waiting(v, A2, D1, h1, both, Len(both), -1, TRUE)
      BY <2>4
    <2>6. /\ Apart(v, A2, c)
          /\ \E D2, h2 : /\ Shape(Kids(c), A2, D2) /\ Heights(Bals(c), h2)
                         /\ \A k \in A2 : Leveled(Kids(c), Bals(c), h2, k)
      BY ONLY <2>3, <2>5, ClimbWell, Zenon
    <2>7. PICK D2, h2 : Avl(Kids(c), Bals(c), A2, D2, h2)
      BY <2>6 DEF Avl
    <2>8. FoundNode(t, A, D, key, q, st)
      BY <2>1, FoundFacts
    <2>9. u = WithoutNode(c, key)
      <3>1. At(t, q) = key /\ key # Nil
        BY <2>8, KeysFacts DEF FoundNode
      <3> QED
        BY <1>0, <2>3, <3>1 DEF remove_long_map_element, Last, WithoutNode
    <2>10. /\ c \in Trees /\ c.value = t.value /\ c.num_elements = t.num_elements
           /\ \A k \in Keys : c.node[k].key = t.node[k].key
           /\ \A k \in Keys \ A : c.node[k] = t.node[k]
      <3>1. /\ c \in Trees /\ c.value = t.value /\ c.num_elements = t.num_elements
            /\ \A k \in Keys : c.node[k].key = t.node[k].key
        BY <2>4, <2>6 DEF Apart, SameRest
      <3>2. \A k \in Keys \ A : c.node[k] = v.node[k] /\ v.node[k] = t.node[k]
        BY <2>3, <2>4, <2>6 DEF Apart
      <3> QED
        BY <3>1, <3>2
    <2>11. A2 \in SUBSET Keys /\ key \notin A2
      BY <1>1, <2>3
    <2>12. /\ u \in Trees /\ (\A p \in Live(A2) : Kids(u)[p] = Kids(c)[p])
           /\ (\A k \in A2 : Bals(u)[k] = Bals(c)[k])
           /\ u.value = [c.value EXCEPT ![key] = Null] /\ u.num_elements = c.num_elements - 1
           /\ u.node[key] = Free /\ \A k \in Keys \ {key} : u.node[k] = c.node[k]
      BY ONLY <2>9, <2>10, <2>11, NodeFreed, key \in Keys
    <2>13. Avl(Kids(u), Bals(u), A2, D2, h2)
      <3>1. PICK a1, b1, a2, b2 : a1 = Kids(c) /\ b1 = Bals(c) /\ a2 = Kids(u) /\ b2 = Bals(u)
        OBVIOUS
      <3>2. /\ Avl(a1, b1, A2, D2, h2) /\ a2 \in [Places -> Pointers] /\ b2 \in [Keys -> Int]
            /\ (\A p \in Live(A2) : a2[p] = a1[p]) /\ \A k \in A2 : b2[k] = b1[k]
        BY <2>7, <2>12, <3>1, KidsType
      <3>3. Avl(a2, b2, A2, D2, h2)
        BY ONLY <3>2, AvlOn
      <3> QED
        BY <3>1, <3>3
    <2>14. \A k \in A2 : u.node[k].key = k
      BY <1>1, <2>3, <2>10, <2>11, <2>12 DEF Good
    <2>15. ASSUME NEW k \in Keys \ A2
           PROVE  u.node[k] = Free /\ u.value[k] = Null
      <3>1. CASE k = key
        BY <1>1, <2>10, <2>12, <3>1
      <3>2. CASE k # key
        <4>1. k \in Keys \ A
          BY <2>3, <3>2
        <4>2. u.node[k] = t.node[k] /\ u.value[k] = t.value[k]
          BY <1>1, <2>10, <2>12, <3>2, <4>1
        <4> QED
          BY <4>1, <4>2 DEF Good
      <3> QED
        BY <3>1, <3>2
    <2>16. u.num_elements = Cardinality(A2)
      <3>1. IsFiniteSet(A)
        BY <1>1, KeysFacts, FS_Subset
      <3>2. Cardinality(A2) = Cardinality(A) - 1
        BY <1>3, <2>3, <3>1, FS_RemoveElement
      <3> QED
        BY <2>10, <2>12, <3>2 DEF Good
    <2>17. Good(u, A2, D2, h2)
      BY <2>12, <2>13, <2>14, <2>15, <2>16 DEF Good
    <2> QED
      BY <2>3, <2>10, <2>12, <2>17
  <1> QED
    BY <1>2, <1>3

------------------------------------------------------------------------------
(* The smallest and the largest key, and a map that is destroyed. *)

\* The walk down on one side ends at the smallest or the largest key.
LEMMA Extremes ==
  ASSUME NEW t, NEW A, NEW D, NEW h, Good(t, A, D, h), A # {}
  PROVE  /\ t.root \in A
         /\ Smallest(t) \in A /\ \A x \in A : Smallest(t) <= x
         /\ Largest(t) \in A /\ \A x \in A : x <= Largest(t)
  <1>0. PICK a, k : a = Kids(t) /\ k = t.root
    OBVIOUS
  <1>1. t \in Trees /\ Shape(a, A, D)
    BY <1>0 DEF Good, Avl
  <1>2. k = a[RootPlace] /\ D[k] = A /\ k \in A /\ A \in SUBSET Nat
    <2>1. k = a[RootPlace]
      BY <1>0, <1>1, KidsType
    <2>2. D[k] = A /\ k \in A \cup {Nil} /\ D[Nil] = {} /\ A \in SUBSET Keys
      BY <1>1, <2>1, LiveFacts DEF Shape
    <2> QED
      BY <2>1, <2>2, KeysFacts
  <1>3. /\ "left" \in Sides /\ "right" \in Sides /\ Opposite("left") = "right" /\ Opposite("right") = "left"
    BY DEF Sides, Opposite
  <1>4. Chain(a, A, D, "left", k, Down(t, k, "left")) /\ Chain(a, A, D, "right", k, Down(t, k, "right"))
    BY <1>0, <1>2, <1>3, DownWell
  <1>5. ASSUME NEW s \in Sides, NEW w, Chain(a, A, D, s, k, w)
        PROVE  Last(w) \in A /\ \A x \in A : x = Last(w) \/ Before(Opposite(s), x, Last(w))
    <2>1. Len(w) \in 1 .. Len(w)
      BY <1>5 DEF Chain
    <2> QED
      BY <1>2, <1>5, <2>1 DEF Chain, Last
  <1>6. PICK v, w : v = Down(t, k, "left") /\ w = Down(t, k, "right")
    OBVIOUS
  <1>7. Last(v) \in A /\ \A x \in A : x = Last(v) \/ Last(v) < x
    <2>1. Last(v) \in A /\ \A x \in A : x = Last(v) \/ Before("right", x, Last(v))
      BY <1>3, <1>4, <1>5, <1>6
    <2> QED
      BY <2>1 DEF Before
  <1>8. Last(w) \in A /\ \A x \in A : x = Last(w) \/ x < Last(w)
    <2>1. Last(w) \in A /\ \A x \in A : x = Last(w) \/ Before("left", x, Last(w))
      BY <1>3, <1>4, <1>5, <1>6
    <2> QED
      BY <2>1 DEF Before
  <1>9. Smallest(t) = Last(v) /\ Largest(t) = Last(w)
    BY <1>0, <1>6 DEF Smallest, Largest
  <1>10. (\A x \in A : Last(v) <= x) /\ \A x \in A : x <= Last(w)
    <2>1. ASSUME NEW x \in A
          PROVE  Last(v) <= x /\ x <= Last(w)
      <3>1. PICK m, n : m = Last(v) /\ n = Last(w)
        OBVIOUS
      <3>2. m \in Nat /\ n \in Nat /\ x \in Nat /\ (x = m \/ m < x) /\ (x = n \/ x < n)
        BY <1>2, <1>7, <1>8, <3>1
      <3> QED
        BY <3>1, <3>2
    <2> QED
      BY <2>1
  <1> QED
    BY <1>0, <1>2, <1>7, <1>8, <1>9, <1>10

\* The loop of destroy_long_map_values() is well defined: one removal in each pass.
LEMMA EmptiedLoop ==
  ASSUME NEW t, t.num_elements \in Nat
  PROVE  \E rest : /\ Emptied(t) = rest[t.num_elements] /\ rest[0] = t
                   /\ \A i \in 1 .. t.num_elements :
                         rest[i] = remove_long_map_element(rest[i - 1], Smallest(rest[i - 1]))
  <1> DEFINE Pass(u) == remove_long_map_element(u, Smallest(u))
             Body(f, n) == [i \in 0 .. n |-> IF i = 0 THEN t ELSE Pass(f[i - 1])]
             rest == CHOOSE f : f = Body(f, t.num_elements)
             Bad == {n \in Nat : ~\E f : f = Body(f, n)}
  <1>1. Emptied(t) = rest[t.num_elements]
    BY DEF Emptied
  <1> HIDE DEF Pass
  <1>2. Bad = {}
    <2> SUFFICES ASSUME Bad # {}
                 PROVE  FALSE
      OBVIOUS
    <2>1. PICK n \in Bad : \A m \in Bad : n <= m
      BY LeastNatural
    <2>2. CASE n = 0
      <3> DEFINE f == [i \in 0 .. 0 |-> t]
      <3>1. f = Body(f, 0)
        OBVIOUS
      <3> QED
        BY <2>1, <2>2, <3>1
    <2>3. CASE n # 0
      <3>1. n - 1 \in Nat /\ n - 1 \notin Bad /\ n \in Nat
        <4>1. n \in Nat
          BY <2>1
        <4> HIDE DEF Bad
        <4> QED
          BY <2>1, <2>3, <4>1
      <3>2. PICK f : f = Body(f, n - 1)
        <4> HIDE DEF Body
        <4> QED
          BY <3>1
      <3> DEFINE g == [i \in 0 .. n |-> IF i = n THEN Pass(f[n - 1]) ELSE f[i]]
      <3>3. ASSUME NEW i \in 0 .. n
            PROVE  g[i] = IF i = 0 THEN t ELSE Pass(g[i - 1])
        <4>1. CASE i = n
          <5>1. g[i - 1] = f[n - 1]
            BY <2>3, <3>1, <4>1
          <5> QED
            BY <2>3, <4>1, <5>1
        <4>2. CASE i # n
          <5>1. i \in 0 .. n - 1 /\ g[i] = f[i]
            BY <3>1, <4>2
          <5>2. f[i] = IF i = 0 THEN t ELSE Pass(f[i - 1])
            BY <3>2, <5>1
          <5>3. i # 0 => g[i - 1] = f[i - 1]
            BY <3>1, <4>2
          <5> QED
            BY <5>1, <5>2, <5>3
        <4> QED
          BY <4>1, <4>2
      <3>4. g = Body(g, n)
        BY <3>3
      <3> QED
        BY <2>1, <3>4
    <2> QED
      BY <2>2, <2>3
  <1>3. \E f : f = Body(f, t.num_elements)
    BY <1>2
  <1>4. rest = Body(rest, t.num_elements)
    <2> HIDE DEF Body
    <2> QED
      BY <1>3
  <1> HIDE DEF rest
  <1>5. rest[0] = t /\ \A i \in 1 .. t.num_elements : rest[i] = Pass(rest[i - 1])
    <2>1. \A i \in 0 .. t.num_elements : rest[i] = IF i = 0 THEN t ELSE Pass(rest[i - 1])
      BY <1>4
    <2> HIDE DEF Body
    <2> QED
      BY <2>1
  <1> QED
    BY <1>1, <1>5, Zenon DEF Pass

\* A map that was destroyed has no nodes and no elements.
LEMMA EmptiedWell ==
  ASSUME NEW t, NEW A, NEW D, NEW h, Good(t, A, D, h)
  PROVE  \E D2, h2 : Good(Emptied(t), {}, D2, h2)
  <1>1. IsFiniteSet(A) /\ Cardinality(A) \in Nat /\ t.num_elements = Cardinality(A)
    <2>1. A \in SUBSET Keys /\ t.num_elements = Cardinality(A)
      BY DEF Good, Avl, Shape
    <2> QED
      BY <2>1, KeysFacts, FS_Subset, FS_CardinalityType
  <1>2. PICK n \in Nat : n = t.num_elements
    BY <1>1
  <1>3. PICK rest : /\ Emptied(t) = rest[n] /\ rest[0] = t
                    /\ \A i \in 1 .. n : rest[i] = remove_long_map_element(rest[i - 1], Smallest(rest[i - 1]))
    BY <1>1, <1>2, EmptiedLoop
  <1> DEFINE Holds(i) == \E A1, D1, h1 : Good(rest[i], A1, D1, h1) /\ Cardinality(A1) = n - i
             Bad == {i \in Nat : i <= n /\ ~Holds(i)}
  <1>4. Holds(0)
    BY <1>1, <1>2, <1>3
  <1>5. ASSUME NEW i \in Nat, i + 1 <= n, Holds(i)
        PROVE  Holds(i + 1)
    <2>1. PICK A1, D1, h1 : Good(rest[i], A1, D1, h1) /\ Cardinality(A1) = n - i
      BY <1>5
    <2>2. PICK u, k, v : u = rest[i] /\ k = Smallest(u) /\ v = rest[i + 1]
      OBVIOUS
    <2>3. v = remove_long_map_element(u, k)
      <3>1. i + 1 \in 1 .. n /\ (i + 1) - 1 = i
        BY <1>5
      <3> QED
        BY <1>3, <2>2, <3>1
    <2>4. IsFiniteSet(A1) /\ A1 \in SUBSET Keys
      <3>1. A1 \in SUBSET Keys
        BY <2>1 DEF Good, Avl, Shape
      <3> QED
        BY <3>1, KeysFacts, FS_Subset
    <2>5. A1 # {}
      <3>1. Cardinality(A1) # 0
        BY <1>5, <2>1
      <3> QED
        BY <3>1, FS_EmptySet
    <2>6. Good(u, A1, D1, h1) /\ k \in A1 /\ k \in Keys
      BY <2>1, <2>2, <2>4, <2>5, Extremes
    <2>7. \E D2, h2 : Good(v, A1 \ {k}, D2, h2)
      BY ONLY <2>3, <2>6, RemoveWell
    <2>8. Cardinality(A1 \ {k}) = Cardinality(A1) - 1
      BY <2>4, <2>6, FS_RemoveElement
    <2>9. Cardinality(A1 \ {k}) = n - (i + 1)
      BY <1>5, <2>1, <2>8
    <2> QED
      BY <2>2, <2>7, <2>9
  <1>6. Bad = {}
    <2> SUFFICES ASSUME Bad # {}
                 PROVE  FALSE
      OBVIOUS
    <2> HIDE DEF Holds
    <2>1. PICK m \in Bad : \A j \in Bad : m <= j
      BY LeastNatural
    <2>2. m # 0
      BY <1>4, <2>1
    <2>3. PICK j : j = m - 1
      OBVIOUS
    <2>4. j \in Nat /\ Holds(j) /\ j + 1 = m /\ j + 1 <= n
      BY <2>1, <2>2, <2>3
    <2>5. Holds(m)
      BY <1>5, <2>4
    <2> QED
      BY <2>1, <2>5
  <1>7. Holds(n)
    <2> HIDE DEF Holds
    <2> QED
      BY <1>6
  <1>8. PICK A1, D1, h1 : Good(rest[n], A1, D1, h1) /\ Cardinality(A1) = n - n
    BY <1>7
  <1>9. A1 = {}
    <2>1. A1 \in SUBSET Keys /\ Cardinality(A1) = 0
      BY <1>8 DEF Good, Avl, Shape
    <2>2. IsFiniteSet(A1)
      BY <2>1, KeysFacts, FS_Subset
    <2> QED
      BY <2>1, <2>2, FS_EmptySet
  <1> QED
    BY <1>3, <1>8, <1>9

------------------------------------------------------------------------------
(* Walks over the whole tree. *)

\* The children of a node in use are null or in use, and lower; a key not in use has none.
LEMMA GoodKids ==
  ASSUME NEW t, NEW A, NEW D, NEW h, Good(t, A, D, h), NEW k \in Keys
  PROVE  /\ t.node[k].left = Kids(t)[<<k, "left">>] /\ t.node[k].right = Kids(t)[<<k, "right">>]
         /\ t.node[k].left \in A \cup {Nil} /\ t.node[k].right \in A \cup {Nil}
         /\ k \notin A => t.node[k].left = Nil /\ t.node[k].right = Nil
         /\ k \in A => /\ h[t.node[k].left] < h[k] /\ h[t.node[k].right] < h[k]
                       /\ h[t.node[k].left] \in Nat /\ h[t.node[k].right] \in Nat /\ h[k] \in Nat
  <1>0. t \in Trees /\ Avl(Kids(t), Bals(t), A, D, h) /\ "left" \in Sides /\ "right" \in Sides
    BY DEF Good, Sides
  <1>1. /\ t.node[k].left = Kids(t)[<<k, "left">>] /\ t.node[k].right = Kids(t)[<<k, "right">>]
        /\ <<k, "left">> \in Places /\ <<k, "right">> \in Places
    BY <1>0, KidsType, PlacesFacts
  <1>2. /\ t.node[k].left \in A \cup {Nil} /\ t.node[k].right \in A \cup {Nil}
    BY <1>1, GoodPointers
  <1>3. k \notin A => t.node[k].left = Nil /\ t.node[k].right = Nil
    BY DEF Good, Free
  <1>4. ASSUME k \in A
        PROVE  /\ h[t.node[k].left] < h[k] /\ h[t.node[k].right] < h[k]
               /\ h[t.node[k].left] \in Nat /\ h[t.node[k].right] \in Nat /\ h[k] \in Nat
    <2>1. PICK a, b : a = Kids(t) /\ b = Bals(t)
      OBVIOUS
    <2>2. Avl(a, b, A, D, h)
      BY <1>0, <2>1
    <2>3. \A s \in Sides : h[a[<<k, s>>]] \in Nat /\ h[k] \in Nat /\ h[a[<<k, s>>]] < h[k]
      BY ONLY <1>4, <2>2, ChildLower
    <2> QED
      BY <1>0, <1>1, <2>1, <2>3
  <1> QED
    BY <1>1, <1>2, <1>3, <1>4

\* The recursion of Height is well defined, and gives the heights.
LEMMA HeightIs ==
  ASSUME NEW t, NEW A, NEW D, NEW h, Good(t, A, D, h)
  PROVE  \A k \in A \cup {Nil} : Height(t)[k] = h[k]
  <1> DEFINE Step(k, f) == IF k = Nil THEN 0
                           ELSE LET l == f[t.node[k].left]
                                    r == f[t.node[k].right]
                                IN  1 + IF l > r THEN l ELSE r
             height == CHOOSE f : f = [k \in Pointers |-> Step(k, f)]
             H == [k \in Pointers |-> IF k \in A \cup {Nil} THEN h[k] ELSE 1]
  <1>0. /\ t \in Trees /\ Shape(Kids(t), A, D) /\ Heights(Bals(t), h)
        /\ A \in SUBSET Keys /\ A \in SUBSET Pointers /\ Nil \notin A /\ Nil \in Pointers
        /\ \A k \in A : Leveled(Kids(t), Bals(t), h, k)
    <2>1. /\ t \in Trees /\ Shape(Kids(t), A, D) /\ Heights(Bals(t), h)
          /\ \A k \in A : Leveled(Kids(t), Bals(t), h, k)
      BY DEF Good, Avl
    <2> QED
      BY <2>1, LiveFacts DEF Pointers
  <1>1. Height(t) = height
    BY DEF Height
  <1>2. h[Nil] = 0 /\ h \in [Pointers -> Nat]
    BY <1>0 DEF Heights
  <1>3. ASSUME NEW k \in Pointers
        PROVE  H[k] = Step(k, H)
    <2>1. CASE k = Nil
      BY <1>2, <2>1
    <2>2. CASE k # Nil
      <3>1. k \in Keys
        BY <2>2 DEF Pointers
      <3>2. PICK l, r : l = t.node[k].left /\ r = t.node[k].right
        OBVIOUS
      <3>3. /\ l = Kids(t)[<<k, "left">>] /\ r = Kids(t)[<<k, "right">>]
            /\ l \in A \cup {Nil} /\ r \in A \cup {Nil}
            /\ (k \notin A => l = Nil /\ r = Nil)
        BY <3>1, <3>2, GoodKids
      <3>4. H[l] = h[l] /\ H[r] = h[r] /\ h[l] \in Nat /\ h[r] \in Nat
        BY <1>0, <1>2, <3>3
      <3>5. Step(k, H) = 1 + IF h[l] > h[r] THEN h[l] ELSE h[r]
        BY <2>2, <3>2, <3>4
      <3>6. CASE k \in A
        <4>1. "left" \in Sides /\ Opposite("left") = "right"
          BY DEF Sides, Opposite
        <4>2. h[k] = 1 + Higher(h[l], h[r])
          BY <1>0, <3>3, <3>6, <4>1 DEF Leveled
        <4> QED
          BY <3>5, <3>6, <4>2 DEF Higher
      <3>7. CASE k \notin A
        BY <1>2, <2>2, <3>3, <3>5, <3>7
      <3> QED
        BY <3>6, <3>7
    <2> QED
      BY <2>1, <2>2
  <1> HIDE DEF Step
  <1>4. H = [k \in Pointers |-> Step(k, H)]
    BY <1>3
  <1>5. height = [k \in Pointers |-> Step(k, height)]
    <2> HIDE DEF H
    <2> QED
      BY <1>4
  <1> HIDE DEF height, H
  <1>6. \A k \in Pointers : height[k] = Step(k, height)
    BY <1>5
  <1> DEFINE Bad == {n \in Nat : \E k \in A \cup {Nil} : h[k] = n /\ height[k] # h[k]}
  <1>7. Bad = {}
    <2> SUFFICES ASSUME Bad # {}
                 PROVE  FALSE
      OBVIOUS
    <2>1. PICK n \in Bad : \A m \in Bad : n <= m
      BY LeastNatural
    <2>2. PICK k \in A \cup {Nil} : h[k] = n /\ height[k] # h[k]
      BY <2>1
    <2>3. k # Nil
      <3>1. height[Nil] = 0
        BY <1>0, <1>6 DEF Step
      <3> QED
        BY <1>2, <2>2, <3>1
    <2>4. k \in A /\ k \in Keys /\ k \in Pointers
      BY <1>0, <2>3
    <2>5. PICK l, r : l = t.node[k].left /\ r = t.node[k].right
      OBVIOUS
    <2>6. /\ l = Kids(t)[<<k, "left">>] /\ r = Kids(t)[<<k, "right">>]
          /\ l \in A \cup {Nil} /\ r \in A \cup {Nil}
          /\ h[l] < h[k] /\ h[r] < h[k] /\ h[l] \in Nat /\ h[r] \in Nat
      BY <2>4, <2>5, GoodKids
    <2>7. height[l] = h[l] /\ height[r] = h[r]
      BY <2>1, <2>2, <2>6
    <2>8. "left" \in Sides /\ Opposite("left") = "right"
      BY DEF Sides, Opposite
    <2>9. h[k] = 1 + Higher(h[l], h[r])
      BY <1>0, <2>4, <2>6, <2>8 DEF Leveled
    <2>10. height[k] = 1 + IF h[l] > h[r] THEN h[l] ELSE h[r]
      BY <1>6, <2>3, <2>4, <2>5, <2>7 DEF Step
    <2> QED
      BY <2>2, <2>9, <2>10 DEF Higher
  <1>8. ASSUME NEW k \in A \cup {Nil}
        PROVE  height[k] = h[k]
    <2>1. h[k] \in Nat
      BY <1>0, <1>2
    <2> QED
      BY <1>7, <2>1
  <1> QED
    BY <1>1, <1>8

\* The recursion of InOrder is well defined: it goes from higher to lower subtrees.
LEMMA InOrderWalk ==
  ASSUME NEW t, NEW A, NEW D, NEW h, Good(t, A, D, h)
  PROVE  \E walk : /\ InOrder(t) = walk[t.root]
                   /\ \A k \in Pointers :
                        walk[k] = IF k = Nil THEN << >>
                                  ELSE walk[t.node[k].left] \o <<k>> \o walk[t.node[k].right]
  <1> DEFINE Step(k, f) == IF k = Nil THEN << >>
                           ELSE f[t.node[k].left] \o <<k>> \o f[t.node[k].right]
             T == Seq(Keys)
             G == [z \in Pointers \X [Pointers -> T] |-> Step(z[1], z[2])]
             walk == CHOOSE f : f = [k \in Pointers |-> Step(k, f)]
             rank == [k \in Pointers |-> IF k = Nil THEN 0 ELSE IF k \in A THEN h[k] ELSE 1]
  <1>0. t \in Trees /\ Avl(Kids(t), Bals(t), A, D, h) /\ A \in SUBSET Keys /\ A \in SUBSET Pointers
        /\ Nil \notin A /\ h[Nil] = 0
    <2>1. t \in Trees /\ Avl(Kids(t), Bals(t), A, D, h) /\ Shape(Kids(t), A, D)
      BY DEF Good, Avl
    <2> QED
      BY <2>1, LiveFacts DEF Avl, Heights
  <1>1. InOrder(t) = walk[t.root]
    BY DEF InOrder
  <1>2. PICK N \in Nat : \A j \in A \cup {Nil} : h[j] \in 0 .. N
    BY <1>0, RootHighest
  <1>3. rank \in [Pointers -> 0 .. N + 1]
    BY <1>2
  <1>4. ASSUME NEW k \in Pointers, k # Nil
        PROVE  /\ t.node[k].left \in Pointers /\ rank[t.node[k].left] < rank[k]
               /\ t.node[k].right \in Pointers /\ rank[t.node[k].right] < rank[k] /\ k \in Keys
    <2>1. k \in Keys
      BY <1>4 DEF Pointers
    <2>2. PICK l, r : l = t.node[k].left /\ r = t.node[k].right
      OBVIOUS
    <2>3. /\ l \in A \cup {Nil} /\ r \in A \cup {Nil}
          /\ (k \notin A => l = Nil /\ r = Nil)
          /\ k \in A => /\ h[l] < h[k] /\ h[r] < h[k]
                        /\ h[l] \in Nat /\ h[r] \in Nat /\ h[k] \in Nat
      BY <2>1, <2>2, GoodKids
    <2>4. l \in Pointers /\ r \in Pointers
      BY <1>0, <2>3 DEF Pointers
    <2>5. rank[l] < rank[k] /\ rank[r] < rank[k]
      BY <1>0, <1>4, <2>3, <2>4
    <2> QED
      BY <2>1, <2>2, <2>4, <2>5
  <1> HIDE DEF rank
  <1>5. G \in [Pointers \X [Pointers -> T] -> T]
    <2> SUFFICES ASSUME NEW k \in Pointers, NEW f \in [Pointers -> T]
                 PROVE  Step(k, f) \in T
      OBVIOUS
    <2>1. CASE k = Nil
      BY <2>1
    <2>2. CASE k # Nil
      <3>1. f[t.node[k].left] \in T /\ f[t.node[k].right] \in T /\ <<k>> \in T
        BY ONLY <1>4, <2>2
      <3> QED
        BY <2>2, <3>1
    <2> QED
      BY <2>1, <2>2
  <1>6. \A k \in Pointers : \A f, g \in [Pointers -> T] :
            (\A q \in Pointers : rank[q] < rank[k] => f[q] = g[q]) => G[<<k, f>>] = G[<<k, g>>]
    <2> SUFFICES ASSUME NEW k \in Pointers, NEW f \in [Pointers -> T], NEW g \in [Pointers -> T],
                        \A q \in Pointers : rank[q] < rank[k] => f[q] = g[q]
                 PROVE  G[<<k, f>>] = G[<<k, g>>]
      BY Zenon
    <2> QED
      BY <1>4, Zenon
  <1>7. << >> \in T
    OBVIOUS
  <1>8. \A k \in Pointers : \A f \in [Pointers -> T] : G[<<k, f>>] = Step(k, f)
    BY Zenon
  <1> HIDE DEF G, T
  <1>9. PICK f \in [Pointers -> T] : \A k \in Pointers : f[k] = G[<<k, f>>]
    <2>1. PICK M : M = N + 1
      OBVIOUS
    <2>2. Ranked(Pointers, T, M, rank, << >>, G)
      <3>1. M \in Nat /\ rank \in [Pointers -> 0 .. M]
        BY <1>3, <2>1
      <3> QED
        BY ONLY <1>5, <1>6, <1>7, <3>1 DEF Ranked
    <2> QED
      BY ONLY <2>2, RecursiveFunction
  <1>10. \A k \in Pointers : f[k] = Step(k, f)
    BY <1>8, <1>9
  <1> HIDE DEF Step
  <1>11. f = [k \in Pointers |-> Step(k, f)]
    BY <1>10
  <1>12. walk = [k \in Pointers |-> Step(k, walk)]
    BY <1>11
  <1> HIDE DEF walk
  <1>13. \A k \in Pointers : walk[k] = Step(k, walk)
    BY <1>12
  <1> QED
    BY <1>1, <1>13 DEF Step

\* w lists the set S in order.
Sorted(S, w) ==
    /\ S \in SUBSET Keys /\ IsFiniteSet(S) /\ w \in Seq(Keys) /\ Len(w) = Cardinality(S)
    /\ \A i \in 1 .. Len(w) : w[i] \in S
    /\ \A x \in S : \E i \in 1 .. Len(w) : w[i] = x
    /\ \A i \in 1 .. Len(w) - 1 : w[i] < w[i + 1]

\* The list of one node is in order.
LEMMA SortedOne ==
  ASSUME NEW k \in Keys
  PROVE  Sorted({k}, <<k>>)
  <1>1. IsFiniteSet({k}) /\ Cardinality({k}) = 1
    BY FS_Singleton
  <1>2. <<k>> \in Seq(Keys) /\ Len(<<k>>) = 1 /\ <<k>>[1] = k
    OBVIOUS
  <1> QED
    BY <1>1, <1>2 DEF Sorted

\* The list of no nodes is in order.
LEMMA SortedNone == Sorted({}, << >>)
  <1>1. IsFiniteSet({}) /\ Cardinality({}) = 0
    BY FS_EmptySet
  <1>2. << >> \in Seq(Keys) /\ Len(<< >>) = 0
    OBVIOUS
  <1> QED
    BY <1>1, <1>2 DEF Sorted

\* Two lists in order, of which the first has the smaller keys, are one in order.
LEMMA SortedJoin ==
  ASSUME NEW S, NEW T, NEW u, NEW v, Sorted(S, u), Sorted(T, v), \A x \in S, y \in T : x < y,
         NEW w, w = u \o v
  PROVE  Sorted(S \cup T, w)
  <1>1. /\ S \in SUBSET Keys /\ IsFiniteSet(S) /\ u \in Seq(Keys) /\ Len(u) = Cardinality(S)
        /\ (\A i \in 1 .. Len(u) : u[i] \in S)
        /\ (\A x \in S : \E i \in 1 .. Len(u) : u[i] = x)
        /\ \A i \in 1 .. Len(u) - 1 : u[i] < u[i + 1]
    BY DEF Sorted
  <1>2. /\ T \in SUBSET Keys /\ IsFiniteSet(T) /\ v \in Seq(Keys) /\ Len(v) = Cardinality(T)
        /\ (\A i \in 1 .. Len(v) : v[i] \in T)
        /\ (\A x \in T : \E i \in 1 .. Len(v) : v[i] = x)
        /\ \A i \in 1 .. Len(v) - 1 : v[i] < v[i + 1]
    BY DEF Sorted
  <1>3. Appended(Keys, u, v, w)
    BY ONLY <1>1, <1>2, AppendedFacts, w = u \o v
  <1>4. PICK m, n : m = Len(u) /\ n = Len(v)
    OBVIOUS
  <1>5. /\ m \in Nat /\ n \in Nat /\ w \in Seq(Keys) /\ Len(w) = m + n
        /\ (\A i \in 1 .. m : w[i] = u[i]) /\ \A i \in 1 .. n : w[m + i] = v[i]
    BY <1>3, <1>4 DEF Appended
  <1>6. IsFiniteSet(S \cup T) /\ Cardinality(S \cup T) = m + n
    <2>1. S \cap T = {}
      <3>1. \A x \in S \cap T : x < x /\ x \in Nat
        BY <1>1, KeysFacts
      <3> QED
        BY <3>1
    <2> QED
      <3>1. /\ IsFiniteSet(S \cup T)
            /\ Cardinality(S \cup T) = Cardinality(S) + Cardinality(T) - Cardinality(S \cap T)
        BY ONLY <1>1, <1>2, FS_Union
      <3>2. Cardinality(S \cap T) = 0
        BY <2>1, FS_EmptySet
      <3> QED
        BY ONLY <1>1, <1>2, <1>4, <1>5, <3>1, <3>2
  <1>7. \A i \in 1 .. m + n : i \in 1 .. m \/ \E j \in 1 .. n : i = m + j
    <2> SUFFICES ASSUME NEW i \in 1 .. m + n, i \notin 1 .. m
                 PROVE  \E j \in 1 .. n : i = m + j
      OBVIOUS
    <2>1. i - m \in 1 .. n /\ i = m + (i - m)
      BY <1>5
    <2> QED
      BY <2>1
  <1>8. \A i \in 1 .. m + n : w[i] \in S \cup T
    BY <1>1, <1>2, <1>4, <1>5, <1>7
  <1>9. ASSUME NEW x \in S \cup T
        PROVE  \E i \in 1 .. m + n : w[i] = x
    <2>1. CASE x \in S
      <3>1. PICK i \in 1 .. m : u[i] = x
        BY <1>1, <1>4, <2>1
      <3>2. i \in 1 .. m + n /\ w[i] = x
        BY <1>5, <3>1
      <3> QED
        BY <3>2
    <2>2. CASE x \in T
      <3>1. PICK i \in 1 .. n : v[i] = x
        BY <1>2, <1>4, <2>2
      <3>2. m + i \in 1 .. m + n /\ w[m + i] = x
        BY <1>5, <3>1
      <3> QED
        BY <3>2
    <2> QED
      BY <2>1, <2>2
  <1>10. ASSUME NEW i \in 1 .. (m + n) - 1
         PROVE  w[i] < w[i + 1]
    <2>1. CASE i < m
      <3>1. i \in 1 .. m /\ i + 1 \in 1 .. m /\ i \in 1 .. m - 1
        BY <1>5, <2>1
      <3> QED
        BY <1>1, <1>4, <1>5, <3>1
    <2>2. CASE i = m
      <3>1. i \in 1 .. m /\ 1 \in 1 .. n
        BY <1>5, <2>2
      <3>2. w[i] \in S /\ w[m + 1] \in T
        BY <1>1, <1>2, <1>4, <1>5, <3>1
      <3> QED
        BY <2>2, <3>2
    <2>3. CASE i > m
      <3>1. PICK j : j = i - m
        OBVIOUS
      <3>2. j \in 1 .. n /\ j + 1 \in 1 .. n /\ j \in 1 .. n - 1 /\ i = m + j /\ i + 1 = m + (j + 1)
        BY <1>5, <2>3, <3>1
      <3>3. w[m + j] = v[j] /\ w[m + (j + 1)] = v[j + 1] /\ v[j] < v[j + 1]
        BY <1>2, <1>4, <1>5, <3>2
      <3> QED
        BY <3>2, <3>3
    <2> QED
      BY <1>5, <2>1, <2>2, <2>3
  <1> QED
    BY <1>1, <1>2, <1>5, <1>6, <1>8, <1>9, <1>10 DEF Sorted

\* The walk in order lists the nodes in use, each once and by increasing keys.
LEMMA InOrderSorted ==
  ASSUME NEW t, NEW A, NEW D, NEW h, Good(t, A, D, h)
  PROVE  Sorted(A, InOrder(t))
  <1>0. PICK a, b : a = Kids(t) /\ b = Bals(t)
    OBVIOUS
  <1>1. t \in Trees /\ Shape(a, A, D) /\ Heights(b, h)
    BY <1>0 DEF Good, Avl
  <1>2. /\ A \in SUBSET Keys /\ A \in SUBSET Pointers /\ Nil \notin A /\ D[Nil] = {} /\ Nil \in Pointers
        /\ h \in [Pointers -> Nat] /\ D \in [Pointers -> SUBSET Keys] /\ D[a[RootPlace]] = A
        /\ a[RootPlace] \in A \cup {Nil} /\ t.root = a[RootPlace]
    <2>1. RootPlace \in Live(A) /\ A \in SUBSET Keys /\ A \in SUBSET Pointers /\ Nil \notin A
      BY <1>1, LiveFacts
    <2>2. t.root = a[RootPlace]
      BY <1>0, <1>1, KidsType
    <2> QED
      BY <1>1, <2>1, <2>2 DEF Shape, Heights, Pointers
  <1>3. PICK walk : /\ InOrder(t) = walk[t.root]
                    /\ \A k \in Pointers :
                        walk[k] = IF k = Nil THEN << >>
                                  ELSE walk[t.node[k].left] \o <<k>> \o walk[t.node[k].right]
    BY InOrderWalk
  <1> DEFINE Holds(k) == Sorted(D[k], walk[k])
             Bad == {n \in Nat : \E k \in A \cup {Nil} : h[k] = n /\ ~Holds(k)}
  <1>4. Holds(Nil)
    BY <1>2, <1>3, SortedNone
  <1>5. ASSUME NEW k \in A, \A j \in A \cup {Nil} : h[j] < h[k] => Holds(j)
        PROVE  Holds(k)
    <2>1. PICK l, r : l = t.node[k].left /\ r = t.node[k].right
      OBVIOUS
    <2>2. k \in Keys /\ k \in Pointers /\ k # Nil
      BY <1>2
    <2>3. /\ l = a[<<k, "left">>] /\ r = a[<<k, "right">>] /\ l \in A \cup {Nil} /\ r \in A \cup {Nil}
          /\ h[l] < h[k] /\ h[r] < h[k]
      BY <1>0, <2>1, <2>2, GoodKids
    <2>4. Sorted(D[l], walk[l]) /\ Sorted(D[r], walk[r])
      BY <1>5, <2>3
    <2>5. "left" \in Sides /\ "right" \in Sides /\ Opposite("left") = "right" /\ Opposite("right") = "left"
      BY DEF Sides, Opposite
    <2>6. /\ D[k] = {k} \cup D[l] \cup D[r] /\ \A x \in D[l] : Before("left", x, k)
      <3>1. k \in A /\ l = a[<<k, "left">>] /\ r = a[<<k, Opposite("left")>>] /\ Shape(a, A, D) /\ "left" \in Sides
        BY <1>1, <2>3, <2>5
      <3> QED
        BY ONLY <3>1, ChildFacts
    <2>7. \A x \in D[r] : Before("right", x, k)
      <3>1. k \in A /\ r = a[<<k, "right">>] /\ l = a[<<k, Opposite("right")>>] /\ Shape(a, A, D) /\ "right" \in Sides
        BY <1>1, <2>3, <2>5
      <3> QED
        BY ONLY <3>1, ChildFacts
    <2>8. (\A x \in D[l] : x < k) /\ \A x \in D[r] : k < x
      BY <2>6, <2>7 DEF Before
    <2>9. PICK u, v, w : u = walk[l] \o <<k>> /\ v = walk[r] /\ w = u \o v
      OBVIOUS
    <2>10. Sorted(D[l] \cup {k}, u)
      <3>1. PICK S, T, x, y : S = D[l] /\ T = {k} /\ x = walk[l] /\ y = <<k>>
        OBVIOUS
      <3>2. Sorted(S, x) /\ Sorted(T, y) /\ (\A i \in S, j \in T : i < j) /\ u = x \o y
        BY <2>2, <2>4, <2>8, <2>9, <3>1, SortedOne
      <3>3. Sorted(S \cup T, u)
        BY ONLY <3>2, SortedJoin
      <3> QED
        BY <3>1, <3>3
    <2>11. Sorted(D[k], w)
      <3>1. PICK S, T : S = D[l] \cup {k} /\ T = D[r]
        OBVIOUS
      <3>2. \A i \in S, j \in T : i < j
        <4>1. D[l] \in SUBSET Nat /\ D[r] \in SUBSET Nat /\ k \in Nat
          BY <2>2, <2>4, KeysFacts DEF Sorted
        <4>2. \A i \in D[l], j \in D[r] : i < k /\ k < j /\ i \in Nat /\ j \in Nat
          BY <2>8, <4>1
        <4>3. \A i \in D[l], j \in D[r] : i < j
          BY ONLY <4>1, <4>2
        <4> QED
          BY <2>8, <3>1, <4>3
      <3>3. Sorted(S, u) /\ Sorted(T, v) /\ w = u \o v
        BY <2>4, <2>9, <2>10, <3>1
      <3>4. Sorted(S \cup T, w)
        BY ONLY <3>2, <3>3, SortedJoin, Zenon
      <3>5. S \cup T = D[k]
        BY <2>6, <3>1
      <3> QED
        BY <3>4, <3>5
    <2>12. walk[k] = w
      BY <1>3, <2>1, <2>2, <2>9, Zenon
    <2> QED
      BY <2>11, <2>12
  <1> HIDE DEF Holds
  <1>6. Bad = {}
    <2> SUFFICES ASSUME Bad # {}
                 PROVE  FALSE
      OBVIOUS
    <2>1. PICK n \in Bad : \A m \in Bad : n <= m
      BY LeastNatural
    <2>2. PICK k \in A \cup {Nil} : h[k] = n /\ ~Holds(k)
      BY <2>1
    <2>3. k \in A
      BY <1>4, <2>2
    <2>4. \A j \in A \cup {Nil} : h[j] \in Nat
      BY <1>2
    <2>5. \A j \in A \cup {Nil} : h[j] < h[k] => Holds(j)
      BY <2>1, <2>2, <2>4
    <2> QED
      BY <1>5, <2>2, <2>3, <2>5
  <1>7. \A k \in A \cup {Nil} : Holds(k)
    <2>1. \A j \in A \cup {Nil} : h[j] \in Nat
      BY <1>2
    <2> QED
      BY <1>6, <2>1
  <1> QED
    BY <1>2, <1>3, <1>7 DEF Holds

-----------------------------------------------------------------------------
(* What the properties say of a well-formed map. *)

\* The inductive invariant: for some set A of keys, the nodes in use, the tree is a search
\* tree of exactly these nodes, in which D is what is below each node and h its height.
TreeInv == \E A, D, h : Good(lm, A, D, h)

\* The nodes in use are those that are allocated, and there are as many as counted.
LEMMA AllocatedAre ==
  ASSUME NEW A, NEW D, NEW h, Good(lm, A, D, h)
  PROVE  Allocated = A /\ lm.num_elements \in 0 .. Cardinality(Keys)
  <1>1. /\ lm \in Trees /\ A \in SUBSET Keys /\ lm.num_elements = Cardinality(A)
        /\ \A k \in A : lm.node[k].key = k
        /\ \A k \in Keys \ A : lm.node[k] = Free
    <2>1. Shape(Kids(lm), A, D)
      BY DEF Good, Avl
    <2> QED
      BY <2>1 DEF Good, Shape
  <1>2. \A k \in A : lm.node[k] # Free
    BY <1>1, KeysFacts DEF Free
  <1>3. Allocated = A
    BY <1>1, <1>2 DEF Allocated
  <1>4. IsFiniteSet(A) /\ Cardinality(A) <= Cardinality(Keys)
    BY <1>1, KeysFacts, FS_Subset
  <1>5. Cardinality(A) \in Nat
    BY <1>4, FS_CardinalityType
  <1> QED
    BY <1>1, <1>3, <1>4, <1>5, KeysFacts

\* The walk over the tree finds the elements of the nodes in use.
LEMMA ContentsAre ==
  ASSUME NEW t, NEW A, NEW D, NEW h, Good(t, A, D, h)
  PROVE  Contents(t) = {<<k, t.value[k]>> : k \in A}
  <1>1. Sorted(A, InOrder(t))
    BY InOrderSorted
  <1>2. PICK w : w = InOrder(t)
    OBVIOUS
  <1>3. DOMAIN w = 1 .. Len(w)
    BY <1>1, <1>2 DEF Sorted
  <1>4. ToSet(w) = A
    BY <1>1, <1>2, <1>3 DEF Sorted, ToSet
  <1> QED
    BY <1>2, <1>4 DEF Contents

\* A search finds the element of each key, and none where there is none.
LEMMA GetFinds ==
  ASSUME NEW t, NEW A, NEW D, NEW h, Good(t, A, D, h), NEW key \in Keys
  PROVE  get_long_map_element(t, key) = t.value[key]
  <1>1. PICK w, a : w = Path(t, key) /\ a = Kids(t)
    OBVIOUS
  <1>2. Leads(a, A, D, key, RootPlace, w)
    BY <1>1, PathLeads
  <1>3. t \in Trees /\ Shape(a, A, D)
    BY <1>1 DEF Good, Avl
  <1>4. PICK q : q = w[Len(w)]
    OBVIOUS
  <1>5. /\ w \in Seq(Places) /\ Len(w) >= 1
        /\ a[q] \in {key, Nil} /\ (key \in A => a[q] = key)
    BY <1>2, <1>3, <1>4 DEF Leads, Shape
  <1>6. Last(w) = q /\ q \in Places
    BY <1>4, <1>5 DEF Last
  <1>7. At(t, q) = a[q]
    BY <1>1, <1>3, <1>6, KidsType
  <1>8. CASE a[q] = Nil
    <2>1. key \notin A
      BY <1>5, <1>8, KeysFacts
    <2>2. t.value[key] = Null
      BY <2>1 DEF Good
    <2> QED
      BY <1>1, <1>6, <1>7, <1>8, <2>2 DEF get_long_map_element
  <1>9. CASE a[q] = key /\ key # Nil
    BY <1>1, <1>6, <1>7, <1>9 DEF get_long_map_element
  <1> QED
    BY <1>5, <1>8, <1>9, KeysFacts

\* Setting an element replaces the pair of its key in what a walk finds.
LEMMA SetContents ==
  ASSUME NEW t, NEW A, NEW D, NEW h, Good(t, A, D, h), NEW key \in Keys, NEW e \in Stored
  PROVE  Contents(set_long_map_element(t, key, e))
            = {c \in Contents(t) : c[1] # key} \cup {<<key, e>>}
  <1>1. PICK u : u = set_long_map_element(t, key, e)
    OBVIOUS
  <1>2. PICK D2, h2 : Good(u, A \cup {key}, D2, h2)
    BY <1>1, SetWell
  <1>3. u.value = [t.value EXCEPT ![key] = e]
    <2>1. HoldsNow(t, key, e, u)
      BY <1>1, SetWell
    <2> QED
      BY <2>1 DEF HoldsNow
  <1>4. t.value \in [Keys -> Stored \cup {Null}] /\ A \in SUBSET Keys
    <2>1. t \in Trees /\ Shape(Kids(t), A, D)
      BY DEF Good, Avl
    <2>2. t.value \in [Keys -> Stored \cup {Null}]
      BY ONLY <2>1 DEF Trees
    <2> QED
      BY <2>1, <2>2 DEF Shape
  <1>5. Contents(u) = {<<k, u.value[k]>> : k \in A \cup {key}}
    BY <1>2, ContentsAre
  <1>6. Contents(t) = {<<k, t.value[k]>> : k \in A}
    BY ContentsAre
  <1>7. u.value[key] = e /\ \A k \in A : k # key => u.value[k] = t.value[k]
    BY <1>3, <1>4
  <1>8. {c \in Contents(t) : c[1] # key} = {<<k, t.value[k]>> : k \in A \ {key}}
    BY <1>6
  <1>9. Contents(u) = {<<k, t.value[k]>> : k \in A \ {key}} \cup {<<key, e>>}
    BY <1>5, <1>7
  <1> QED
    BY <1>1, <1>8, <1>9

\* Removing an element takes the pair of its key out of what a walk finds.
LEMMA RemoveContents ==
  ASSUME NEW t, NEW A, NEW D, NEW h, Good(t, A, D, h), NEW key \in Keys
  PROVE  Contents(remove_long_map_element(t, key)) = {c \in Contents(t) : c[1] # key}
  <1>1. PICK u : u = remove_long_map_element(t, key)
    OBVIOUS
  <1>2. PICK D2, h2 : Good(u, A \ {key}, D2, h2)
    BY <1>1, RemoveWell
  <1>3. u.value = [t.value EXCEPT ![key] = Null]
    BY <1>1, RemoveWell
  <1>4. t.value \in [Keys -> Stored \cup {Null}] /\ A \in SUBSET Keys
    <2>1. t \in Trees /\ Shape(Kids(t), A, D)
      BY DEF Good, Avl
    <2>2. t.value \in [Keys -> Stored \cup {Null}]
      BY ONLY <2>1 DEF Trees
    <2> QED
      BY <2>1, <2>2 DEF Shape
  <1>5. Contents(u) = {<<k, u.value[k]>> : k \in A \ {key}}
    BY <1>2, ContentsAre
  <1>6. Contents(t) = {<<k, t.value[k]>> : k \in A}
    BY ContentsAre
  <1>7. \A k \in A \ {key} : u.value[k] = t.value[k]
    BY <1>3, <1>4
  <1>8. {c \in Contents(t) : c[1] # key} = {<<k, t.value[k]>> : k \in A \ {key}}
    BY <1>6
  <1>9. Contents(u) = {<<k, t.value[k]>> : k \in A \ {key}}
    BY <1>5, <1>7
  <1> QED
    BY <1>1, <1>8, <1>9

\* Of a well-formed map, the balances are the differences of heights.
LEMMA GoodBalanced == TreeInv => Balanced
  <1> SUFFICES ASSUME TreeInv
               PROVE  Balanced
    OBVIOUS
  <1>1. PICK A, D, h : Good(lm, A, D, h)
    BY DEF TreeInv
  <1>2. Allocated = A /\ lm.num_elements \in 0 .. Cardinality(Keys)
    BY <1>1, AllocatedAre
  <1>3. PICK a, b : a = Kids(lm) /\ b = Bals(lm)
    OBVIOUS
  <1>4. /\ lm \in Trees /\ Shape(a, A, D) /\ A \in SUBSET Keys
        /\ \A k \in A : lm.node[k].key = k
        /\ \A k \in A : Leveled(a, b, h, k)
    <2>1. Shape(a, A, D)
      BY <1>1, <1>3 DEF Good, Avl
    <2> QED
      BY <1>1, <1>3, <2>1 DEF Good, Avl, Shape
  <1>5. TypeOK
    <2>1. lm.root \in Pointers /\ lm.node \in [Keys -> Node]
      BY <1>4 DEF Trees
    <2>2. \A k \in A : lm.node[k] \in Node
      BY <1>4, <2>1
    <2>3. \A k \in A : /\ lm.node[k].left \in Keys \cup {Nil}
                       /\ lm.node[k].right \in Keys \cup {Nil}
                       /\ lm.node[k].balance \in Int
      BY <2>2 DEF Node, Pointers
    <2> QED
      BY <1>2, <1>4, <2>1, <2>3 DEF TypeOK, Pointers
  <1>6. ASSUME NEW k \in A
        PROVE  /\ lm.node[k].balance = Height(lm)[lm.node[k].right] - Height(lm)[lm.node[k].left]
               /\ lm.node[k].balance \in -1 .. 1
    <2>1. PICK l, r : l = lm.node[k].left /\ r = lm.node[k].right
      OBVIOUS
    <2>2. /\ l = a[<<k, "left">>] /\ r = a[<<k, "right">>]
          /\ l \in A \cup {Nil} /\ r \in A \cup {Nil} /\ h[l] \in Nat /\ h[r] \in Nat
      BY <1>1, <1>3, <1>4, <2>1, GoodKids
    <2>3. Height(lm)[l] = h[l] /\ Height(lm)[r] = h[r]
      BY <1>1, <2>2, HeightIs
    <2>4. "left" \in Sides /\ Opposite("left") = "right"
      BY DEF Sides, Opposite
    <2>5. b[k] = Lean("left", h[l], h[r]) /\ b[k] \in -1 .. 1
      BY <1>4, <2>2, <2>4 DEF Leveled
    <2>6. lm.node[k].balance = b[k]
      BY <1>3, <1>4 DEF Bals
    <2>7. b[k] = h[r] - h[l]
      BY <2>2, <2>5 DEF Lean
    <2> QED
      BY <2>1, <2>3, <2>5, <2>6, <2>7
  <1> QED
    BY <1>2, <1>5, <1>6 DEF Balanced

\* Of a well-formed map, the walk meets the nodes in use once and in order.
LEMMA GoodWhole == TreeInv => NothingLost
  <1> SUFFICES ASSUME TreeInv
               PROVE  NothingLost
    OBVIOUS
  <1>1. PICK A, D, h : Good(lm, A, D, h)
    BY DEF TreeInv
  <1>2. PICK w : w = InOrder(lm)
    OBVIOUS
  <1>3. Sorted(A, w)
    BY <1>1, <1>2, InOrderSorted
  <1>4. Allocated = A
    BY <1>1, AllocatedAre
  <1>5. Len(w) = lm.num_elements
    BY <1>1, <1>3 DEF Good, Sorted
  <1>6. {w[i] : i \in DOMAIN w} = A
    BY <1>3 DEF Sorted
  <1> QED
    BY <1>2, <1>3, <1>4, <1>5, <1>6 DEF NothingLost, Sorted

\* A well-formed map does what a set of pairs of keys and elements does.
LEMMA GoodActs == TreeInv => ActsAsMap
  <1> SUFFICES ASSUME TreeInv
               PROVE  ActsAsMap
    OBVIOUS
  <1>1. PICK A, D, h : Good(lm, A, D, h)
    BY DEF TreeInv
  <1>2. \A k \in Keys : get_long_map_element(lm, k) = lm.value[k]
    BY <1>1, GetFinds
  <1>3. ASSUME NEW s \in Names, NEW v \in Values
        PROVE  /\ Contents(set_long_map_element(lm, Hash[s], Element(s, v)))
                     = {c \in Contents(lm) : c[1] # Hash[s]} \cup {<<Hash[s], Element(s, v)>>}
               /\ Contents(remove_long_map_element(lm, Hash[s]))
                     = {c \in Contents(lm) : c[1] # Hash[s]}
    <2>1. Hash[s] \in Keys /\ Element(s, v) \in Stored
      BY DEF Keys, Stored
    <2> QED
      BY <1>1, <2>1, SetContents, RemoveContents
  <1> QED
    BY <1>2, <1>3 DEF ActsAsMap

-----------------------------------------------------------------------------
(* The operations keep the map well formed. *)

\* The empty map that initialize_long_map() makes is well formed.
LEMMA InitTree == Init => TreeInv
  <1> SUFFICES ASSUME Init
               PROVE  TreeInv
    OBVIOUS
  <1>0. lm = initialize
    BY DEF Init
  <1>1. PICK D, h : D = [k \in Pointers |-> {}] /\ h = [k \in Pointers |-> 0]
    OBVIOUS
  <1>2. Nil \in Pointers /\ Free \in Node
    BY DEF Pointers, Free, Node
  <1>3. lm \in Trees
    BY <1>0, <1>2 DEF initialize, Trees
  <1>4. /\ lm.root = Nil /\ lm.num_elements = 0
        /\ \A k \in Keys : lm.node[k] = Free /\ lm.value[k] = Null
    BY <1>0 DEF initialize
  <1>5. /\ Kids(lm) \in [Places -> Pointers] /\ Bals(lm) \in [Keys -> Int]
        /\ Kids(lm)[RootPlace] = Nil
    BY <1>3, <1>4, KidsType
  <1>6. PICK a : a = Kids(lm)
    OBVIOUS
  <1>7. Live({}) = {RootPlace}
    BY DEF Live
  <1>8. Shape(a, {}, D)
    <2>1. /\ a \in [Places -> Pointers] /\ a[RootPlace] = Nil
          /\ D \in [Pointers -> SUBSET Keys] /\ D[Nil] = {}
      BY <1>1, <1>2, <1>5, <1>6
    <2>2. Single(a, {})
      BY <1>7 DEF Single
    <2> QED
      BY <1>7, <2>1, <2>2 DEF Shape
  <1>9. Heights(Bals(lm), h)
    BY <1>1, <1>2, <1>5 DEF Heights
  <1>10. Avl(Kids(lm), Bals(lm), {}, D, h)
    BY <1>6, <1>8, <1>9 DEF Avl
  <1>11. Cardinality({}) = 0
    BY FS_EmptySet
  <1>12. Good(lm, {}, D, h)
    BY <1>3, <1>4, <1>10, <1>11 DEF Good
  <1> QED
    BY <1>12 DEF TreeInv

\* Every operation keeps the map well formed.
LEMMA NextTree == TreeInv /\ [Next]_lm => TreeInv'
  <1> SUFFICES ASSUME TreeInv, [Next]_lm
               PROVE  TreeInv'
    OBVIOUS
  <1>0. PICK A, D, h : Good(lm, A, D, h)
    BY DEF TreeInv
  <1>1. ASSUME NEW A2, NEW D2, NEW h2, Good(lm', A2, D2, h2)
        PROVE  TreeInv'
    BY <1>1 DEF TreeInv
  <1>2. ASSUME NEW key \in Keys, lm' = remove_long_map_element(lm, key)
        PROVE  TreeInv'
    <2>1. \E D2, h2 : Good(lm', A \ {key}, D2, h2)
      BY <1>0, <1>2, RemoveWell
    <2> QED
      BY <1>1, <2>1
  <1>3. A \in SUBSET Keys /\ (lm.root # Nil => A # {})
    <2>1. lm \in Trees /\ Shape(Kids(lm), A, D)
      BY <1>0 DEF Good, Avl
    <2>2. Kids(lm)[RootPlace] = lm.root
      BY <2>1, KidsType
    <2>3. A \in SUBSET Keys /\ RootPlace \in Live(A)
      BY <2>1, LiveFacts
    <2> QED
      BY <2>1, <2>2, <2>3 DEF Shape
  <1>4. ASSUME NEW s \in Names, remove_string_map_element(s)
        PROVE  TreeInv'
    <2>1. Hash[s] \in Keys
      BY DEF Keys
    <2> QED
      BY <1>2, <1>4, <2>1 DEF remove_string_map_element
  <1>5. ASSUME NEW s \in Names, NEW v \in Values, set_string_map_element(s, v)
        PROVE  TreeInv'
    <2>1. Hash[s] \in Keys /\ Element(s, v) \in Stored
      BY DEF Keys, Stored
    <2>2. \E D2, h2 : Good(lm', A \cup {Hash[s]}, D2, h2)
      BY <1>0, <1>5, <2>1, SetWell DEF set_string_map_element
    <2> QED
      BY <1>1, <2>2
  <1>6. CASE remove_smallest_long_map_element
    <2>1. Smallest(lm) \in Keys
      BY <1>0, <1>3, <1>6, Extremes DEF remove_smallest_long_map_element
    <2> QED
      BY <1>2, <1>6, <2>1 DEF remove_smallest_long_map_element
  <1>7. CASE remove_largest_long_map_element
    <2>1. Largest(lm) \in Keys
      BY <1>0, <1>3, <1>7, Extremes DEF remove_largest_long_map_element
    <2> QED
      BY <1>2, <1>7, <2>1 DEF remove_largest_long_map_element
  <1>8. CASE destroy_map
    <2>1. \E D2, h2 : Good(lm', {}, D2, h2)
      BY <1>0, <1>8, EmptiedWell DEF destroy_map
    <2> QED
      BY <1>1, <2>1
  <1>9. CASE UNCHANGED lm
    BY <1>0, <1>1, <1>9
  <1> QED
    BY <1>4, <1>5, <1>6, <1>7, <1>8, <1>9 DEF Next

\* The tree of the map is at all times a search tree of the nodes in use, each of which is
\* stored in one place, with the right balances and no node that leans by two.
THEOREM TreeStaysWell == Spec => []TreeInv
  <1>1. Init => TreeInv
    BY InitTree
  <1>2. TreeInv /\ [Next]_lm => TreeInv'
    BY NextTree
  <1> QED
    BY <1>1, <1>2, PTL DEF Spec

\* rebalance() keeps the balances right by counting, and no node ever leans by two, for
\* any number of keys and any sequence of operations.
THEOREM TreeBalanced == Spec => []Balanced
  BY TreeStaysWell, GoodBalanced, PTL

\* No rotation, insertion or removal loses a node, reaches one twice or reaches one that was
\* freed, and the walk in order fills exactly num_elements entries.
THEOREM TreeWhole == Spec => []NothingLost
  BY TreeStaysWell, GoodWhole, PTL

\* A search finds the element of each key, and setting and removing an element change the
\* pair of its key and no other.
THEOREM TreeActsAsMap == Spec => []ActsAsMap
  BY TreeStaysWell, GoodActs, PTL

\* destroy_long_map_values() takes out every element and frees every node: what is left is
\* the empty map.
THEOREM DestroyedEmpty == Spec => [][destroy_map => lm' = initialize]_lm
  <1>1. ASSUME TreeInv, destroy_map
        PROVE  lm' = initialize
    <2>1. PICK A, D, h : Good(lm, A, D, h)
      BY <1>1 DEF TreeInv
    <2>2. PICK D2, h2 : Good(lm', {}, D2, h2)
      BY <1>1, <2>1, EmptiedWell DEF destroy_map
    <2>3. /\ lm' \in Trees /\ Shape(Kids(lm'), {}, D2) /\ lm'.num_elements = Cardinality({})
          /\ \A k \in Keys : lm'.node[k] = Free /\ lm'.value[k] = Null
      BY <2>2 DEF Good, Avl
    <2>4. lm'.root = Nil
      <3>1. Kids(lm')[RootPlace] = lm'.root
        BY <2>3, KidsType
      <3>2. RootPlace \in Live({})
        BY <2>3, LiveFacts
      <3> QED
        BY <2>3, <3>1, <3>2 DEF Shape
    <2>5. Cardinality({}) = 0
      BY FS_EmptySet
    <2>6. /\ lm'.node = [k \in Keys |-> Free] /\ lm'.value = [k \in Keys |-> Null]
          /\ lm'.num_elements = 0
      <3>1. lm'.node \in [Keys -> Node] /\ lm'.value \in [Keys -> Stored \cup {Null}]
        BY ONLY <2>3 DEF Trees
      <3> QED
        BY <2>3, <2>5, <3>1
    <2>7. lm' = [root |-> lm'.root, node |-> lm'.node, value |-> lm'.value,
                 num_elements |-> lm'.num_elements]
      BY ONLY <2>3 DEF Trees
    <2> QED
      BY <2>4, <2>6, <2>7 DEF initialize
  <1>2. TreeInv /\ [Next]_lm => [destroy_map => lm' = initialize]_lm
    BY <1>1
  <1> QED
    BY <1>2, TreeStaysWell, PTL DEF Spec
=============================================================================
