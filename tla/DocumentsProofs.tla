--------------------------- MODULE DocumentsProofs ---------------------------
(***************************************************************************)
(* Theorems about Documents, for any tree, any values and any documents of *)
(* the forms it describes.                                                 *)
(***************************************************************************)
EXTENDS Documents, InheritanceProofs

(***************************************************************************)
(* Folds over a sequence.                                                  *)
(***************************************************************************)
(* The greatest of a set, as the folds take it.                            *)
Top(t) == CHOOSE x \in t : \A y \in t : x >= y

(* Taking the greatest index away leaves a smaller set of indices.         *)
LEMMA TopFacts ==
  ASSUME NEW n \in Nat
  PROVE  /\ \A t \in SUBSET (1..n) : t # {} => Top(t) \in t /\ Top(t) \in 1..n
                                               /\ t \ {Top(t)} \in SUBSET (1..n)
         /\ \A i \in 1..n : /\ 1..i \in SUBSET (1..n) /\ 1..i # {}
                            /\ Top(1..i) = i /\ (1..i) \ {i} = 1..(i-1)
<1>1. ASSUME NEW t \in SUBSET (1..n), t # {}
      PROVE  Top(t) \in t /\ Top(t) \in 1..n /\ t \ {Top(t)} \in SUBSET (1..n)
  BY <1>1, Greatest DEF Top
<1>2. ASSUME NEW i \in 1..n
      PROVE  1..i \in SUBSET (1..n) /\ 1..i # {} /\ Top(1..i) = i /\ (1..i) \ {i} = 1..(i-1)
  <2>1. i \in 1..i /\ \A y \in 1..i : i >= y
    OBVIOUS
  <2>2. Top(1..i) \in 1..i /\ \A y \in 1..i : Top(1..i) >= y
    BY <2>1 DEF Top
  <2> QED BY <2>1, <2>2
<1> QED BY <1>1, <1>2

(* acc is what joining the pieces has made after each of them.             *)
Joins(acc, D, s, S) ==
  /\ acc \in [0..Len(s) -> Seq(S)]
  /\ acc[0] = <<>>
  /\ \A i \in 1..Len(s) : acc[i] = acc[i-1] \o D[s[i]]
  /\ Joined(D, s) = acc[Len(s)]

(* What D holds for each element of s is a sequence over S.                *)
Pieces(D, s, S) == \A i \in 1..Len(s) : D[s[i]] \in Seq(S)

(* Joining pieces is gathering one after the other.                        *)
LEMMA JoinedSteps ==
  ASSUME NEW B, NEW S, NEW D, NEW s \in Seq(B), Pieces(D, s, S)
  PROVE  \E acc : Joins(acc, D, s, S)
<1> DEFINE n == Len(s)
           f == [i \in 1..n |-> D[s[i]]]
           Body(h, t) == IF t = {} THEN <<>> ELSE h[t \ {Top(t)}] \o D[s[Top(t)]]
           Iterates(h) == h = [t \in SUBSET DOMAIN s |-> Body(h, t)]
           iter == CHOOSE h : Iterates(h)
<1>0. n \in Nat /\ DOMAIN s = 1..n /\ 1..0 = {}
  OBVIOUS
<1>1. Joined(D, s) = iter[DOMAIN s]
  BY Zenon DEF Joined, FoldLeft, MapThenFoldSet, Max, Top
<1>2. Iterates(iter)
  <2>1. PICK h : h = [t \in SUBSET (1..n) |-> IF t = {} THEN <<>> ELSE h[t \ {Top(t)}] \o f[Top(t)]]
    <3> HIDE DEF f, n
    <3> QED BY <1>0, FoldDefined, Zenon DEF Top
  <2>2. ASSUME NEW t \in SUBSET (1..n), t # {} PROVE f[Top(t)] = D[s[Top(t)]]
    <3> HIDE DEF n
    <3>1. Top(t) \in 1..n
      BY <1>0, <2>2, TopFacts
    <3> QED BY <3>1
  <2> HIDE DEF f, n
  <2>3. h = [t \in SUBSET (1..n) |-> Body(h, t)]
    BY <2>1, <2>2
  <2>4. Iterates(h)
    BY <1>0, <2>3
  <2> HIDE DEF Iterates
  <2> QED BY <2>4
<1> HIDE DEF iter
<1> DEFINE acc == [i \in 0..n |-> iter[1..i]]
<1>3. acc[0] = <<>>
  BY <1>0, <1>2
<1>4. ASSUME NEW i \in 1..n PROVE acc[i] = acc[i-1] \o D[s[i]]
  <2> HIDE DEF n
  <2>1. 1..i \in SUBSET (1..n) /\ 1..i # {} /\ Top(1..i) = i /\ (1..i) \ {i} = 1..(i-1)
    BY <1>0, TopFacts
  <2>2. iter[1..i] = iter[(1..i) \ {Top(1..i)}] \o D[s[Top(1..i)]]
    BY <1>0, <1>2, <2>1
  <2>3. acc[i] = iter[1..i] /\ acc[i-1] = iter[1..(i-1)]
    BY <1>0
  <2> QED BY <2>1, <2>2, <2>3
<1>5. Joined(D, s) = acc[n]
  BY <1>0, <1>1
<1> HIDE DEF acc
<1>6. \A i \in 0..n : acc[i] \in Seq(S)
  <2> DEFINE T == {i \in Nat : i \in 0..n => acc[i] \in Seq(S)}
  <2>1. 0 \in T
    <3>1. <<>> \in Seq(S)
      OBVIOUS
    <3> QED BY <1>3, <3>1
  <2>2. ASSUME NEW i \in Nat, i \in T PROVE i + 1 \in T
    <3> SUFFICES ASSUME i + 1 \in 0..n PROVE acc[i+1] \in Seq(S)
      OBVIOUS
    <3>1. D[s[i+1]] \in Seq(S)
      BY <1>0 DEF Pieces
    <3> HIDE DEF n
    <3>2. i + 1 \in 1..n /\ (i + 1) - 1 = i /\ i \in 0..n
      BY <1>0
    <3>3. acc[i+1] = acc[i] \o D[s[i+1]] /\ acc[i] \in Seq(S)
      BY <1>4, <2>2, <3>2
    <3> QED BY <3>1, <3>3
  <2>3. Nat \subseteq T
    <3> HIDE DEF T
    <3> QED BY <2>1, <2>2, Induction
  <2> QED BY <2>3
<1>7. acc \in [0..n -> Seq(S)]
  <2>1. acc = [i \in 0..n |-> acc[i]]
    BY DEF acc
  <2> QED BY <1>6, <2>1
<1> QED BY <1>3, <1>4, <1>5, <1>7 DEF Joins

(* Pieces that D and E agree on are joined to the same.                    *)
LEMMA JoinedDependsOn ==
  ASSUME NEW B, NEW S, NEW D, NEW E, NEW s \in Seq(B), Pieces(D, s, S),
         \A i \in 1..Len(s) : E[s[i]] = D[s[i]]
  PROVE  Joined(D, s) = Joined(E, s) /\ Joined(D, s) \in Seq(S)
<1> DEFINE n == Len(s)
<1>0. n \in Nat
  OBVIOUS
<1>1. PICK a : Joins(a, D, s, S)
  BY JoinedSteps
<1>2. PICK b : Joins(b, E, s, S)
  <2>1. Pieces(E, s, S)
    BY DEF Pieces
  <2> QED BY <2>1, JoinedSteps
<1>3. /\ a \in [0..n -> Seq(S)] /\ a[0] = <<>> /\ Joined(D, s) = a[n]
      /\ b \in [0..n -> Seq(S)] /\ b[0] = <<>> /\ Joined(E, s) = b[n]
      /\ \A i \in 1..n : a[i] = a[i-1] \o D[s[i]] /\ b[i] = b[i-1] \o D[s[i]]
  BY <1>1, <1>2 DEF Joins
<1> HIDE DEF n
<1> DEFINE T == {i \in Nat : i \in 0..n => a[i] = b[i]}
<1>4. 0 \in T
  BY <1>3
<1>5. ASSUME NEW i \in Nat, i \in T PROVE i + 1 \in T
  <2> SUFFICES ASSUME i + 1 \in 0..n PROVE a[i+1] = b[i+1]
    OBVIOUS
  <2>1. i + 1 \in 1..n /\ (i + 1) - 1 = i /\ i \in 0..n
    BY <1>0
  <2> QED BY <1>3, <1>5, <2>1
<1>6. n \in T
  <2> HIDE DEF T
  <2> QED BY <1>0, <1>4, <1>5, Induction
<1> QED BY <1>0, <1>3, <1>6

(* What has been joined after i pieces holds what these hold.              *)
LEMMA JoinedParts ==
  ASSUME NEW B, NEW S, NEW D, NEW s \in Seq(B), Pieces(D, s, S), NEW acc, Joins(acc, D, s, S),
         NEW i \in 0..Len(s)
  PROVE  \A x : x \in ToSet(acc[i]) <=> \E j \in 1..i : x \in ToSet(D[s[j]])
<1> DEFINE n == Len(s)
           In(x, j) == x \in ToSet(D[s[j]])
           T == {k \in Nat : k \in 0..n => \A x : x \in ToSet(acc[k]) <=> \E j \in 1..k : In(x, j)}
<1>0. n \in Nat /\ i \in Nat /\ i \in 0..n
  OBVIOUS
<1>1. /\ acc \in [0..n -> Seq(S)] /\ acc[0] = <<>>
      /\ \A k \in 1..n : acc[k] = acc[k-1] \o D[s[k]] /\ D[s[k]] \in Seq(S)
  BY DEF Joins, Pieces
<1> HIDE DEF n, In
<1>2. 0 \in T
  BY <1>1 DEF ToSet
<1>3. ASSUME NEW k \in Nat, k \in T PROVE k + 1 \in T
  <2> SUFFICES ASSUME k + 1 \in 0..n, NEW x
               PROVE  x \in ToSet(acc[k+1]) <=> \E j \in 1..k+1 : In(x, j)
    OBVIOUS
  <2>1. k + 1 \in 1..n /\ (k + 1) - 1 = k /\ k \in 0..n
    BY <1>0
  <2>2. acc[k] \in Seq(S) /\ acc[k+1] = acc[k] \o D[s[k+1]] /\ D[s[k+1]] \in Seq(S)
    BY <1>1, <2>1
  <2>3. x \in ToSet(acc[k]) <=> \E j \in 1..k : In(x, j)
    BY <1>3, <2>1
  <2>4. ToSet(acc[k+1]) = ToSet(acc[k]) \cup ToSet(D[s[k+1]])
    BY <2>2, ConcatElements
  <2>5. (\E j \in 1..k+1 : In(x, j)) <=> (\E j \in 1..k : In(x, j)) \/ In(x, k + 1)
    OBVIOUS
  <2> QED BY <2>3, <2>4, <2>5 DEF In
<1>4. i \in T
  <2> HIDE DEF T
  <2> QED BY <1>0, <1>2, <1>3, Induction
<1> QED BY <1>0, <1>4 DEF In

(* ... and all of them together what all hold.                             *)
LEMMA JoinedElements ==
  ASSUME NEW B, NEW S, NEW D, NEW s \in Seq(B), Pieces(D, s, S)
  PROVE  /\ Joined(D, s) \in Seq(S)
         /\ \A x : x \in ToSet(Joined(D, s)) <=> \E j \in 1..Len(s) : x \in ToSet(D[s[j]])
<1>1. PICK acc : Joins(acc, D, s, S)
  BY JoinedSteps
<1>2. Len(s) \in 0..Len(s)
  OBVIOUS
<1>3. Joined(D, s) = acc[Len(s)] /\ acc[Len(s)] \in Seq(S)
  BY <1>1, <1>2 DEF Joins
<1> QED BY <1>1, <1>2, <1>3, JoinedParts

-----------------------------------------------------------------------------
(* x stands before y in s.                                                 *)
Before(s, x, y) == \E i, j \in 1..Len(s) : i < j /\ s[i] = x /\ s[j] = y

(* What stands before another in a part does so in the whole, and so does  *)
(* what stands in the first part before what stands in the second.         *)
LEMMA BeforeConcat ==
  ASSUME NEW a \in Seq(Nodes), NEW b \in Seq(Nodes), NEW x, NEW y
  PROVE  /\ Before(a, x, y) => Before(a \o b, x, y)
         /\ Before(b, x, y) => Before(a \o b, x, y)
         /\ x \in ToSet(a) /\ y \in ToSet(b) => Before(a \o b, x, y)
<1> DEFINE s == a \o b
<1>1. /\ Len(a) \in Nat /\ Len(b) \in Nat /\ Len(s) = Len(a) + Len(b)
      /\ \A i \in 1..Len(a) : s[i] = a[i]
      /\ \A i \in 1..Len(b) : s[Len(a) + i] = b[i]
      /\ DOMAIN a = 1..Len(a) /\ DOMAIN b = 1..Len(b)
  BY ConcatFacts
<1> HIDE DEF s
<1>2. ASSUME Before(a, x, y) PROVE Before(s, x, y)
  <2>1. PICK i \in 1..Len(a), j \in 1..Len(a) : i < j /\ a[i] = x /\ a[j] = y
    BY <1>2 DEF Before
  <2>2. i \in 1..Len(s) /\ j \in 1..Len(s) /\ s[i] = x /\ s[j] = y
    BY <1>1, <2>1
  <2> QED BY <2>1, <2>2 DEF Before
<1>3. ASSUME Before(b, x, y) PROVE Before(s, x, y)
  <2>1. PICK i \in 1..Len(b), j \in 1..Len(b) : i < j /\ b[i] = x /\ b[j] = y
    BY <1>3 DEF Before
  <2>2. /\ Len(a) + i \in 1..Len(s) /\ Len(a) + j \in 1..Len(s) /\ Len(a) + i < Len(a) + j
        /\ s[Len(a) + i] = x /\ s[Len(a) + j] = y
    BY <1>1, <2>1
  <2> QED BY <2>2 DEF Before
<1>4. ASSUME x \in ToSet(a), y \in ToSet(b) PROVE Before(s, x, y)
  <2>1. PICK i \in 1..Len(a), j \in 1..Len(b) : a[i] = x /\ b[j] = y
    BY <1>1, <1>4 DEF ToSet
  <2>2. /\ i \in 1..Len(s) /\ Len(a) + j \in 1..Len(s) /\ i < Len(a) + j
        /\ s[i] = x /\ s[Len(a) + j] = y
    BY <1>1, <2>1
  <2> QED BY <2>2 DEF Before
<1> QED BY <1>2, <1>3, <1>4 DEF s

(* No piece holds a node twice, and no two of them have one in common.     *)
Apart(D, s) ==
  \A i \in 1..Len(s) : /\ IsInjective(D[s[i]])
                       /\ \A j \in 1..Len(s) : i # j => ToSet(D[s[i]]) \cap ToSet(D[s[j]]) = {}

(* Pieces without a repeat make a list without a repeat, in their order.   *)
LEMMA JoinedOrder ==
  ASSUME NEW B, NEW D, NEW s \in Seq(B), Pieces(D, s, Nodes), Apart(D, s)
  PROVE  /\ IsInjective(Joined(D, s))
         /\ \A i \in 1..Len(s) : \A x, y :
              Before(D[s[i]], x, y) => Before(Joined(D, s), x, y)
         /\ \A i, j \in 1..Len(s) : i < j =>
              \A x \in ToSet(D[s[i]]), y \in ToSet(D[s[j]]) : Before(Joined(D, s), x, y)
<1> DEFINE n == Len(s)
<1>1. PICK acc : Joins(acc, D, s, Nodes)
  BY JoinedSteps
<1>2. /\ n \in Nat
      /\ acc \in [0..n -> Seq(Nodes)] /\ acc[0] = <<>> /\ Joined(D, s) = acc[n]
      /\ \A k \in 1..n : acc[k] = acc[k-1] \o D[s[k]] /\ D[s[k]] \in Seq(Nodes)
  BY <1>1 DEF Joins, Pieces
<1>3. \A i \in 0..n : \A x : x \in ToSet(acc[i]) <=> \E j \in 1..i : x \in ToSet(D[s[j]])
  BY <1>1, JoinedParts
<1>4. \A i \in 1..n : /\ IsInjective(D[s[i]])
                      /\ \A j \in 1..n : i # j => ToSet(D[s[i]]) \cap ToSet(D[s[j]]) = {}
  BY DEF Apart
<1> HIDE DEF n
<1> DEFINE Ordered(k) ==
             /\ IsInjective(acc[k])
             /\ \A i \in 1..k : \A x, y : Before(D[s[i]], x, y) => Before(acc[k], x, y)
             /\ \A i, j \in 1..k : i < j =>
                  \A x \in ToSet(D[s[i]]), y \in ToSet(D[s[j]]) : Before(acc[k], x, y)
           T == {k \in Nat : k \in 0..n => Ordered(k)}
<1>5. 0 \in T
  <2>1. IsInjective(<<>>)
    BY DEF IsInjective
  <2> QED BY <1>2, <2>1
<1>6. ASSUME NEW k \in Nat, k \in T PROVE k + 1 \in T
  <2> SUFFICES ASSUME k + 1 \in 0..n PROVE Ordered(k + 1)
    OBVIOUS
  <2>1. k + 1 \in 1..n /\ (k + 1) - 1 = k /\ k \in 0..n
    BY <1>2
  <2>2. acc[k] \in Seq(Nodes) /\ acc[k+1] = acc[k] \o D[s[k+1]] /\ D[s[k+1]] \in Seq(Nodes)
    BY <1>2, <2>1
  <2>3. Ordered(k)
    BY <1>6, <2>1
  <2>4. IsInjective(acc[k+1])
    <3>1. ToSet(acc[k]) \cap ToSet(D[s[k+1]]) = {}
      <4> SUFFICES ASSUME NEW x, x \in ToSet(acc[k]), x \in ToSet(D[s[k+1]]) PROVE FALSE
        OBVIOUS
      <4>1. PICK j \in 1..k : x \in ToSet(D[s[j]])
        BY <1>3, <2>1
      <4>2. j \in 1..n /\ j # k + 1
        BY <1>2, <2>1
      <4> QED BY <1>4, <2>1, <4>1, <4>2
    <3>2. IsInjective(acc[k]) /\ IsInjective(D[s[k+1]])
      BY <1>4, <2>1, <2>3
    <3> QED BY <2>2, <3>1, <3>2, ConcatInjective
  <2>5. ASSUME NEW i \in 1..k+1, NEW x, NEW y, Before(D[s[i]], x, y) PROVE Before(acc[k+1], x, y)
    <3>1. CASE i = k + 1
      BY <2>2, <2>5, <3>1, BeforeConcat
    <3>2. CASE i \in 1..k
      <4>1. Before(acc[k], x, y)
        BY <2>3, <2>5, <3>2
      <4> QED BY <2>2, <4>1, BeforeConcat
    <3> QED BY <3>1, <3>2
  <2>6. ASSUME NEW i \in 1..k+1, NEW j \in 1..k+1, i < j,
               NEW x \in ToSet(D[s[i]]), NEW y \in ToSet(D[s[j]])
        PROVE  Before(acc[k+1], x, y)
    <3>1. i \in 1..k
      BY <2>6
    <3>2. CASE j = k + 1
      <4>1. x \in ToSet(acc[k])
        BY <1>3, <2>1, <2>6, <3>1
      <4> QED BY <2>2, <2>6, <3>2, <4>1, BeforeConcat
    <3>3. CASE j \in 1..k
      <4>1. Before(acc[k], x, y)
        BY <2>3, <2>6, <3>1, <3>3
      <4> QED BY <2>2, <4>1, BeforeConcat
    <3> QED BY <3>2, <3>3
  <2> QED BY <2>4, <2>5, <2>6
<1>7. n \in T
  <2> HIDE DEF T
  <2> QED BY <1>2, <1>5, <1>6, Induction
<1>8. Ordered(n)
  BY <1>2, <1>7
<1> QED BY <1>2, <1>8 DEF n

(***************************************************************************)
(* The order in which the two formats write the nodes of a subtree.        *)
(***************************************************************************)
(* What is written for the nodes inside n, and for n itself.               *)
Inside(P, n) == IF n \in Leaves THEN <<>> ELSE Joined(P, children[n])
Own(n) == IF n \in Roots THEN <<>> ELSE <<n>>

(* A node is written before what is inside it, or after it.                *)
Written(P, n, first) == IF first THEN Own(n) \o Inside(P, n) ELSE Inside(P, n) \o Own(n)

(* The leaves are no containers, and a child is below its parent.          *)
LEMMA TreeFacts ==
  ASSUME TreeInv
  PROVE  /\ parent \in [Nodes -> Containers \cup {NoNode}] /\ Forest!IsForest(parent)
         /\ \A c \in Containers : children[c] \in Seq(Nodes) /\ IsInjective(children[c])
         /\ \A c \in Containers : \A i \in 1..Len(children[c]) :
              children[c][i] \in Nodes /\ parent[children[c][i]] = c /\ children[c][i] \notin Roots
         /\ \A n \in Nodes, c \in Containers : parent[n] = c =>
              \E i \in 1..Len(children[c]) : children[c][i] = n
         /\ \A n \in Leaves : n \in Nodes /\ n \notin Containers /\ n \notin Roots /\ Below(n) = {}
         /\ \A n \in Nodes : n \notin Leaves => n \in Containers
         /\ Containers \subseteq Nodes /\ NoNode \notin Nodes /\ Roots \subseteq Containers
         /\ \A n \in Nodes : Below(n) \subseteq Nodes \ Roots /\ n \notin Below(n)
<1>1. \A c \in Containers : IsInjective(children[c])
  BY DEF TreeInv, WellLinked, NoDuplicates
<1>2. \A r \in Roots : parent[r] = NoNode
  BY DEF TreeInv, RootsDetached
<1>3. ASSUME NEW n \in Leaves
      PROVE  n \in Nodes /\ n \notin Containers /\ n \notin Roots /\ Below(n) = {}
  <2>1. n \in Nodes /\ n \notin Containers /\ n \notin Roots
    BY TreeAssumption DEF Nodes
  <2> QED BY <2>1 DEF Below, Forest!AncestorsOrSelf
<1>4. \A n \in Nodes : n \notin Leaves => n \in Containers
  BY DEF Nodes
<1>5. \A n \in Nodes : Below(n) \subseteq Nodes \ Roots /\ n \notin Below(n)
  BY <1>2 DEF Below
<1>6. Containers \subseteq Nodes /\ NoNode \notin Nodes /\ Roots \subseteq Containers
  BY TreeAssumption, NodesFacts DEF Nodes
<1>7. \A c \in Containers : \A i \in 1..Len(children[c]) :
        children[c][i] \in Nodes /\ parent[children[c][i]] = c /\ children[c][i] \notin Roots
  BY <1>2, <1>6, ChildrenFacts
<1>8. \A n \in Nodes, c \in Containers : parent[n] = c =>
        \E i \in 1..Len(children[c]) : children[c][i] = n
  BY <1>6, ChildrenFacts
<1> QED BY <1>1, <1>3, <1>4, <1>5, <1>6, <1>7, <1>8, ChildrenFacts

(* What is written for n depends on what is for its children.              *)
LEMMA WrittenDependsOn ==
  ASSUME TreeInv, NEW P, NEW Q, NEW first \in BOOLEAN, NEW n \in Nodes,
         \A m \in Nodes : parent[m] = n => P[m] \in Seq(Nodes) /\ Q[m] = P[m]
  PROVE  /\ Written(P, n, first) = Written(Q, n, first) /\ Written(P, n, first) \in Seq(Nodes)
         /\ Inside(P, n) \in Seq(Nodes) /\ Own(n) \in Seq(Nodes)
<1>1. Own(n) \in Seq(Nodes)
  BY DEF Own
<1>2. Inside(P, n) = Inside(Q, n) /\ Inside(P, n) \in Seq(Nodes)
  <2>1. CASE n \in Leaves
    <3>1. <<>> \in Seq(Nodes)
      OBVIOUS
    <3> QED BY <2>1, <3>1 DEF Inside
  <2>2. CASE n \notin Leaves
    <3>1. n \in Containers /\ children[n] \in Seq(Nodes)
      BY <2>2, TreeFacts
    <3>2. \A i \in 1..Len(children[n]) : P[children[n][i]] \in Seq(Nodes)
                                         /\ Q[children[n][i]] = P[children[n][i]]
      BY <3>1, TreeFacts
    <3>3. Pieces(P, children[n], Nodes)
      BY <3>2 DEF Pieces
    <3> QED BY <2>2, <3>1, <3>2, <3>3, JoinedDependsOn DEF Inside
  <2> QED BY <2>1, <2>2
<1> QED BY <1>1, <1>2 DEF Written

(* Writing every node after or before what is inside it, from the leaves   *)
(* up.                                                                     *)
LEMMA WalkDefined ==
  ASSUME TreeInv, NEW first \in BOOLEAN
  PROVE  \E h \in [Nodes -> Seq(Nodes)] : \A n \in Nodes : h[n] = Written(h, n, first)
<1>0. parent \in [Nodes -> Containers \cup {NoNode}] /\ Forest!IsForest(parent)
  BY TreeFacts
<1> DEFINE Solves(h, U) ==
             /\ U \in SUBSET Nodes
             /\ h \in [Nodes -> Seq(Nodes)]
             /\ \A n \in U : /\ h[n] = Written(h, n, first)
                             /\ \A m \in Nodes : parent[m] = n => m \in U
           Left == {k \in Nat : \E h, U : Solves(h, U) /\ k = Cardinality(Nodes \ U)}
<1>1. Left # {}
  <2>1. Solves([n \in Nodes |-> <<>>], {})
    OBVIOUS
  <2>2. Cardinality(Nodes \ {}) \in Nat
    BY FinitelyManyNodes, FS_CardinalityType
  <2> HIDE DEF Solves
  <2> QED BY <2>1, <2>2
<1>2. PICK k \in Left : \A j \in Left : k <= j
  BY <1>1, LeastNat
<1>3. PICK h, U : Solves(h, U) /\ k = Cardinality(Nodes \ U)
  OBVIOUS
<1>4. CASE U = Nodes
  BY <1>3, <1>4
<1>5. CASE U # Nodes
  <2>1. PICK n \in Nodes \ U : \A m \in Nodes \ U : parent[m] # n
    <3>1. Nodes \ U # {} /\ Nodes \ U \in SUBSET Nodes
      BY <1>3, <1>5
    <3> QED BY <1>0, <3>1, LowestNode
  <2> DEFINE g == [h EXCEPT ![n] = Written(h, n, first)]
             V == U \cup {n}
  <2>2. \A d \in V : d \in Nodes /\ \A m \in Nodes : parent[m] = d => m \in U
    BY <1>3, <2>1
  <2>3. ASSUME NEW d \in V
        PROVE  Written(h, d, first) = Written(g, d, first) /\ Written(h, d, first) \in Seq(Nodes)
    <3>1. \A m \in Nodes : parent[m] = d => h[m] \in Seq(Nodes) /\ g[m] = h[m]
      BY <1>3, <2>1, <2>2
    <3>2. d \in Nodes
      BY <2>2
    <3> HIDE DEF g, V
    <3> QED BY <3>1, <3>2, WrittenDependsOn
  <2>4. Solves(g, V)
    <3>1. n \in V /\ n \in Nodes
      OBVIOUS
    <3>2. g \in [Nodes -> Seq(Nodes)] /\ V \in SUBSET Nodes
      BY <1>3, <2>3, <3>1
    <3>3. \A d \in V : g[d] = Written(h, d, first)
      BY <1>3, <2>1
    <3>4. \A d \in V : \A m \in Nodes : parent[m] = d => m \in V
      BY <2>2
    <3> HIDE DEF g
    <3> QED BY <2>3, <3>2, <3>3, <3>4
  <2>5. Cardinality(Nodes \ V) = k - 1 /\ Cardinality(Nodes \ V) \in Nat
    <3>1. Nodes \ V = (Nodes \ U) \ {n} /\ n \in Nodes \ U
      OBVIOUS
    <3>2. IsFiniteSet(Nodes \ U) /\ IsFiniteSet(Nodes \ V)
      BY FinitelyManyNodes, FS_Subset
    <3>3. PICK W : W = Nodes \ U
      OBVIOUS
    <3>4. Cardinality(W \ {n}) = Cardinality(W) - 1
      BY <3>1, <3>2, <3>3, FS_RemoveElement
    <3>5. Cardinality(Nodes \ V) \in Nat
      BY <3>2, FS_CardinalityType
    <3> HIDE DEF V
    <3> QED BY <1>3, <3>1, <3>3, <3>4, <3>5
  <2>6. k - 1 \in Left
    <3> HIDE DEF Solves, g, V
    <3> QED BY <2>4, <2>5
  <2>7. k \in Nat
    OBVIOUS
  <2> HIDE DEF Left
  <2>8. k <= k - 1
    BY <1>2, <2>6
  <2> QED BY <2>7, <2>8
<1> QED BY <1>4, <1>5

(* P lists every subtree, its node before what is inside it or after it.   *)
IsWalk(P, first) ==
  P \in [Nodes -> Seq(Nodes)] /\ \A n \in Nodes : P[n] = Written(P, n, first)

(* What is written for each node as for its children is a list of nodes.   *)
LEMMA WalkType ==
  ASSUME TreeInv, NEW P, NEW first \in BOOLEAN, P = [n \in Nodes |-> P[n]],
         \A n \in Nodes : P[n] = Written(P, n, first)
  PROVE  IsWalk(P, first)
<1> DEFINE bad == {n \in Nodes : P[n] \notin Seq(Nodes)}
<1>1. bad = {}
  <2> SUFFICES ASSUME bad # {} PROVE FALSE
    OBVIOUS
  <2>1. PICK n \in bad : \A m \in bad : parent[m] # n
    <3>1. bad \in SUBSET Nodes /\ bad # {}
      OBVIOUS
    <3>2. parent \in [Nodes -> Containers \cup {NoNode}] /\ Forest!IsForest(parent)
      BY TreeFacts
    <3> HIDE DEF bad
    <3> QED BY <3>1, <3>2, LowestNode
  <2>2. \A m \in Nodes : parent[m] = n => P[m] \in Seq(Nodes)
    BY <2>1
  <2>3. Written(P, n, first) \in Seq(Nodes)
    BY <2>2, WrittenDependsOn
  <2> QED BY <2>3
<1> QED BY <1>1 DEF IsWalk

(* The rows of a CSV document come in postorder ...                        *)
LEMMA PostorderUnfold == TreeInv => IsWalk(serializePostorder, FALSE)
<1> SUFFICES ASSUME TreeInv PROVE IsWalk(serializePostorder, FALSE)
  OBVIOUS
<1> DEFINE Solves(h) == h = [n \in Nodes |-> Inside(h, n) \o Own(n)]
<1>1. serializePostorder = CHOOSE h : Solves(h)
  BY Zenon DEF serializePostorder, Inside, Own
<1>2. PICK h \in [Nodes -> Seq(Nodes)] : \A n \in Nodes : h[n] = Written(h, n, FALSE)
  BY WalkDefined
<1>3. Solves(h)
  BY <1>2 DEF Written
<1>4. Solves(serializePostorder)
  <2> HIDE DEF Solves
  <2> QED BY <1>1, <1>3
<1>5. /\ serializePostorder = [n \in Nodes |-> serializePostorder[n]]
      /\ \A n \in Nodes : serializePostorder[n] = Written(serializePostorder, n, FALSE)
  BY <1>4 DEF Written
<1> QED BY <1>5, WalkType

(* ... and the elements of an XML document in preorder.                    *)
LEMMA PreorderUnfold == TreeInv => IsWalk(encodeNode, TRUE)
<1> SUFFICES ASSUME TreeInv PROVE IsWalk(encodeNode, TRUE)
  OBVIOUS
<1> DEFINE Solves(h) == h = [n \in Nodes |-> Own(n) \o Inside(h, n)]
<1>1. encodeNode = CHOOSE h : Solves(h)
  BY Zenon DEF encodeNode, Inside, Own
<1>2. PICK h \in [Nodes -> Seq(Nodes)] : \A n \in Nodes : h[n] = Written(h, n, TRUE)
  BY WalkDefined
<1>3. Solves(h)
  BY <1>2 DEF Written
<1>4. Solves(encodeNode)
  <2> HIDE DEF Solves
  <2> QED BY <1>1, <1>3
<1>5. /\ encodeNode = [n \in Nodes |-> encodeNode[n]]
      /\ \A n \in Nodes : encodeNode[n] = Written(encodeNode, n, TRUE)
  BY <1>4 DEF Written
<1> QED BY <1>5, WalkType

-----------------------------------------------------------------------------
(* s has the nodes below n once each and siblings in their order, and, if  *)
(* parents come first, each one behind its parent when both are below n.   *)
ListsBelow(s, n, first) ==
  /\ s \in Seq(Nodes) /\ ToSet(s) = Below(n) /\ IsInjective(s)
  /\ \A c \in Subtree(n) \cap Containers : \A i, j \in 1..Len(children[c]) :
       i < j => Before(s, children[c][i], children[c][j])
  /\ first => \A k \in Below(n) : parent[k] # n => Before(s, parent[k], k)

(* ... and the same with n itself, when it is no root.                     *)
ListsSubtree(s, n, first) ==
  /\ s \in Seq(Nodes) /\ ToSet(s) = Subtree(n) \ Roots /\ IsInjective(s)
  /\ \A c \in Subtree(n) \cap Containers : \A i, j \in 1..Len(children[c]) :
       i < j => Before(s, children[c][i], children[c][j])
  /\ first => \A k \in Below(n) : parent[k] \notin Roots => Before(s, parent[k], k)

(* What is inside a node lists what is below it, as each child's part does *)
(* the child's subtree.                                                    *)
LEMMA InsideLists ==
  ASSUME TreeInv, NEW first \in BOOLEAN, NEW P, IsWalk(P, first), NEW n \in Nodes,
         \A k \in Nodes : parent[k] = n => ListsSubtree(P[k], k, first)
  PROVE  ListsBelow(Inside(P, n), n, first)
<1>1. CASE n \in Leaves
  <2>1. /\ Below(n) = {} /\ n \notin Containers /\ <<>> \in Seq(Nodes)
        /\ ToSet(<<>>) = {} /\ IsInjective(<<>>)
    BY <1>1, TreeFacts DEF ToSet, IsInjective
  <2>2. Subtree(n) \cap Containers = {}
    BY <2>1 DEF Subtree
  <2> QED BY <1>1, <2>1, <2>2 DEF Inside, ListsBelow
<1>2. CASE n \notin Leaves
  <2> DEFINE s == children[n]
             J == Joined(P, s)
  <2>1. /\ n \in Containers /\ s \in Seq(Nodes) /\ IsInjective(s) /\ Len(s) \in Nat
        /\ DOMAIN s = 1..Len(s)
        /\ \A i \in 1..Len(s) : s[i] \in Nodes /\ parent[s[i]] = n /\ s[i] \notin Roots
        /\ \A k \in Nodes : parent[k] = n => \E i \in 1..Len(s) : s[i] = k
    BY <1>2, TreeFacts
  <2>2. Inside(P, n) = J
    BY <1>2 DEF Inside
  <2> HIDE DEF s
  <2>3. \A i \in 1..Len(s) : /\ P[s[i]] \in Seq(Nodes) /\ IsInjective(P[s[i]])
                             /\ ToSet(P[s[i]]) = {s[i]} \cup Below(s[i])
    BY <2>1, TreeFacts DEF ListsSubtree, Subtree
  <2>4. Pieces(P, s, Nodes)
    BY <2>3 DEF Pieces
  <2>5. Apart(P, s)
    <3> SUFFICES ASSUME NEW i \in 1..Len(s), NEW j \in 1..Len(s), i # j
                 PROVE  ToSet(P[s[i]]) \cap ToSet(P[s[j]]) = {}
      BY <2>3 DEF Apart
    <3>1. s[i] # s[j] /\ parent[s[i]] = parent[s[j]] /\ parent[s[i]] # NoNode
      BY <2>1, NodesFacts DEF IsInjective
    <3> QED BY <2>1, <2>3, <3>1, SiblingsApart
  <2>6. /\ J \in Seq(Nodes)
        /\ \A x : x \in ToSet(J) <=> \E j \in 1..Len(s) : x \in ToSet(P[s[j]])
    BY <2>1, <2>4, JoinedElements
  <2>7. /\ IsInjective(J)
        /\ \A i \in 1..Len(s) : \A x, y : Before(P[s[i]], x, y) => Before(J, x, y)
        /\ \A i, j \in 1..Len(s) : i < j =>
             \A x \in ToSet(P[s[i]]), y \in ToSet(P[s[j]]) : Before(J, x, y)
    BY <2>1, <2>4, <2>5, JoinedOrder
  <2> HIDE DEF J
  <2>8. \A m \in Nodes : m \in Below(n) <=> \E j \in 1..Len(s) : m \in {s[j]} \cup Below(s[j])
    <3>1. \A m \in Nodes : m \in Below(n) <=>
             parent[m] = n \/ \E k \in Containers : parent[k] = n /\ m \in Below(k)
      BY <2>1, BelowUnfold
    <3>2. \A k \in Nodes : k \in Containers \/ Below(k) = {}
      BY TreeFacts DEF Nodes
    <3>3. Containers \subseteq Nodes
      BY TreeFacts
    <3> QED BY <2>1, <3>1, <3>2, <3>3
  <2>9. ToSet(J) = Below(n)
    <3>1. ToSet(J) \subseteq Nodes /\ Below(n) \subseteq Nodes
      BY <2>6 DEF ToSet, Below
    <3> QED BY <2>3, <2>6, <2>8, <3>1
  <2>10. ASSUME NEW c \in Subtree(n) \cap Containers, NEW i \in 1..Len(children[c]),
                NEW j \in 1..Len(children[c]), i < j
         PROVE  Before(J, children[c][i], children[c][j])
    <3>1. CASE c = n
      BY <2>3, <2>7, <2>10, <3>1 DEF s
    <3>2. CASE c # n
      <4>1. PICK k \in 1..Len(s) : c \in {s[k]} \cup Below(s[k])
        BY <2>8, <3>2, TreeFacts DEF Subtree
      <4>2. ListsSubtree(P[s[k]], s[k], first)
        BY <2>1
      <4>3. Before(P[s[k]], children[c][i], children[c][j])
        BY <2>10, <4>1, <4>2 DEF ListsSubtree, Subtree
      <4> QED BY <2>7, <4>3
    <3> QED BY <3>1, <3>2
  <2>11. ASSUME first, NEW k \in Below(n), parent[k] # n PROVE Before(J, parent[k], k)
    <3>1. PICK i \in 1..Len(s) : k \in {s[i]} \cup Below(s[i])
      BY <2>8 DEF Below
    <3>2. k \in Below(s[i])
      BY <2>1, <2>11, <3>1
    <3>3. parent[k] \notin Roots
      <4>1. parent[k] = s[i] \/ parent[k] \in Below(s[i])
        BY <2>1, <3>2, BelowFacts
      <4> QED BY <2>1, <4>1, TreeFacts
    <3>4. ListsSubtree(P[s[i]], s[i], first)
      BY <2>1
    <3>5. Before(P[s[i]], parent[k], k)
      BY <2>11, <3>2, <3>3, <3>4 DEF ListsSubtree
    <3> QED BY <2>7, <3>5
  <2> QED BY <2>2, <2>6, <2>7, <2>9, <2>10, <2>11 DEF ListsBelow
<1> QED BY <1>1, <1>2

(* A walk lists each subtree.                                              *)
LEMMA WalkLists ==
  ASSUME TreeInv, NEW first \in BOOLEAN, NEW P, IsWalk(P, first), NEW top \in Nodes
  PROVE  ListsSubtree(P[top], top, first)
<1> DEFINE bad == {n \in Nodes : ~ ListsSubtree(P[n], n, first)}
<1> SUFFICES ASSUME bad # {} PROVE FALSE
  OBVIOUS
<1>1. PICK n \in bad : \A m \in bad : parent[m] # n
  <2>1. bad \in SUBSET Nodes /\ bad # {}
    OBVIOUS
  <2>2. parent \in [Nodes -> Containers \cup {NoNode}] /\ Forest!IsForest(parent)
    BY TreeFacts
  <2> HIDE DEF bad
  <2> QED BY <2>1, <2>2, LowestNode
<1>2. n \in Nodes /\ \A k \in Nodes : parent[k] = n => ListsSubtree(P[k], k, first)
  BY <1>1
<1> DEFINE I == Inside(P, n)
           O == Own(n)
<1>3. ListsBelow(I, n, first)
  BY <1>2, InsideLists
<1>4. /\ O \in Seq(Nodes) /\ IsInjective(O) /\ ToSet(O) = {n} \ Roots
      /\ I \in Seq(Nodes) /\ IsInjective(I) /\ ToSet(I) = Below(n)
      /\ ToSet(I) \cap ToSet(O) = {}
  <2>1. n \notin Below(n) /\ n \in Nodes
    BY <1>2 DEF Below
  <2>2. O \in Seq(Nodes) /\ IsInjective(O) /\ ToSet(O) = {n} \ Roots
    BY <2>1 DEF Own, IsInjective, ToSet
  <2> QED BY <1>3, <2>1, <2>2 DEF ListsBelow
<1>5. P[n] = IF first THEN O \o I ELSE I \o O
  BY <1>2 DEF IsWalk, Written
<1> HIDE DEF I, O
<1>6. /\ P[n] \in Seq(Nodes) /\ ToSet(P[n]) = ToSet(I) \cup ToSet(O) /\ IsInjective(P[n])
      /\ \A x, y : Before(I, x, y) => Before(P[n], x, y)
      /\ first => \A x \in ToSet(O), y \in ToSet(I) : Before(P[n], x, y)
  <2>1. CASE first
    BY <1>4, <1>5, <2>1, ConcatElements, ConcatInjective, BeforeConcat, ConcatFacts
  <2>2. CASE ~first
    BY <1>4, <1>5, <2>2, ConcatElements, ConcatInjective, BeforeConcat, ConcatFacts
  <2> QED BY <2>1, <2>2
<1>7. ToSet(P[n]) = Subtree(n) \ Roots
  BY <1>2, <1>4, <1>6, TreeFacts DEF Subtree
<1>8. ASSUME first, NEW k \in Below(n), parent[k] \notin Roots PROVE Before(P[n], parent[k], k)
  <2>1. CASE parent[k] = n
    BY <1>2, <1>4, <1>6, <1>8, <2>1
  <2>2. CASE parent[k] # n
    BY <1>3, <1>6, <1>8, <2>2 DEF ListsBelow
  <2> QED BY <2>1, <2>2
<1>9. ListsSubtree(P[n], n, first)
  BY <1>3, <1>6, <1>7, <1>8 DEF ListsBelow, ListsSubtree
<1> QED BY <1>1, <1>9

-----------------------------------------------------------------------------
(* In a list without a repeat, of two nodes one stands before the other.   *)
LEMMA BeforeAsymmetric ==
  ASSUME NEW s \in Seq(Nodes), IsInjective(s), NEW x, NEW y, Before(s, x, y)
  PROVE  ~ Before(s, y, x)
<1>1. DOMAIN s = 1..Len(s) /\ Len(s) \in Nat
  OBVIOUS
<1> QED BY <1>1 DEF Before, IsInjective

(* s has its elements as they stand in order.                              *)
Follows(s, order) == \A i, j \in 1..Len(s) : i < j => Before(order, s[i], s[j])

(* There is one list of given nodes in a given order.                      *)
LEMMA SameOrder ==
  ASSUME NEW order \in Seq(Nodes), IsInjective(order),
         NEW a \in Seq(Nodes), NEW b \in Seq(Nodes), ToSet(a) = ToSet(b),
         Follows(a, order), Follows(b, order)
  PROVE  a = b
<1>1. /\ Len(a) \in Nat /\ DOMAIN a = 1..Len(a) /\ Len(b) \in Nat /\ DOMAIN b = 1..Len(b)
  OBVIOUS
<1>2. ASSUME NEW s \in Seq(Nodes), Follows(s, order) PROVE IsInjective(s)
  <2> SUFFICES ASSUME NEW i \in DOMAIN s, NEW j \in DOMAIN s, s[i] = s[j], i # j PROVE FALSE
    BY DEF IsInjective
  <2>1. i \in 1..Len(s) /\ j \in 1..Len(s) /\ (i < j \/ j < i)
    OBVIOUS
  <2>2. Before(order, s[i], s[i])
    BY <1>2, <2>1 DEF Follows
  <2> QED BY <2>2, BeforeAsymmetric
<1>3. IsInjective(a) /\ IsInjective(b)
  BY <1>2
<1>4. Len(a) = Len(b)
  BY <1>3, InjectiveCounts
<1> DEFINE bad == {i \in Nat : i \in 1..Len(a) /\ a[i] # b[i]}
<1>5. bad = {}
  <2> SUFFICES ASSUME bad # {} PROVE FALSE
    OBVIOUS
  <2>1. PICK i \in bad : \A j \in bad : i <= j
    BY LeastNat
  <2>2. i \in 1..Len(a) /\ a[i] # b[i] /\ \A j \in 1..Len(a) : j < i => a[j] = b[j]
    BY <1>1, <2>1
  <2>3. PICK k \in 1..Len(b) : b[k] = a[i]
    BY <1>1, <2>2 DEF ToSet
  <2>4. PICK m \in 1..Len(a) : a[m] = b[i]
    BY <1>1, <1>4, <2>2 DEF ToSet
  <2> HIDE DEF bad
  <2>5. i < k /\ i < m
    BY <1>1, <1>3, <1>4, <2>2, <2>3, <2>4 DEF IsInjective
  <2>6. Before(order, a[i], b[i]) /\ Before(order, b[i], a[i])
    BY <1>4, <2>2, <2>3, <2>4, <2>5 DEF Follows
  <2> QED BY <2>6, BeforeAsymmetric
<1>6. \A i \in 1..Len(a) : a[i] = b[i]
  BY <1>1, <1>5
<1> QED BY <1>1, <1>4, <1>6

(***************************************************************************)
(* What a reader builds: nodes attached one after the other.               *)
(***************************************************************************)
(* What a reader has loaded without an error.                              *)
Trees(id) ==
  [up : [Nodes -> Containers \cup {NoNode}], kids : [Containers -> Seq(Nodes)],
   raw : [Nodes -> [Fields -> Values]], flags : [Nodes -> SUBSET Inheritable],
   rootID : {id}, error : {"nil"}]

(* A root alone.                                                           *)
Bare(start) ==
  /\ start \in Trees(start.rootID)
  /\ \A n \in Nodes : start.up[n] = NoNode /\ start.flags[n] = {}
  /\ \A c \in Containers : start.kids[c] = <<>>

(* The nodes s, with the values v and flags g that were read for them, and *)
(* the containers p they are hung in.                                      *)
Readings(s, p, v, g) ==
  /\ s \in Seq(Nodes) /\ IsInjective(s) /\ ToSet(s) \cap Roots = {}
  /\ p \in [1..Len(s) -> Containers]
  /\ v \in [1..Len(s) -> [Fields -> Values]]
  /\ g \in [1..Len(s) -> SUBSET Inheritable]

(* acc is the tree after each of the first k of them.                      *)
Hung(acc, s, p, v, g, start, k) ==
  /\ acc[0] = start
  /\ \A i \in 1..k : /\ acc[i] = Added(Filled(acc[i-1], s[i], v[i], g[i]), p[i], s[i])
                     /\ \/ p[i] = NewRoot
                        \/ s[i] \notin Forest!AncestorsOrSelf(p[i], acc[i-1].up)

(* t holds the first k of them where they were hung, siblings in the order *)
(* in which they were, and is otherwise as it was at the start.            *)
Grown(t, s, p, v, g, start, k) ==
  /\ t \in Trees(start.rootID) /\ Forest!IsForest(t.up) /\ Linked(t)
  /\ \A i \in 1..k : t.up[s[i]] = p[i] /\ t.raw[s[i]] = v[i] /\ t.flags[s[i]] = g[i]
  /\ \A n \in Nodes : (\A i \in 1..k : s[i] # n) =>
       t.up[n] = NoNode /\ t.raw[n] = start.raw[n] /\ t.flags[n] = {}
  /\ \A c \in Containers : Follows(t.kids[c], s)

(* Nothing is above a node that hangs nowhere.                             *)
LEMMA AloneOnTop ==
  ASSUME NEW up \in [Nodes -> Containers \cup {NoNode}], NEW c \in Containers, up[c] = NoNode
  PROVE  Forest!AncestorsOrSelf(c, up) = {c}
BY AncestorsUnfold

(* new is the tree of these fields with a node filled in and attached.     *)
IsHung(new, up, kids, raws, flags, id, n, values, read, c) ==
  /\ new = [up |-> new.up, kids |-> new.kids, raw |-> new.raw, flags |-> new.flags,
            rootID |-> id, error |-> "nil"]
  /\ new.up = [up EXCEPT ![n] = c] /\ new.kids = [kids EXCEPT ![c] = Append(@, n)]
  /\ new.raw = [raws EXCEPT ![n] = values] /\ new.flags = [flags EXCEPT ![n] = read]

(* Filling a node in and attaching it change two fields each.              *)
LEMMA HungRecord ==
  ASSUME NEW up, NEW kids, NEW raws, NEW flags, NEW id, NEW t,
         t = [up |-> up, kids |-> kids, raw |-> raws, flags |-> flags, rootID |-> id, error |-> "nil"],
         NEW n, NEW values, NEW read, NEW c, NEW new, new = Added(Filled(t, n, values, read), c, n)
  PROVE  IsHung(new, up, kids, raws, flags, id, n, values, read, c)
<1>1. PICK x, y, a, b : /\ x = [raws EXCEPT ![n] = values] /\ y = [flags EXCEPT ![n] = read]
                        /\ a = [up EXCEPT ![n] = c] /\ b = [kids EXCEPT ![c] = Append(@, n)]
  OBVIOUS
<1>2. PICK t1 : t1 = [t EXCEPT !.raw[n] = values]
  OBVIOUS
<1>3. t1 = [t EXCEPT !.raw = x]
  BY <1>1, <1>2
<1>4. t1 = [up |-> up, kids |-> kids, raw |-> x, flags |-> flags, rootID |-> id, error |-> "nil"]
  BY <1>3
<1>5. PICK t2 : t2 = [t1 EXCEPT !.flags[n] = read]
  OBVIOUS
<1>6. t1.flags = flags
  BY <1>4
<1>7. t2 = [t1 EXCEPT !.flags = y]
  BY <1>1, <1>5, <1>6
<1>8. t2 = [up |-> up, kids |-> kids, raw |-> x, flags |-> y, rootID |-> id, error |-> "nil"]
  BY <1>4, <1>7
<1>9. PICK t3 : t3 = [t2 EXCEPT !.up[n] = c]
  OBVIOUS
<1>10. t2.up = up
  BY <1>8
<1>11. t3 = [t2 EXCEPT !.up = a]
  BY <1>1, <1>9, <1>10
<1>12. t3 = [up |-> a, kids |-> kids, raw |-> x, flags |-> y, rootID |-> id, error |-> "nil"]
  BY <1>8, <1>11
<1>13. PICK t4 : t4 = [t3 EXCEPT !.kids[c] = Append(@, n)]
  OBVIOUS
<1>14. t3.kids = kids
  BY <1>12
<1>15. t4 = [t3 EXCEPT !.kids = b]
  BY <1>1, <1>13, <1>14
<1>16. t4 = [up |-> a, kids |-> b, raw |-> x, flags |-> y, rootID |-> id, error |-> "nil"]
  BY <1>12, <1>15
<1>17. new = t4
  <2>1. t2 = Filled(t, n, values, read)
    BY <1>2, <1>5 DEF Filled
  <2> QED BY <1>9, <1>13, <2>1 DEF Added
<1>18. new.up = a /\ new.kids = b /\ new.raw = x /\ new.flags = y
  BY <1>16, <1>17
<1> QED BY <1>1, <1>16, <1>17, <1>18 DEF IsHung

(* One more node.                                                          *)
LEMMA GrowthStep ==
  ASSUME NEW s, NEW p, NEW v, NEW g, Readings(s, p, v, g),
         NEW start, NEW k \in 0..Len(s), k + 1 \in 1..Len(s),
         NEW t, Grown(t, s, p, v, g, start, k),
         \/ p[k+1] = NewRoot
         \/ s[k+1] \notin Forest!AncestorsOrSelf(p[k+1], t.up)
  PROVE  Grown(Added(Filled(t, s[k+1], v[k+1], g[k+1]), p[k+1], s[k+1]), s, p, v, g, start, k + 1)
<1> DEFINE n == s[k+1]
           c == p[k+1]
           new == Added(Filled(t, n, v[k+1], g[k+1]), c, n)
<1>1. /\ Len(s) \in Nat /\ k \in Nat /\ DOMAIN s = 1..Len(s)
      /\ \A i \in 1..Len(s) : s[i] \in Nodes /\ s[i] \notin Roots
      /\ \A i, j \in 1..Len(s) : s[i] = s[j] => i = j
      /\ c \in Containers /\ v[k+1] \in [Fields -> Values] /\ g[k+1] \in SUBSET Inheritable
  BY DEF Readings, IsInjective, ToSet
<1>2. /\ t.up \in [Nodes -> Containers \cup {NoNode}] /\ t.kids \in [Containers -> Seq(Nodes)]
      /\ t.raw \in [Nodes -> [Fields -> Values]] /\ t.flags \in [Nodes -> SUBSET Inheritable]
      /\ t = [up |-> t.up, kids |-> t.kids, raw |-> t.raw, flags |-> t.flags,
              rootID |-> start.rootID, error |-> "nil"]
  BY DEF Grown, Trees
<1>3. n \in Nodes /\ n \notin Roots /\ \A i \in 1..k : s[i] # n /\ i \in 1..Len(s)
  BY <1>1
<1>4. /\ new.up = [t.up EXCEPT ![n] = c] /\ new.kids = [t.kids EXCEPT ![c] = Append(@, n)]
      /\ new.raw = [t.raw EXCEPT ![n] = v[k+1]] /\ new.flags = [t.flags EXCEPT ![n] = g[k+1]]
      /\ new = [up |-> new.up, kids |-> new.kids, raw |-> new.raw, flags |-> new.flags,
                rootID |-> start.rootID, error |-> "nil"]
  <2>1. PICK up, kids, raws, flags, id, m, d, w, h :
          /\ up = t.up /\ kids = t.kids /\ raws = t.raw /\ flags = t.flags /\ id = start.rootID
          /\ m = n /\ d = c /\ w = v[k+1] /\ h = g[k+1]
    OBVIOUS
  <2>2. new = Added(Filled(t, m, w, h), d, m)
    BY <2>1
  <2>3. t = [up |-> up, kids |-> kids, raw |-> raws, flags |-> flags, rootID |-> id, error |-> "nil"]
    BY <1>2, <2>1
  <2> HIDE DEF new, n, c
  <2>4. IsHung(new, up, kids, raws, flags, id, m, w, h, d)
    BY <2>2, <2>3, HungRecord
  <2> QED BY <2>1, <2>4 DEF IsHung
<1>5. t.up[n] = NoNode /\ \A d \in Containers : n \notin ToSet(t.kids[d])
  BY <1>3, NodesFacts DEF Grown, Linked
<1> HIDE DEF new, n, c
<1>6. Append(t.kids[c], n) \in Seq(Nodes)
  BY <1>1, <1>2, <1>3
<1>7. new \in Trees(start.rootID)
  <2>1. new.up \in [Nodes -> Containers \cup {NoNode}] /\ new.kids \in [Containers -> Seq(Nodes)]
    BY <1>1, <1>2, <1>3, <1>4, <1>6
  <2>2. new.raw \in [Nodes -> [Fields -> Values]] /\ new.flags \in [Nodes -> SUBSET Inheritable]
    BY <1>1, <1>2, <1>3, <1>4
  <2>3. new = [up |-> new.up, kids |-> new.kids, raw |-> new.raw, flags |-> new.flags,
               rootID |-> start.rootID, error |-> "nil"]
    BY <1>4
  <2> QED BY <2>1, <2>2, <2>3 DEF Trees
<1>8. n \notin Forest!AncestorsOrSelf(c, t.up)
  <2>1. CASE c = NewRoot
    <3>1. NewRoot \in Containers /\ NewRoot \in Nodes /\ \A i \in 1..Len(s) : s[i] # NewRoot
      BY <1>1, DocumentsAssumption, TreeAssumption DEF Nodes
    <3>2. t.up[NewRoot] = NoNode
      BY <1>3, <3>1 DEF Grown
    <3> QED BY <1>2, <1>3, <2>1, <3>1, <3>2, AloneOnTop, DocumentsAssumption
  <2> QED BY <2>1 DEF n, c
<1>9. Forest!IsForest(new.up)
  <2>1. Forest!IsForest(t.up) /\ c \in Containers
    BY <1>1 DEF Grown, c
  <2>2. Forest!IsForest([t.up EXCEPT ![n] = c])
    BY <1>2, <1>3, <1>8, <2>1, ReparentKeepsForest
  <2> QED BY <1>4, <2>2
<1>10. ASSUME NEW d \in Containers
       PROVE  /\ IsInjective(new.kids[d])
              /\ ToSet(new.kids[d]) = ToSet(t.kids[d]) \cup (IF d = c THEN {n} ELSE {})
              /\ Follows(new.kids[d], s)
  <2> DEFINE a == t.kids[d]
  <2>1. a \in Seq(Nodes) /\ IsInjective(a) /\ Follows(a, s) /\ n \notin ToSet(a)
    BY <1>2, <1>5 DEF Grown, Linked
  <2>2. CASE d # c
    BY <1>2, <1>4, <2>1, <2>2
  <2>3. CASE d = c
    <3> DEFINE b == Append(a, n)
    <3>1. new.kids[d] = b
      BY <1>2, <1>4, <2>3
    <3> HIDE DEF a
    <3>2. /\ Len(b) = Len(a) + 1 /\ b[Len(a) + 1] = n /\ \A i \in 1..Len(a) : b[i] = a[i]
          /\ DOMAIN b = 1..Len(b) /\ DOMAIN a = 1..Len(a) /\ Len(a) \in Nat
      BY <1>3, <2>1
    <3> HIDE DEF b
    <3>3. ToSet(b) = ToSet(a) \cup {n}
      BY <3>2 DEF ToSet
    <3>4. IsInjective(b)
      <4> SUFFICES ASSUME NEW i \in 1..Len(b), NEW j \in 1..Len(b), b[i] = b[j] PROVE i = j
        BY <3>2 DEF IsInjective
      <4>1. \A q \in 1..Len(a) : a[q] # n
        BY <2>1, <3>2 DEF ToSet
      <4> QED BY <2>1, <3>2, <4>1 DEF IsInjective
    <3>5. \A i \in 1..Len(a) : Before(s, a[i], n)
      <4> SUFFICES ASSUME NEW i \in 1..Len(a) PROVE Before(s, a[i], n)
        OBVIOUS
      <4>1. a[i] \in ToSet(a) /\ a[i] \in Nodes
        BY <2>1, <3>2 DEF ToSet
      <4>2. t.up[a[i]] = d
        BY <4>1 DEF Grown, Linked, a
      <4>3. PICK j \in 1..k : s[j] = a[i]
        BY <4>1, <4>2, NodesFacts DEF Grown
      <4> QED BY <1>1, <4>3 DEF Before, n
    <3>6. Follows(b, s)
      <4> SUFFICES ASSUME NEW i \in 1..Len(b), NEW j \in 1..Len(b), i < j
                   PROVE  Before(s, b[i], b[j])
        BY DEF Follows
      <4>1. i \in 1..Len(a) /\ (j \in 1..Len(a) \/ j = Len(a) + 1)
        BY <3>2
      <4> QED BY <2>1, <3>2, <3>5, <4>1 DEF Follows
    <3> QED BY <2>3, <3>1, <3>3, <3>4, <3>6 DEF a
  <2> QED BY <2>2, <2>3
<1>11. Linked(new)
  <2>1. ASSUME NEW d \in Containers, NEW m \in Nodes
        PROVE  new.up[m] = d <=> m \in ToSet(new.kids[d])
    <3>1. t.up[m] = d <=> m \in ToSet(t.kids[d])
      BY DEF Grown, Linked
    <3>2. new.up[m] = IF m = n THEN c ELSE t.up[m]
      BY <1>2, <1>4
    <3>3. m \in ToSet(new.kids[d]) <=> m \in ToSet(t.kids[d]) \/ (d = c /\ m = n)
      BY <1>10
    <3> QED BY <1>5, <3>1, <3>2, <3>3
  <2> QED BY <1>10, <2>1 DEF Linked
<1>12. ASSUME NEW i \in 1..k+1
       PROVE  new.up[s[i]] = p[i] /\ new.raw[s[i]] = v[i] /\ new.flags[s[i]] = g[i]
  <2>1. CASE i = k + 1
    BY <1>2, <1>3, <1>4, <2>1 DEF n, c
  <2>2. CASE i \in 1..k
    BY <1>1, <1>2, <1>3, <1>4, <2>2 DEF Grown
  <2> QED BY <1>1, <2>1, <2>2
<1>13. ASSUME NEW m \in Nodes, \A i \in 1..k+1 : s[i] # m
       PROVE  new.up[m] = NoNode /\ new.raw[m] = start.raw[m] /\ new.flags[m] = {}
  <2>1. m # n /\ \A i \in 1..k : s[i] # m
    BY <1>1, <1>13 DEF n
  <2>2. t.up[m] = NoNode /\ t.raw[m] = start.raw[m] /\ t.flags[m] = {}
    BY <2>1 DEF Grown
  <2> QED BY <1>2, <1>4, <2>1, <2>2
<1> QED BY <1>7, <1>9, <1>10, <1>11, <1>12, <1>13 DEF Grown, new, n, c

(* All of them.                                                            *)
LEMMA Growth ==
  ASSUME NEW s, NEW p, NEW v, NEW g, Readings(s, p, v, g), NEW start, Bare(start),
         NEW acc, NEW k \in 0..Len(s), Hung(acc, s, p, v, g, start, k)
  PROVE  \A i \in 0..k : Grown(acc[i], s, p, v, g, start, i)
<1> DEFINE T == {i \in Nat : i \in 0..k => Grown(acc[i], s, p, v, g, start, i)}
<1>0. Len(s) \in Nat /\ k \in Nat /\ s \in Seq(Nodes)
  BY DEF Readings
<1>1. 0 \in T
  <2>1. acc[0] = start /\ start \in Trees(start.rootID)
    BY DEF Hung, Bare
  <2>2. Forest!IsForest(start.up)
    BY NodesFacts DEF Bare, Forest!IsForest
  <2>3. Linked(start) /\ \A c \in Containers : Follows(start.kids[c], s)
    <3>1. Len(<<>>) = 0 /\ ToSet(<<>>) = {} /\ IsInjective(<<>>)
      BY DEF ToSet, IsInjective
    <3> QED BY <3>1, NodesFacts DEF Bare, Linked, Follows
  <2>4. Grown(start, s, p, v, g, start, 0)
    BY <2>1, <2>2, <2>3 DEF Grown, Bare
  <2> QED BY <2>1, <2>4
<1>2. ASSUME NEW i \in Nat, i \in T PROVE i + 1 \in T
  <2> SUFFICES ASSUME i + 1 \in 0..k PROVE Grown(acc[i+1], s, p, v, g, start, i + 1)
    OBVIOUS
  <2>1. i \in 0..k /\ i \in 0..Len(s) /\ i + 1 \in 1..Len(s) /\ i + 1 \in 1..k /\ (i + 1) - 1 = i
    BY <1>0
  <2>2. Grown(acc[i], s, p, v, g, start, i)
    BY <1>2, <2>1
  <2>3. /\ acc[i+1] = Added(Filled(acc[i], s[i+1], v[i+1], g[i+1]), p[i+1], s[i+1])
        /\ p[i+1] = NewRoot \/ s[i+1] \notin Forest!AncestorsOrSelf(p[i+1], acc[i].up)
    BY <2>1 DEF Hung
  <2> QED BY <2>1, <2>2, <2>3, GrowthStep
<1>3. Nat \subseteq T
  <2> HIDE DEF T
  <2> QED BY <1>1, <1>2, Induction
<1> QED BY <1>0, <1>3

-----------------------------------------------------------------------------
(* The container a record asks for.                                        *)
ParentIn(containers, rec) == IF rec.parentID \in containers THEN rec.parentID ELSE NewRoot

(* A turn of the loop of either reader.                                    *)
Turn(how, t, x) ==
  IF how.format = "csv" THEN Attach(t, x, ParentIn(how.containers, x))
  ELSE addNode(t, x, how.version, how.password)

(* acc is the tree after each turn.                                        *)
Turns(acc, how, start, s) ==
  acc[0] = start /\ \A i \in 1..Len(s) : acc[i] = Turn(how, acc[i-1], s[i])

(* h is the recursive function behind the loop over n elements.            *)
IsLoop(h, how, start, s, n) ==
  h = [t \in SUBSET (1..n) |-> IF t = {} THEN start ELSE Turn(how, h[t \ {Top(t)}], s[Top(t)])]

(* It exists ...                                                           *)
LEMMA TurnsDefined ==
  ASSUME NEW how, NEW start, NEW s, NEW n \in Nat
  PROVE  \E h : IsLoop(h, how, start, s, n)
<1> DEFINE Body(h, t) == IF t = {} THEN start ELSE Turn(how, h[t \ {Top(t)}], s[Top(t)])
           Iterates(h, k) == h = [t \in SUBSET (1..k) |-> Body(h, t)]
           S == {k \in Nat : \E h : Iterates(h, k)}
<1>1. 0 \in S
  <2>1. \A t \in SUBSET (1..0) : t = {}
    OBVIOUS
  <2>2. Iterates([t \in SUBSET (1..0) |-> start], 0)
    BY <2>1
  <2> HIDE DEF Iterates
  <2> QED BY <2>2
<1>2. ASSUME NEW k \in Nat, k \in S PROVE k + 1 \in S
  <2>1. PICK h : Iterates(h, k)
    BY <1>2
  <2> DEFINE g == [t \in SUBSET (1..k+1) |->
                     IF t \in SUBSET (1..k) THEN h[t] ELSE Turn(how, h[t \ {k+1}], s[k+1])]
  <2>2. ASSUME NEW t \in SUBSET (1..k+1) PROVE g[t] = Body(g, t)
    <3>1. CASE t = {}
      BY <2>1, <3>1
    <3>2. CASE t # {} /\ t \in SUBSET (1..k)
      <4>1. h[t] = Turn(how, h[t \ {Top(t)}], s[Top(t)])
        BY <2>1, <3>2
      <4>2. t \ {Top(t)} \in SUBSET (1..k) /\ t \ {Top(t)} \in SUBSET (1..k+1)
        BY <3>2
      <4>3. g[t] = h[t] /\ g[t \ {Top(t)}] = h[t \ {Top(t)}]
        BY <3>2, <4>2
      <4> QED BY <3>2, <4>1, <4>3
    <3>3. CASE t # {} /\ t \notin SUBSET (1..k)
      <4>1. k + 1 \in t /\ \A y \in t : k + 1 >= y
        BY <3>3
      <4>2. Top(t) = k + 1
        <5>1. Top(t) \in t /\ \A y \in t : Top(t) >= y
          BY <4>1 DEF Top
        <5>2. Top(t) \in 1..k+1 /\ Top(t) >= k + 1
          BY <4>1, <5>1
        <5> QED BY <5>2
      <4>3. t \ {k+1} \in SUBSET (1..k) /\ t \ {k+1} \in SUBSET (1..k+1)
        OBVIOUS
      <4>4. g[t] = Turn(how, h[t \ {k+1}], s[k+1]) /\ g[t \ {k+1}] = h[t \ {k+1}]
        BY <3>3, <4>3
      <4> QED BY <3>3, <4>2, <4>4
    <3> QED BY <3>1, <3>2, <3>3
  <2>3. Iterates(g, k + 1)
    <3> HIDE DEF Body
    <3>1. g = [t \in SUBSET (1..k+1) |-> g[t]]
      OBVIOUS
    <3> HIDE DEF g
    <3> QED BY <2>2, <3>1
  <2> HIDE DEF Iterates, g
  <2> QED BY <2>3
<1>3. n \in S
  <2> HIDE DEF S
  <2> QED BY <1>1, <1>2, Induction
<1>4. PICK h : Iterates(h, n)
  BY <1>3
<1> QED BY <1>4 DEF IsLoop

(* ... and its value for all indices is the tree after the last turn.      *)
LEMMA TurnsTaken ==
  ASSUME NEW how, NEW start, NEW B, NEW s \in Seq(B), NEW iter,
         IsLoop(iter, how, start, s, Len(s))
  PROVE  \E acc : Turns(acc, how, start, s) /\ acc[Len(s)] = iter[DOMAIN s]
<1> DEFINE n == Len(s)
           acc == [i \in 0..n |-> iter[1..i]]
<1>0. n \in Nat /\ DOMAIN s = 1..n /\ 1..0 = {} /\ n \in 0..n
  OBVIOUS
<1>4. iter = [t \in SUBSET (1..n) |-> IF t = {} THEN start ELSE Turn(how, iter[t \ {Top(t)}], s[Top(t)])]
  BY DEF IsLoop
<1>1. acc[0] = start
  BY <1>0, <1>4
<1>2. ASSUME NEW i \in 1..n PROVE acc[i] = Turn(how, acc[i-1], s[i])
  <2> HIDE DEF n
  <2>1. 1..i \in SUBSET (1..n) /\ 1..i # {} /\ Top(1..i) = i /\ (1..i) \ {i} = 1..(i-1)
    BY <1>0, TopFacts
  <2>2. iter[1..i] = Turn(how, iter[(1..i) \ {Top(1..i)}], s[Top(1..i)])
    BY <1>4, <2>1
  <2>3. acc[i] = iter[1..i] /\ acc[i-1] = iter[1..(i-1)]
    BY <1>0
  <2> QED BY <2>1, <2>2, <2>3
<1>3. acc[n] = iter[DOMAIN s]
  BY <1>0
<1> HIDE DEF acc
<1> QED BY <1>1, <1>2, <1>3 DEF Turns

(* What a CSV reader builds of records without a duplicate.                *)
ContainersOf(records) == {records[i].node : i \in {j \in DOMAIN records : records[j].isContainer}}
CsvWay(records) == [format |-> "csv", containers |-> ContainersOf(records)]
CsvStart(records) == [NewTree EXCEPT !.rootID = omittedRootID(records)]

(* It takes a turn for each of them.                                       *)
LEMMA TreeOfTurns ==
  ASSUME NEW B, NEW records \in Seq(B), ~ HasDuplicate(records)
  PROVE  \E acc : /\ Turns(acc, CsvWay(records), CsvStart(records), records)
                  /\ TreeOf(records) = acc[Len(records)]
<1> DEFINE C == ContainersOf(records)
           ParentOf(rec) == IF rec.parentID \in C THEN rec.parentID ELSE NewRoot
           start == CsvStart(records)
           Solves(h) == h = [t \in SUBSET DOMAIN records |-> IF t = {} THEN start
                              ELSE Attach(h[t \ {Top(t)}], records[Top(t)], ParentOf(records[Top(t)]))]
           iter == CHOOSE h : Solves(h)
<1>1. TreeOf(records) = iter[DOMAIN records]
  BY Zenon DEF TreeOf, FoldLeft, MapThenFoldSet, Max, Top, ContainersOf, CsvStart
<1>2. \A t, rec : Turn(CsvWay(records), t, rec) = Attach(t, rec, ParentOf(rec))
  BY DEF Turn, CsvWay, ParentIn
<1>3. Solves(iter)
  <2>1. Len(records) \in Nat /\ DOMAIN records = 1..Len(records)
    OBVIOUS
  <2>2. PICK h : IsLoop(h, CsvWay(records), start, records, Len(records))
    <3> HIDE DEF start
    <3> QED BY <2>1, TurnsDefined
  <2>3. Solves(h)
    <3> HIDE DEF ParentOf, start
    <3> QED BY <1>2, <2>1, <2>2 DEF IsLoop
  <2> HIDE DEF Solves
  <2> QED BY <2>3
<1>4. IsLoop(iter, CsvWay(records), start, records, Len(records))
  <2>1. DOMAIN records = 1..Len(records)
    OBVIOUS
  <2> HIDE DEF iter, ParentOf, start
  <2> QED BY <1>2, <1>3, <2>1 DEF IsLoop
<1> HIDE DEF iter, start
<1>5. PICK acc : Turns(acc, CsvWay(records), start, records)
                 /\ acc[Len(records)] = iter[DOMAIN records]
  BY <1>4, TurnsTaken
<1> QED BY <1>1, <1>5 DEF start

(* An XML reader takes a turn for each element.                            *)
XmlWay(version, password) == [format |-> "xml", version |-> version, password |-> password]

XmlLoaded(nodes, start, version, password) ==
  FoldLeft(LAMBDA t, element : addNode(t, element, version, password), start, nodes)

(* ... each as Turns has it.                                               *)
LEMMA XmlTurns ==
  ASSUME NEW version, NEW password, NEW start, NEW B, NEW nodes \in Seq(B)
  PROVE  \E acc : /\ Turns(acc, XmlWay(version, password), start, nodes)
                  /\ XmlLoaded(nodes, start, version, password) = acc[Len(nodes)]
<1> DEFINE result == XmlLoaded(nodes, start, version, password)
           Solves(h) == h = [t \in SUBSET DOMAIN nodes |-> IF t = {} THEN start
                              ELSE addNode(h[t \ {Top(t)}], nodes[Top(t)], version, password)]
           iter == CHOOSE h : Solves(h)
<1>1. result = iter[DOMAIN nodes]
  BY Zenon DEF XmlLoaded, FoldLeft, MapThenFoldSet, Max, Top
<1>2. \A t, x : Turn(XmlWay(version, password), t, x) = addNode(t, x, version, password)
  BY DEF Turn, XmlWay
<1>3. Solves(iter)
  <2>1. Len(nodes) \in Nat /\ DOMAIN nodes = 1..Len(nodes)
    OBVIOUS
  <2>2. PICK h : IsLoop(h, XmlWay(version, password), start, nodes, Len(nodes))
    BY <2>1, TurnsDefined
  <2>3. Solves(h)
    BY <1>2, <2>1, <2>2 DEF IsLoop
  <2> HIDE DEF Solves
  <2> QED BY <2>3
<1>4. IsLoop(iter, XmlWay(version, password), start, nodes, Len(nodes))
  <2>1. DOMAIN nodes = 1..Len(nodes)
    OBVIOUS
  <2> HIDE DEF iter
  <2> QED BY <1>2, <1>3, <2>1 DEF IsLoop
<1> HIDE DEF iter, result
<1>5. PICK acc : Turns(acc, XmlWay(version, password), start, nodes)
                 /\ acc[Len(nodes)] = iter[DOMAIN nodes]
  BY <1>4, TurnsTaken
<1>6. Turns(acc, XmlWay(version, password), start, nodes) /\ result = acc[Len(nodes)]
  BY <1>1, <1>5
<1> QED BY <1>6 DEF result

(***************************************************************************)
(* The columns of a CSV document.                                          *)
(***************************************************************************)
(* A column as a record of the table.                                      *)
IsColumn(d, header, source, field, filter) ==
  d.header = header /\ d.source = source /\ d.field = field /\ d.filter = filter

(* The length of the table.                                                *)
LEMMA ColumnCount ==
  DOMAIN columns = 1..30 /\ Len(columns) = 30 /\ columns \in Seq(ToSet(columns))
<1>1. DOMAIN columns = 1..30 /\ Len(columns) = 30
  BY DEF columns
<1>2. columns \in Seq(ToSet(columns))
  <2>1. columns \in [1..30 -> ToSet(columns)]
    <3>1. columns = [i \in 1..30 |-> columns[i]]
      BY <1>1 DEF columns
    <3>2. \A i \in 1..30 : columns[i] \in ToSet(columns)
      BY <1>1 DEF ToSet
    <3> QED BY <3>1, <3>2
  <2> QED BY <2>1, SeqDef
<1> QED BY <1>1, <1>2

(* The table, entry by entry.                                              *)
LEMMA ColumnTable ==
  /\ IsColumn(columns[1], "Name", "meta", "Name", "none")
  /\ IsColumn(columns[2], "Id", "meta", "Id", "none")
  /\ IsColumn(columns[3], "Parent", "meta", "Parent", "none")
  /\ IsColumn(columns[4], "NodeType", "meta", "NodeType", "none")
  /\ IsColumn(columns[5], "Username", "value", "Username", "Username")
  /\ IsColumn(columns[6], "Password", "value", "Password", "Password")
  /\ IsColumn(columns[7], "Hostname", "value", "Hostname", "none")
  /\ IsColumn(columns[8], "Colors", "value", "Colors", "none")
  /\ IsColumn(columns[9], "CacheBitmaps", "value", "CacheBitmaps", "none")
  /\ IsColumn(columns[10], "RedirectDiskDrives", "value", "RedirectDiskDrives", "none")
  /\ IsColumn(columns[11], "RedirectDiskDrivesCustomRedirectPorts", "value", "RedirectDiskDrivesCustom", "none")
  /\ IsColumn(columns[12], "", "value", "RedirectPorts", "none")
  /\ IsColumn(columns[13], "VNCProxyUsername", "value", "VNCProxyUsername", "none")
  /\ IsColumn(columns[14], "VNCProxyPassword", "value", "VNCProxyPassword", "none")
  /\ IsColumn(columns[15], "RedirectAudioCapture", "value", "RedirectAudioCapture", "none")
  /\ IsColumn(columns[16], "RdpVersion", "value", "RDPVersion", "none")
  /\ IsColumn(columns[17], "UserViaAPI", "value", "UserViaAPI", "none")
  /\ IsColumn(columns[18], "InheritCacheBitmaps", "flag", "CacheBitmaps", "none")
  /\ IsColumn(columns[19], "InheritColors", "flag", "Colors", "none")
  /\ IsColumn(columns[20], "InheritPassword", "flag", "Password", "none")
  /\ IsColumn(columns[21], "InheritRedirectDiskDrives", "flag", "RedirectDiskDrives", "none")
  /\ IsColumn(columns[22], "InheritRedirectDiskDrivesCustom", "flag", "RedirectDiskDrivesCustom", "none")
  /\ IsColumn(columns[23], "InheritRedirectPorts", "flag", "RedirectPorts", "none")
  /\ IsColumn(columns[24], "InheritUsername", "flag", "Username", "none")
  /\ IsColumn(columns[25], "InheritVNCProxyUsername", "flag", "VNCProxyUsername", "none")
  /\ IsColumn(columns[26], "InheritVNCProxyPassword", "flag", "VNCProxyPassword", "none")
  /\ IsColumn(columns[27], "InheritSoundQuality", "flag", "SoundQuality", "none")
  /\ IsColumn(columns[28], "InheritUserViaAPI", "flag", "RedirectAudioCapture", "none")
  /\ IsColumn(columns[29], "InheritRedirectAudioCapture", "flag", "RDPVersion", "none")
  /\ IsColumn(columns[30], "InheritRdpVersion", "flag", "UserViaAPI", "none")
<1>1. /\ columns[1] = Meta("Name")
      /\ columns[2] = Meta("Id")
      /\ columns[3] = Meta("Parent")
      /\ columns[4] = Meta("NodeType")
      /\ columns[5] = Secret("Username")
      /\ columns[6] = Secret("Password")
  BY DEF columns
<1>2. /\ columns[7] = Value("Hostname", "Hostname")
      /\ columns[8] = Value("Colors", "Colors")
      /\ columns[9] = Value("CacheBitmaps", "CacheBitmaps")
      /\ columns[10] = Value("RedirectDiskDrives", "RedirectDiskDrives")
      /\ columns[11] = Value("RedirectDiskDrivesCustomRedirectPorts", "RedirectDiskDrivesCustom")
      /\ columns[12] = Value("", "RedirectPorts")
  BY DEF columns
<1>3. /\ columns[13] = Value("VNCProxyUsername", "VNCProxyUsername")
      /\ columns[14] = Value("VNCProxyPassword", "VNCProxyPassword")
      /\ columns[15] = Value("RedirectAudioCapture", "RedirectAudioCapture")
      /\ columns[16] = Value("RdpVersion", "RDPVersion")
      /\ columns[17] = Value("UserViaAPI", "UserViaAPI")
  BY DEF columns
<1>4. /\ columns[18] = Flag("InheritCacheBitmaps", "CacheBitmaps")
      /\ columns[19] = Flag("InheritColors", "Colors")
      /\ columns[20] = Flag("InheritPassword", "Password")
      /\ columns[21] = Flag("InheritRedirectDiskDrives", "RedirectDiskDrives")
      /\ columns[22] = Flag("InheritRedirectDiskDrivesCustom", "RedirectDiskDrivesCustom")
      /\ columns[23] = Flag("InheritRedirectPorts", "RedirectPorts")
      /\ columns[24] = Flag("InheritUsername", "Username")
  BY DEF columns
<1>5. /\ columns[25] = Flag("InheritVNCProxyUsername", "VNCProxyUsername")
      /\ columns[26] = Flag("InheritVNCProxyPassword", "VNCProxyPassword")
      /\ columns[27] = Flag("InheritSoundQuality", "SoundQuality")
      /\ columns[28] = Flag("InheritUserViaAPI", "RedirectAudioCapture")
      /\ columns[29] = Flag("InheritRedirectAudioCapture", "RDPVersion")
      /\ columns[30] = Flag("InheritRdpVersion", "UserViaAPI")
  BY DEF columns
<1>6. /\ \A h : IsColumn(Meta(h), h, "meta", h, "none")
      /\ \A f : IsColumn(Secret(f), f, "value", f, f)
      /\ \A h, f : IsColumn(Value(h, f), h, "value", f, "none") /\ IsColumn(Flag(h, f), h, "flag", f, "none")
  BY DEF IsColumn, Meta, Value, Secret, Flag, Column
<1> DEFINE C(i, h, s, f, g) == IsColumn(columns[i], h, s, f, g)
<1>7. /\ C(1, "Name", "meta", "Name", "none")
      /\ C(2, "Id", "meta", "Id", "none")
      /\ C(3, "Parent", "meta", "Parent", "none")
      /\ C(4, "NodeType", "meta", "NodeType", "none")
      /\ C(5, "Username", "value", "Username", "Username")
      /\ C(6, "Password", "value", "Password", "Password")
  BY <1>1, <1>6, Zenon
<1>8. /\ C(7, "Hostname", "value", "Hostname", "none")
      /\ C(8, "Colors", "value", "Colors", "none")
      /\ C(9, "CacheBitmaps", "value", "CacheBitmaps", "none")
      /\ C(10, "RedirectDiskDrives", "value", "RedirectDiskDrives", "none")
      /\ C(11, "RedirectDiskDrivesCustomRedirectPorts", "value", "RedirectDiskDrivesCustom", "none")
      /\ C(12, "", "value", "RedirectPorts", "none")
  BY <1>2, <1>6, Zenon
<1>9. /\ C(13, "VNCProxyUsername", "value", "VNCProxyUsername", "none")
      /\ C(14, "VNCProxyPassword", "value", "VNCProxyPassword", "none")
      /\ C(15, "RedirectAudioCapture", "value", "RedirectAudioCapture", "none")
      /\ C(16, "RdpVersion", "value", "RDPVersion", "none")
      /\ C(17, "UserViaAPI", "value", "UserViaAPI", "none")
  BY <1>3, <1>6, Zenon
<1>10. /\ C(18, "InheritCacheBitmaps", "flag", "CacheBitmaps", "none")
       /\ C(19, "InheritColors", "flag", "Colors", "none")
       /\ C(20, "InheritPassword", "flag", "Password", "none")
       /\ C(21, "InheritRedirectDiskDrives", "flag", "RedirectDiskDrives", "none")
       /\ C(22, "InheritRedirectDiskDrivesCustom", "flag", "RedirectDiskDrivesCustom", "none")
       /\ C(23, "InheritRedirectPorts", "flag", "RedirectPorts", "none")
       /\ C(24, "InheritUsername", "flag", "Username", "none")
  BY <1>4, <1>6, Zenon
<1>11. /\ C(25, "InheritVNCProxyUsername", "flag", "VNCProxyUsername", "none")
       /\ C(26, "InheritVNCProxyPassword", "flag", "VNCProxyPassword", "none")
       /\ C(27, "InheritSoundQuality", "flag", "SoundQuality", "none")
       /\ C(28, "InheritUserViaAPI", "flag", "RedirectAudioCapture", "none")
       /\ C(29, "InheritRedirectAudioCapture", "flag", "RDPVersion", "none")
       /\ C(30, "InheritRdpVersion", "flag", "UserViaAPI", "none")
  BY <1>5, <1>6, Zenon
<1> QED BY <1>7, <1>8, <1>9, <1>10, <1>11, Zenon

(* Its names.                                                              *)
LEMMA ColumnHeaders ==
  /\ columns[1].header = "Name"
  /\ columns[2].header = "Id"
  /\ columns[3].header = "Parent"
  /\ columns[4].header = "NodeType"
  /\ columns[5].header = "Username"
  /\ columns[6].header = "Password"
  /\ columns[7].header = "Hostname"
  /\ columns[8].header = "Colors"
  /\ columns[9].header = "CacheBitmaps"
  /\ columns[10].header = "RedirectDiskDrives"
  /\ columns[11].header = "RedirectDiskDrivesCustomRedirectPorts"
  /\ columns[13].header = "VNCProxyUsername"
  /\ columns[14].header = "VNCProxyPassword"
  /\ columns[15].header = "RedirectAudioCapture"
  /\ columns[16].header = "RdpVersion"
  /\ columns[17].header = "UserViaAPI"
  /\ columns[18].header = "InheritCacheBitmaps"
  /\ columns[19].header = "InheritColors"
  /\ columns[20].header = "InheritPassword"
  /\ columns[21].header = "InheritRedirectDiskDrives"
  /\ columns[22].header = "InheritRedirectDiskDrivesCustom"
  /\ columns[23].header = "InheritRedirectPorts"
  /\ columns[24].header = "InheritUsername"
  /\ columns[25].header = "InheritVNCProxyUsername"
  /\ columns[26].header = "InheritVNCProxyPassword"
  /\ columns[27].header = "InheritSoundQuality"
  /\ columns[28].header = "InheritUserViaAPI"
  /\ columns[29].header = "InheritRedirectAudioCapture"
  /\ columns[30].header = "InheritRdpVersion"
<1> DEFINE Named(d, h) == d.header = h
<1>1. \A d, h, s, f, g : IsColumn(d, h, s, f, g) => Named(d, h)
  BY DEF IsColumn
<1> HIDE DEF Named
<1>2. /\ Named(columns[1], "Name") /\ Named(columns[2], "Id")
      /\ Named(columns[3], "Parent") /\ Named(columns[4], "NodeType")
      /\ Named(columns[5], "Username") /\ Named(columns[6], "Password")
      /\ Named(columns[7], "Hostname") /\ Named(columns[8], "Colors")
      /\ Named(columns[9], "CacheBitmaps") /\ Named(columns[10], "RedirectDiskDrives")
  BY <1>1, ColumnTable, ZenonT(60)
<1>3. /\ Named(columns[11], "RedirectDiskDrivesCustomRedirectPorts") /\ Named(columns[13], "VNCProxyUsername")
      /\ Named(columns[14], "VNCProxyPassword") /\ Named(columns[15], "RedirectAudioCapture")
      /\ Named(columns[16], "RdpVersion") /\ Named(columns[17], "UserViaAPI")
      /\ Named(columns[18], "InheritCacheBitmaps") /\ Named(columns[19], "InheritColors")
      /\ Named(columns[20], "InheritPassword") /\ Named(columns[21], "InheritRedirectDiskDrives")
  BY <1>1, ColumnTable, ZenonT(60)
<1>4. /\ Named(columns[22], "InheritRedirectDiskDrivesCustom") /\ Named(columns[23], "InheritRedirectPorts")
      /\ Named(columns[24], "InheritUsername") /\ Named(columns[25], "InheritVNCProxyUsername")
      /\ Named(columns[26], "InheritVNCProxyPassword") /\ Named(columns[27], "InheritSoundQuality")
      /\ Named(columns[28], "InheritUserViaAPI") /\ Named(columns[29], "InheritRedirectAudioCapture")
      /\ Named(columns[30], "InheritRdpVersion")
  BY <1>1, ColumnTable, ZenonT(60)
<1> QED BY <1>2, <1>3, <1>4, Zenon DEF Named

(* One has none.                                                           *)
LEMMA ColumnUnnamed == columns[12].header = ""
<1>1. IsColumn(columns[12], "", "value", "RedirectPorts", "none")
  BY ColumnTable, Zenon
<1> QED BY <1>1 DEF IsColumn

(* There is no other.                                                      *)
LEMMA ColumnSet ==
  ASSUME NEW d \in ToSet(columns)
  PROVE  \/ d = columns[1] \/ d = columns[2] \/ d = columns[3] \/ d = columns[4] \/ d = columns[5]
         \/ d = columns[6] \/ d = columns[7] \/ d = columns[8] \/ d = columns[9] \/ d = columns[10]
         \/ d = columns[11] \/ d = columns[12] \/ d = columns[13] \/ d = columns[14] \/ d = columns[15]
         \/ d = columns[16] \/ d = columns[17] \/ d = columns[18] \/ d = columns[19] \/ d = columns[20]
         \/ d = columns[21] \/ d = columns[22] \/ d = columns[23] \/ d = columns[24] \/ d = columns[25]
         \/ d = columns[26] \/ d = columns[27] \/ d = columns[28] \/ d = columns[29] \/ d = columns[30]
<1>1. PICK j \in 1..30 : d = columns[j]
  BY ColumnCount DEF ToSet
<1>2. \/ j = 1 \/ j = 2 \/ j = 3 \/ j = 4 \/ j = 5 \/ j = 6 \/ j = 7 \/ j = 8 \/ j = 9 \/ j = 10
      \/ j = 11 \/ j = 12 \/ j = 13 \/ j = 14 \/ j = 15 \/ j = 16 \/ j = 17 \/ j = 18 \/ j = 19 \/ j = 20
      \/ j = 21 \/ j = 22 \/ j = 23 \/ j = 24 \/ j = 25 \/ j = 26 \/ j = 27 \/ j = 28 \/ j = 29 \/ j = 30
  OBVIOUS
<1> QED BY <1>1, <1>2, Zenon

(* A save writes the columns that its filter allows ...                    *)
LEMMA ActiveColumns ==
  ASSUME NEW filter
  PROVE  /\ activeColumns(filter) \in Seq(ToSet(columns))
         /\ \A d : d \in ToSet(activeColumns(filter)) <=> d \in ToSet(columns) /\ filterAllows(filter, d)
<1> DEFINE D == [d \in ToSet(columns) |-> IF filterAllows(filter, d) THEN <<d>> ELSE <<>>]
           n == Len(columns)
<1>1. columns \in Seq(ToSet(columns)) /\ n \in Nat /\ DOMAIN columns = 1..n
  BY ColumnCount
<1>2. \A i \in 1..n : columns[i] \in ToSet(columns)
  BY <1>1 DEF ToSet
<1>3. \A i \in 1..n : /\ D[columns[i]] \in Seq(ToSet(columns))
                      /\ \A x : x \in ToSet(D[columns[i]]) <=> filterAllows(filter, columns[i]) /\ x = columns[i]
  <2> SUFFICES ASSUME NEW i \in 1..n
               PROVE  /\ D[columns[i]] \in Seq(ToSet(columns))
                      /\ \A x : x \in ToSet(D[columns[i]]) <=> filterAllows(filter, columns[i]) /\ x = columns[i]
    OBVIOUS
  <2>1. PICK d : d = columns[i] /\ d \in ToSet(columns)
    BY <1>2
  <2>2. D[d] = IF filterAllows(filter, d) THEN <<d>> ELSE <<>>
    BY <2>1
  <2>3. <<d>> \in Seq(ToSet(columns)) /\ <<>> \in Seq(ToSet(columns))
    BY <2>1
  <2>4. ToSet(<<d>>) = {d} /\ ToSet(<<>>) = {}
    BY DEF ToSet
  <2> HIDE DEF D, n
  <2> QED BY <2>1, <2>2, <2>3, <2>4
<1>4. activeColumns(filter) = Joined(D, columns)
  BY DEF activeColumns
<1>5. Pieces(D, columns, ToSet(columns))
  BY <1>3 DEF Pieces
<1> HIDE DEF D
<1>6. /\ Joined(D, columns) \in Seq(ToSet(columns))
      /\ \A x : x \in ToSet(Joined(D, columns)) <=> \E j \in 1..n : x \in ToSet(D[columns[j]])
  BY <1>1, <1>5, JoinedElements
<1>7. ASSUME NEW d PROVE d \in ToSet(columns) <=> \E j \in 1..n : d = columns[j]
  BY <1>1 DEF ToSet
<1> HIDE DEF n
<1>8. ASSUME NEW d
      PROVE  d \in ToSet(Joined(D, columns)) <=> d \in ToSet(columns) /\ filterAllows(filter, d)
  <2>1. \A j \in 1..n : d \in ToSet(D[columns[j]]) <=> filterAllows(filter, columns[j]) /\ d = columns[j]
    BY <1>3
  <2>2. (\E j \in 1..n : d \in ToSet(D[columns[j]]))
          <=> (\E j \in 1..n : d = columns[j]) /\ filterAllows(filter, d)
    BY <2>1, Zenon
  <2> QED BY <1>6, <1>7, <2>2, Zenon
<1> QED BY <1>4, <1>6, <1>8

(* ... and in the header every name but the empty one.                     *)
LEMMA PublishedHeaders ==
  ASSUME NEW C, NEW active \in Seq(C), NEW h
  PROVE  h \in ToSet(publishedHeaders(active)) <=> h # "" /\ \E d \in ToSet(active) : d.header = h
<1> DEFINE D == [d \in ToSet(active) |-> IF d.header = "" THEN <<>> ELSE <<d.header>>]
           n == Len(active)
           S == {d.header : d \in ToSet(active)}
<1>1. n \in Nat /\ DOMAIN active = 1..n
  OBVIOUS
<1>2. \A i \in 1..n : active[i] \in ToSet(active)
  BY <1>1 DEF ToSet
<1>3. \A i \in 1..n : /\ D[active[i]] \in Seq(S)
                      /\ \A x : x \in ToSet(D[active[i]]) <=> x # "" /\ x = active[i].header
  <2> SUFFICES ASSUME NEW i \in 1..n
               PROVE  /\ D[active[i]] \in Seq(S)
                      /\ \A x : x \in ToSet(D[active[i]]) <=> x # "" /\ x = active[i].header
    OBVIOUS
  <2>1. PICK d : d = active[i] /\ d \in ToSet(active)
    BY <1>2
  <2>2. D[d] = IF d.header = "" THEN <<>> ELSE <<d.header>>
    BY <2>1
  <2>3. PICK e : e = d.header
    OBVIOUS
  <2>4. e \in S
    BY <2>1, <2>3
  <2>5. <<e>> \in Seq(S) /\ <<>> \in Seq(S)
    BY <2>4
  <2>6. ToSet(<<e>>) = {e} /\ ToSet(<<>>) = {}
    BY DEF ToSet
  <2> HIDE DEF D, n, S
  <2> QED BY <2>1, <2>2, <2>3, <2>5, <2>6
<1>4. publishedHeaders(active) = Joined(D, active)
  BY DEF publishedHeaders
<1>5. Pieces(D, active, S)
  BY <1>3 DEF Pieces
<1> HIDE DEF D, S
<1>6. \A x : x \in ToSet(Joined(D, active)) <=> \E j \in 1..n : x \in ToSet(D[active[j]])
  BY <1>5, JoinedElements
<1>7. ASSUME NEW d PROVE d \in ToSet(active) <=> \E j \in 1..n : d = active[j]
  BY <1>1 DEF ToSet
<1> HIDE DEF n
<1>8. h \in ToSet(Joined(D, active)) <=> \E j \in 1..n : h # "" /\ h = active[j].header
  BY <1>3, <1>6
<1> QED BY <1>4, <1>7, <1>8

(* No filter keeps the column of the name out.                             *)
LEMMA NamePublished ==
  ASSUME NEW filter
  PROVE  "Name" \in ToSet(publishedHeaders(activeColumns(filter)))
<1>1. IsColumn(columns[1], "Name", "meta", "Name", "none")
  BY ColumnTable
<1>2. columns[1] \in ToSet(columns)
  BY ColumnCount DEF ToSet
<1>3. filterAllows(filter, columns[1])
  BY <1>1 DEF filterAllows, IsColumn
<1> QED BY <1>1, <1>2, <1>3, ActiveColumns, PublishedHeaders DEF IsColumn

(* The column a heading names, when one column has that name.              *)
LEMMA HeadingFound ==
  ASSUME NEW h, NEW c \in ToSet(columns), c.header = h, \A d \in ToSet(columns) : d.header = h => d = c,
         h \notin {"RedirectDiskDrivesCustom", "RedirectPorts", "InheritUserViaAPI",
                   "InheritRedirectAudioCapture", "InheritRdpVersion"}
  PROVE  columnForHeading(h) = c
<1> DEFINE at == SelectInSeq(columns, LAMBDA d : d.header = h)
           I == {j \in 1..Len(columns) : columns[j].header = h}
<1>1. PICK i \in 1..30 : c = columns[i]
  BY ColumnCount DEF ToSet
<1>2. I \subseteq Nat /\ i \in I /\ Len(columns) = 30
  <2>1. Len(columns) = 30 /\ columns[i].header = h
    BY <1>1, ColumnCount
  <2>2. I = {j \in 1..30 : columns[j].header = h}
    BY <2>1
  <2> QED BY <2>1, <2>2
<1>3. at = IF I # {} THEN Min(I) ELSE 0
  BY DEF SelectInSeq
<1>4. Min(I) \in I
  <2> HIDE DEF I
  <2>1. PICK k \in I : \A j \in I : k <= j
    BY <1>2, LeastNat
  <2> QED BY <1>2, <2>1 DEF Min
<1>5. at \in 1..30 /\ columns[at].header = h
  <2>1. at \in I
    <3> HIDE DEF at, I
    <3> QED BY <1>2, <1>3, <1>4
  <2> HIDE DEF at
  <2> QED BY <1>2, <2>1
<1>6. columnForHeading(h) = IF at = 0 THEN Column(h, "unknown", h, "none") ELSE columns[at]
  <2> HIDE DEF I
  <2> QED BY Zenon DEF columnForHeading
<1> HIDE DEF at
<1>7. columns[at] = c /\ at # 0
  <2>1. \A j \in 1..30 : columns[j] \in ToSet(columns)
    BY ColumnCount DEF ToSet
  <2> QED BY <1>5, <2>1
<1> QED BY <1>6, <1>7

(* The header of the documents from elsewhere is read by its names.        *)
LEMMA ForeignColumns ==
  LET d == inputColumns(ForeignHeadings)
  IN  /\ d \in Seq({d[1], d[2], d[3], d[4]}) /\ Len(d) = 4
      /\ IsColumn(d[1], "Id", "meta", "Id", "none")
      /\ IsColumn(d[2], "Parent", "meta", "Parent", "none")
      /\ IsColumn(d[3], "NodeType", "meta", "NodeType", "none")
      /\ IsColumn(d[4], "InheritUserViaAPI", "flag", "UserViaAPI", "none")
<1> DEFINE d == inputColumns(ForeignHeadings)
           F == ForeignHeadings
<1>1. /\ DOMAIN F = 1..4 /\ F[1] = "Id" /\ F[2] = "Parent" /\ F[3] = "NodeType"
      /\ F[4] = "InheritUserViaAPI" /\ "Name" \notin ToSet(F)
  BY DEF ForeignHeadings, ToSet
<1>2. F # publishedHeaders(activeColumns(possibleFilters(F)))
  BY <1>1, NamePublished
<1> HIDE DEF F
<1>3. d = [i \in 1..4 |-> columnForHeading(F[i])]
  <2>1. d = inputColumns(F)
    BY DEF F
  <2>2. inputColumns(F) = [i \in DOMAIN F |-> columnForHeading(F[i])]
    BY <1>2, Zenon DEF inputColumns
  <2> QED BY <1>1, <2>1, <2>2
<1>4. columnForHeading("Id") = columns[2] /\ columnForHeading("Parent") = columns[3]
      /\ columnForHeading("NodeType") = columns[4]
  <2>1. /\ columns[2].header = "Id" /\ columns[3].header = "Parent" /\ columns[4].header = "NodeType"
        /\ \A j \in 1..4 : columns[j] \in ToSet(columns)
    BY ColumnHeaders, ColumnCount DEF ToSet
  <2>2. ASSUME NEW e \in ToSet(columns)
        PROVE  /\ e.header = "Id" => e = columns[2]
               /\ e.header = "Parent" => e = columns[3]
               /\ e.header = "NodeType" => e = columns[4]
    <3>1. e.header = "Id" => e = columns[2]
      BY ColumnSet, ColumnHeaders, ColumnUnnamed, Zenon
    <3>2. e.header = "Parent" => e = columns[3]
      BY ColumnSet, ColumnHeaders, ColumnUnnamed, Zenon
    <3>3. e.header = "NodeType" => e = columns[4]
      BY ColumnSet, ColumnHeaders, ColumnUnnamed, Zenon
    <3> QED BY <3>1, <3>2, <3>3
  <2> QED BY <2>1, <2>2, HeadingFound
<1>5. columnForHeading("InheritUserViaAPI") = Flag("InheritUserViaAPI", "UserViaAPI")
  BY DEF columnForHeading
<1>6. IsColumn(Flag("InheritUserViaAPI", "UserViaAPI"), "InheritUserViaAPI", "flag", "UserViaAPI", "none")
  BY DEF IsColumn, Flag, Column
<1>7. d \in Seq({d[1], d[2], d[3], d[4]}) /\ Len(d) = 4
  <2>1. d \in [1..4 -> {d[1], d[2], d[3], d[4]}]
    <3>1. \A i \in 1..4 : i = 1 \/ i = 2 \/ i = 3 \/ i = 4
      OBVIOUS
    <3>2. d = [i \in 1..4 |-> d[i]]
      BY <1>3
    <3> HIDE DEF d
    <3>3. \A i \in 1..4 : d[i] \in {d[1], d[2], d[3], d[4]}
      BY <3>1
    <3> QED BY <3>2, <3>3
  <2>2. PICK S : S = {d[1], d[2], d[3], d[4]}
    OBVIOUS
  <2> HIDE DEF d
  <2>3. d \in [1..4 -> S] /\ 4 \in Nat
    BY <2>1, <2>2
  <2>4. d \in Seq(S)
    BY <2>3, SeqDef
  <2>5. Len(d) = 4
    BY <2>3, <2>4
  <2> QED BY <2>2, <2>4, <2>5
<1>8. d[1] = columns[2] /\ d[2] = columns[3] /\ d[3] = columns[4]
      /\ d[4] = Flag("InheritUserViaAPI", "UserViaAPI")
  <2> HIDE DEF F
  <2> QED BY <1>1, <1>3, <1>4, <1>5
<1> HIDE DEF d
<1>9. /\ IsColumn(d[1], "Id", "meta", "Id", "none") /\ IsColumn(d[2], "Parent", "meta", "Parent", "none")
      /\ IsColumn(d[3], "NodeType", "meta", "NodeType", "none")
      /\ IsColumn(d[4], "InheritUserViaAPI", "flag", "UserViaAPI", "none")
  BY <1>6, <1>8, ColumnTable
<1> QED BY <1>7, <1>9 DEF d

(* The columns a reader wants for one thing.                               *)
WantsMeta(d, header) == d.source = "meta" /\ d.header = header
WantsValue(d, f) == d.field = f /\ (d.source = "value" \/ (d.source = "meta" /\ f = "Name"))
WantsFlag(d, f) == d.source = "flag" /\ d.field = f

(* Some cells are wanted, and all of these hold v.                         *)
Holds(row, I, v) == I # {} /\ \A i \in I : row[i] = v

(* Then the last of them does.                                             *)
LEMMA LastCell ==
  ASSUME NEW n \in Nat, NEW I \in SUBSET (1..n), I # {}, NEW row, NEW v, \A i \in I : row[i] = v
  PROVE  Max(I) # 0 /\ row[Max(I)] = v
<1>1. PICK k \in I : \A y \in I : k >= y
  BY Greatest
<1>2. Max(I) \in I
  BY <1>1 DEF Max
<1>3. PICK m : m = Max(I) /\ m \in I
  BY <1>2, Zenon
<1> QED BY <1>3

(* From a row with a cell for each column v is read: ...                   *)
(* the ID, the parent or the kind ...                                       *)
LEMMA MetaRead ==
  ASSUME NEW C, NEW ds \in Seq(C), NEW row, Len(row) = Len(ds), NEW header, NEW v,
         Holds(row, {i \in 1..Len(ds) : WantsMeta(ds[i], header)}, v)
  PROVE  MetaCell(row, ds, header) = v
<1> DEFINE n == Len(ds)
           I == {i \in 1..n : WantsMeta(ds[i], header)}
           cell == CellFor(row, ds, LAMBDA d : d.source = "meta" /\ d.header = header)
           known == SubSeq(ds, 1, IF Len(row) < Len(ds) THEN Len(row) ELSE Len(ds))
           J == {i \in 1..Len(known) : known[i].source = "meta" /\ known[i].header = header}
<1>1. n \in Nat /\ known = ds
  OBVIOUS
<1>2. cell = LET at == IF J # {} THEN Max(J) ELSE 0 IN IF at = 0 THEN <<>> ELSE <<row[at]>>
  BY Zenon DEF CellFor, SelectLastInSeq
<1> HIDE DEF known
<1>3. J = I
  BY <1>1 DEF WantsMeta
<1>4. I \in SUBSET (1..n) /\ Max(I) # 0 /\ row[Max(I)] = v /\ I # {}
  <2>1. I \in SUBSET (1..n) /\ I # {} /\ \A i \in I : row[i] = v
    BY DEF Holds
  <2> HIDE DEF I, n
  <2> QED BY <1>1, <2>1, LastCell
<1> HIDE DEF I, J, n
<1>5. cell = <<v>>
  BY <1>2, <1>3, <1>4
<1>6. MetaCell(row, ds, header) = IF cell = <<>> THEN "" ELSE cell[1]
  BY Zenon DEF MetaCell
<1> HIDE DEF cell
<1> QED BY <1>5, <1>6

(* ... a value, or that of a new connection when the cell is none ...       *)
LEMMA ValueIsRead ==
  ASSUME NEW C, NEW ds \in Seq(C), NEW row, Len(row) = Len(ds), NEW f, NEW v,
         Holds(row, {i \in 1..Len(ds) : WantsValue(ds[i], f)}, v)
  PROVE  ValueRead(row, ds, f) = IF Assignable(f, v) THEN v ELSE Shipped
<1> DEFINE n == Len(ds)
           I == {i \in 1..n : WantsValue(ds[i], f)}
           cell == CellFor(row, ds, LAMBDA d : d.field = f /\ (d.source = "value" \/ (d.source = "meta" /\ f = "Name")))
           known == SubSeq(ds, 1, IF Len(row) < Len(ds) THEN Len(row) ELSE Len(ds))
           J == {i \in 1..Len(known) : known[i].field = f /\ (known[i].source = "value" \/ (known[i].source = "meta" /\ f = "Name"))}
<1>1. n \in Nat /\ known = ds
  OBVIOUS
<1>2. cell = LET at == IF J # {} THEN Max(J) ELSE 0 IN IF at = 0 THEN <<>> ELSE <<row[at]>>
  BY Zenon DEF CellFor, SelectLastInSeq
<1> HIDE DEF known
<1>3. J = I
  BY <1>1 DEF WantsValue
<1>4. I \in SUBSET (1..n) /\ Max(I) # 0 /\ row[Max(I)] = v /\ I # {}
  <2>1. I \in SUBSET (1..n) /\ I # {} /\ \A i \in I : row[i] = v
    BY DEF Holds
  <2> HIDE DEF I, n
  <2> QED BY <1>1, <2>1, LastCell
<1> HIDE DEF I, J, n
<1>5. cell = <<v>>
  BY <1>2, <1>3, <1>4
<1>6. ValueRead(row, ds, f) = IF cell = <<>> \/ ~Assignable(f, cell[1]) THEN Shipped ELSE cell[1]
  BY Zenon DEF ValueRead
<1> HIDE DEF cell
<1> QED BY <1>5, <1>6

(* ... and a value without a column is that of a new connection.                     *)
LEMMA ValueMissing ==
  ASSUME NEW C, NEW ds \in Seq(C), NEW row, Len(row) = Len(ds), NEW f,
         \A i \in 1..Len(ds) : ~ WantsValue(ds[i], f)
  PROVE  ValueRead(row, ds, f) = Shipped
<1> DEFINE cell == CellFor(row, ds, LAMBDA d : d.field = f /\ (d.source = "value" \/ (d.source = "meta" /\ f = "Name")))
           known == SubSeq(ds, 1, IF Len(row) < Len(ds) THEN Len(row) ELSE Len(ds))
           J == {i \in 1..Len(known) : known[i].field = f /\ (known[i].source = "value" \/ (known[i].source = "meta" /\ f = "Name"))}
<1>1. known = ds
  OBVIOUS
<1>2. cell = LET at == IF J # {} THEN Max(J) ELSE 0 IN IF at = 0 THEN <<>> ELSE <<row[at]>>
  BY Zenon DEF CellFor, SelectLastInSeq
<1> HIDE DEF known
<1>3. J = {}
  BY <1>1 DEF WantsValue
<1> HIDE DEF J
<1>4. cell = <<>>
  BY <1>2, <1>3
<1>5. <<>> # <<"True">>
  OBVIOUS
<1> QED BY <1>4, <1>5, Zenon DEF ValueRead

(* ... or a flag.                                                          *)
LEMMA FlagIsRead ==
  ASSUME NEW C, NEW ds \in Seq(C), NEW row, Len(row) = Len(ds), NEW f, NEW v,
         Holds(row, {i \in 1..Len(ds) : WantsFlag(ds[i], f)}, v)
  PROVE  FlagRead(row, ds, f) <=> v = "True"
<1> DEFINE n == Len(ds)
           I == {i \in 1..n : WantsFlag(ds[i], f)}
           cell == CellFor(row, ds, LAMBDA d : d.source = "flag" /\ d.field = f)
           known == SubSeq(ds, 1, IF Len(row) < Len(ds) THEN Len(row) ELSE Len(ds))
           J == {i \in 1..Len(known) : known[i].source = "flag" /\ known[i].field = f}
<1>1. n \in Nat /\ known = ds
  OBVIOUS
<1>2. cell = LET at == IF J # {} THEN Max(J) ELSE 0 IN IF at = 0 THEN <<>> ELSE <<row[at]>>
  BY Zenon DEF CellFor, SelectLastInSeq
<1> HIDE DEF known
<1>3. J = I
  BY <1>1 DEF WantsFlag
<1>4. I \in SUBSET (1..n) /\ Max(I) # 0 /\ row[Max(I)] = v /\ I # {}
  <2>1. I \in SUBSET (1..n) /\ I # {} /\ \A i \in I : row[i] = v
    BY DEF Holds
  <2> HIDE DEF I, n
  <2> QED BY <1>1, <2>1, LastCell
<1> HIDE DEF I, J, n
<1>5. cell = <<v>>
  BY <1>2, <1>3, <1>4
<1>6. FlagRead(row, ds, f) = (<<"True">> = cell)
  BY Zenon DEF FlagRead
<1> HIDE DEF cell
<1> QED BY <1>5, <1>6

(* ... and a flag without a column is not set.                                     *)
LEMMA FlagMissing ==
  ASSUME NEW C, NEW ds \in Seq(C), NEW row, Len(row) = Len(ds), NEW f,
         \A i \in 1..Len(ds) : ~ WantsFlag(ds[i], f)
  PROVE  ~ FlagRead(row, ds, f)
<1> DEFINE cell == CellFor(row, ds, LAMBDA d : d.source = "flag" /\ d.field = f)
           known == SubSeq(ds, 1, IF Len(row) < Len(ds) THEN Len(row) ELSE Len(ds))
           J == {i \in 1..Len(known) : known[i].source = "flag" /\ known[i].field = f}
<1>1. known = ds
  OBVIOUS
<1>2. cell = LET at == IF J # {} THEN Max(J) ELSE 0 IN IF at = 0 THEN <<>> ELSE <<row[at]>>
  BY Zenon DEF CellFor, SelectLastInSeq
<1> HIDE DEF known
<1>3. J = {}
  BY <1>1 DEF WantsFlag
<1> HIDE DEF J
<1>4. cell = <<>>
  BY <1>2, <1>3
<1>5. <<>> # <<"True">>
  OBVIOUS
<1> QED BY <1>4, <1>5, Zenon DEF FlagRead

(***************************************************************************)
(* The tree a CSV reader builds of its records.                            *)
(***************************************************************************)
(* Records of nodes, each with what a node can hold.                       *)
IsRecord(rec) ==
  /\ rec.node \in Nodes \ Roots
  /\ rec.isContainer <=> rec.node \in Containers
  /\ rec.values \in [Fields -> Values] /\ rec.flags \in SUBSET Inheritable

Proper(records) ==
  /\ \A i \in 1..Len(records) : IsRecord(records[i])
  /\ ~ HasDuplicate(records)

(* Where a record asks to hang, and where it is hung in the tree t.        *)
Wanted(records, i) == ParentIn(ContainersOf(records), records[i])
Place(records, t, i) ==
  IF AddFails(t, Wanted(records, i), records[i].node) THEN NewRoot ELSE Wanted(records, i)

(* acc is the tree after each of the records, as nodes to hang.            *)
Built(records, acc, s, p, v, g) ==
  /\ Readings(s, p, v, g) /\ Hung(acc, s, p, v, g, CsvStart(records), Len(s))
  /\ Len(s) = Len(records) /\ TreeOf(records) = acc[Len(s)]
  /\ \A i \in 1..Len(s) : /\ s[i] = records[i].node /\ v[i] = records[i].values
                          /\ g[i] = records[i].flags /\ p[i] = Place(records, acc[i-1], i)

(* The reader starts with a root alone.                                    *)
LEMMA CsvStartBare ==
  ASSUME NEW records
  PROVE  Bare(CsvStart(records)) /\ CsvStart(records).rootID = omittedRootID(records)
<1>1. PICK start, id, up, kids, raws, flags :
        /\ start = CsvStart(records) /\ id = omittedRootID(records)
        /\ up = [n \in Nodes |-> NoNode] /\ kids = [c \in Containers |-> <<>>]
        /\ raws = [n \in Nodes |-> [f \in Fields |-> Shipped]] /\ flags = [n \in Nodes |-> {}]
  OBVIOUS
<1>2. start = [up |-> up, kids |-> kids, raw |-> raws, flags |-> flags, rootID |-> id, error |-> "nil"]
  <2>1. PICK t, none : t = NewTree /\ none = NewTree.rootID
    OBVIOUS
  <2>2. t = [up |-> up, kids |-> kids, raw |-> raws, flags |-> flags, rootID |-> none, error |-> "nil"]
    <3>1. t = [up |-> up, kids |-> kids, raw |-> raws, flags |-> flags, rootID |-> "", error |-> "nil"]
      BY <1>1, <2>1, Zenon DEF NewTree
    <3>2. none = ""
      BY <2>1, Zenon DEF NewTree
    <3> QED BY <3>1, <3>2, Zenon
  <2>3. start = [t EXCEPT !.rootID = id]
    BY <1>1, <2>1, Zenon DEF CsvStart
  <2> QED BY <2>2, <2>3
<1>3. Bare(start) /\ start.rootID = id
  <2>1. /\ up \in [Nodes -> Containers \cup {NoNode}] /\ kids \in [Containers -> Seq(Nodes)]
        /\ raws \in [Nodes -> [Fields -> Values]] /\ flags \in [Nodes -> SUBSET Inheritable]
    BY <1>1, InheritanceAssumption
  <2>2. start \in Trees(start.rootID) /\ start.rootID = id
    BY <1>2, <2>1 DEF Trees
  <2> QED BY <1>1, <1>2, <2>2 DEF Bare
<1> QED BY <1>1, <1>3

(* It hangs every record that has an ID of its own.                        *)
LEMMA RecordsHung ==
  ASSUME NEW B, NEW records \in Seq(B), Proper(records)
  PROVE  \E acc, s, p, v, g : Built(records, acc, s, p, v, g)
<1> DEFINE n == Len(records)
           s == [i \in 1..n |-> records[i].node]
           v == [i \in 1..n |-> records[i].values]
           g == [i \in 1..n |-> records[i].flags]
<1>1. n \in Nat /\ DOMAIN records = 1..n
  OBVIOUS
<1>2. PICK acc : /\ Turns(acc, CsvWay(records), CsvStart(records), records)
                 /\ TreeOf(records) = acc[n]
  BY TreeOfTurns DEF Proper
<1> DEFINE p == [i \in 1..n |-> Place(records, acc[i-1], i)]
<1>3. s \in Seq(Nodes) /\ Len(s) = n
  <2>1. s \in [1..n -> Nodes]
    BY <1>1 DEF Proper, IsRecord
  <2> HIDE DEF s, n
  <2> QED BY <1>1, <2>1, SeqDef
<1>4. ToSet(s) \cap Roots = {}
  BY <1>1 DEF ToSet, Proper, IsRecord
<1>5. IsInjective(s)
  <2> SUFFICES ASSUME NEW i \in 1..n, NEW j \in 1..n, s[i] = s[j], i # j PROVE FALSE
    BY DEF IsInjective
  <2>1. records[i].node = records[j].node /\ (i < j \/ j < i)
    BY <1>1
  <2> QED BY <1>1, <2>1 DEF Proper, HasDuplicate
<1>6. \A i \in 1..n : Wanted(records, i) \in Containers
  <2> SUFFICES ASSUME NEW i \in 1..n PROVE Wanted(records, i) \in Containers
    OBVIOUS
  <2>1. ContainersOf(records) \subseteq Containers
    BY <1>1 DEF ContainersOf, Proper, IsRecord
  <2>2. NewRoot \in Containers
    BY DocumentsAssumption, TreeAssumption
  <2> QED BY <2>1, <2>2 DEF Wanted, ParentIn
<1>7. Readings(s, p, v, g)
  <2>1. p \in [1..n -> Containers]
    BY <1>6, DocumentsAssumption, TreeAssumption DEF Place
  <2>2. v \in [1..n -> [Fields -> Values]] /\ g \in [1..n -> SUBSET Inheritable]
    BY DEF Proper, IsRecord
  <2> HIDE DEF s, v, g, p, n
  <2> QED BY <1>3, <1>4, <1>5, <2>1, <2>2 DEF Readings
<1>8. Hung(acc, s, p, v, g, CsvStart(records), n)
  <2>1. acc[0] = CsvStart(records)
    BY <1>2 DEF Turns
  <2>2. ASSUME NEW i \in 1..n
        PROVE  /\ acc[i] = Added(Filled(acc[i-1], s[i], v[i], g[i]), p[i], s[i])
               /\ p[i] = NewRoot \/ s[i] \notin Forest!AncestorsOrSelf(p[i], acc[i-1].up)
    <3>1. PICK t : t = acc[i-1]
      OBVIOUS
    <3>2. PICK x, w : x = records[i] /\ w = Wanted(records, i)
      OBVIOUS
    <3>3. acc[i] = Turn(CsvWay(records), t, x)
      BY <1>2, <3>1, <3>2 DEF Turns
    <3>4. Turn(CsvWay(records), t, x) = Attach(t, x, w)
      BY <3>2 DEF Turn, CsvWay, Wanted
    <3>5. Attach(t, x, w) = Added(Filled(t, x.node, x.values, x.flags),
                                  IF AddFails(t, w, x.node) THEN NewRoot ELSE w, x.node)
      BY Zenon DEF Attach
    <3>6. s[i] = x.node /\ v[i] = x.values /\ g[i] = x.flags
          /\ p[i] = IF AddFails(t, w, x.node) THEN NewRoot ELSE w
      BY <3>1, <3>2 DEF Place
    <3> HIDE DEF s, v, g, p
    <3>7. acc[i] = Added(Filled(t, s[i], v[i], g[i]), p[i], s[i])
      BY <3>3, <3>4, <3>5, <3>6
    <3>8. p[i] = NewRoot \/ s[i] \notin Forest!AncestorsOrSelf(p[i], t.up)
      BY <3>6 DEF AddFails
    <3> QED BY <3>1, <3>7, <3>8
  <2> QED BY <2>1, <2>2 DEF Hung
<1>9. \A i \in 1..n : /\ s[i] = records[i].node /\ v[i] = records[i].values
                      /\ g[i] = records[i].flags /\ p[i] = Place(records, acc[i-1], i)
  OBVIOUS
<1> HIDE DEF s, p, v, g, n
<1>10. Built(records, acc, s, p, v, g)
  BY <1>2, <1>3, <1>7, <1>8, <1>9 DEF n, Built
<1> QED BY <1>10, Zenon

(***************************************************************************)
(* Documents from elsewhere.                                               *)
(***************************************************************************)
NamedParents == Nodes \cup Ghosts \cup {""}
ForeignRows == {ForeignRow(n, p) : n \in Nodes \ Roots, p \in NamedParents}
IsForeign(document) == document.headings = ForeignHeadings /\ document.rows \in Seq(ForeignRows)

(* rec says of its node what a new connection has, and asks for p.         *)
Says(rec, n, p) ==
  /\ rec.node = n /\ rec.parentID = p /\ (rec.isContainer <=> n \in Containers)
  /\ rec.values = [f \in Fields |-> Shipped] /\ rec.flags = {"UserViaAPI"}

(* What is read from one of their rows.                                    *)
LEMMA ForeignRecord ==
  ASSUME NEW n \in Nodes \ Roots, NEW p
  PROVE  Says(decodeRecord(ForeignRow(n, p), inputColumns(ForeignHeadings)), n, p)
<1> DEFINE ds == inputColumns(ForeignHeadings)
           row == ForeignRow(n, p)
           kind == IF n \in Containers THEN "Container" ELSE "Connection"
<1>1. PICK C : ds \in Seq(C)
  BY ForeignColumns
<1>2. /\ Len(ds) = 4
      /\ IsColumn(ds[1], "Id", "meta", "Id", "none") /\ IsColumn(ds[2], "Parent", "meta", "Parent", "none")
      /\ IsColumn(ds[3], "NodeType", "meta", "NodeType", "none")
      /\ IsColumn(ds[4], "InheritUserViaAPI", "flag", "UserViaAPI", "none")
  BY ForeignColumns
<1>3. Len(row) = 4 /\ row[1] = n /\ row[2] = p /\ row[3] = kind /\ row[4] = "True"
  BY DEF ForeignRow
<1>4. \A i \in 1..4 : i = 1 \/ i = 2 \/ i = 3 \/ i = 4
  OBVIOUS
<1> HIDE DEF ds, row, kind
<1>5. /\ Holds(row, {i \in 1..4 : WantsMeta(ds[i], "Id")}, n)
      /\ Holds(row, {i \in 1..4 : WantsMeta(ds[i], "Parent")}, p)
      /\ Holds(row, {i \in 1..4 : WantsMeta(ds[i], "NodeType")}, kind)
      /\ Holds(row, {i \in 1..4 : WantsFlag(ds[i], "UserViaAPI")}, "True")
  BY <1>2, <1>3, <1>4 DEF Holds, WantsMeta, WantsFlag, IsColumn
<1>6. /\ \A f \in Fields, i \in 1..4 : ~ WantsValue(ds[i], f)
      /\ \A f \in Inheritable \ {"UserViaAPI"}, i \in 1..4 : ~ WantsFlag(ds[i], f)
  BY <1>2, <1>4 DEF WantsValue, WantsFlag, IsColumn
<1>7. MetaCell(row, ds, "Id") = n /\ MetaCell(row, ds, "Parent") = p /\ MetaCell(row, ds, "NodeType") = kind
  <2>1. MetaCell(row, ds, "Id") = n
    BY <1>1, <1>2, <1>3, <1>5, MetaRead
  <2>2. MetaCell(row, ds, "Parent") = p
    BY <1>1, <1>2, <1>3, <1>5, MetaRead
  <2>3. MetaCell(row, ds, "NodeType") = kind
    BY <1>1, <1>2, <1>3, <1>5, MetaRead
  <2> QED BY <2>1, <2>2, <2>3
<1>8. \A f \in Fields : ValueRead(row, ds, f) = Shipped
  BY <1>1, <1>2, <1>3, <1>6, ValueMissing
<1>9. \A f \in Inheritable : FlagRead(row, ds, f) <=> f = "UserViaAPI"
  <2>1. FlagRead(row, ds, "UserViaAPI")
    BY <1>1, <1>2, <1>3, <1>5, FlagIsRead
  <2>2. \A f \in Inheritable \ {"UserViaAPI"} : ~ FlagRead(row, ds, f)
    BY <1>1, <1>2, <1>3, <1>6, FlagMissing
  <2> QED BY <2>1, <2>2
<1>10. "UserViaAPI" \in Inheritable
  BY FieldsAssumption
<1>11. PICK rec : rec = decodeRecord(row, ds)
  OBVIOUS
<1>12. /\ rec.node = MetaCell(row, ds, "Id") /\ rec.parentID = MetaCell(row, ds, "Parent")
       /\ rec.isContainer = (MetaCell(row, ds, "NodeType") = "Container")
       /\ rec.values = [f \in Fields |-> ValueRead(row, ds, f)]
       /\ rec.flags = {f \in Inheritable : FlagRead(row, ds, f)}
  BY <1>11 DEF decodeRecord
<1>13. rec.values = [f \in Fields |-> Shipped] /\ rec.flags = {"UserViaAPI"}
  <2>1. {f \in Inheritable : FlagRead(row, ds, f)} = {"UserViaAPI"}
    BY <1>9, <1>10, Zenon
  <2>2. [f \in Fields |-> ValueRead(row, ds, f)] = [f \in Fields |-> Shipped]
    BY <1>8, Zenon
  <2> QED BY <1>12, <2>1, <2>2, Zenon
<1>14. rec.isContainer <=> n \in Containers
  BY <1>7, <1>12 DEF kind
<1> QED BY <1>7, <1>11, <1>12, <1>13, <1>14 DEF Says, ds, row

(* ... for each row.                                                       *)
ReadFrom(records, rows) ==
  /\ records \in Seq({records[i] : i \in 1..Len(rows)}) /\ Len(records) = Len(rows)
  /\ Len(rows) \in Nat /\ DOMAIN rows = 1..Len(rows) /\ DOMAIN records = 1..Len(rows)
  /\ \A i \in 1..Len(rows) : /\ rows[i][1] \in Nodes \ Roots
                             /\ Says(records[i], rows[i][1], rows[i][2])

(* What is read from all of them.                                          *)
LEMMA ForeignRecords ==
  ASSUME NEW document, IsForeign(document), NEW records, records = CsvRecords(document),
         NEW rows, rows = document.rows
  PROVE  ReadFrom(records, rows)
<1> DEFINE ds == inputColumns(ForeignHeadings)
           n == Len(rows)
<1>1. rows \in Seq(ForeignRows) /\ n \in Nat /\ DOMAIN rows = 1..n
  BY DEF IsForeign
<1>2. records = [i \in 1..n |-> decodeRecord(rows[i], ds)]
  BY <1>1 DEF CsvRecords, IsForeign
<1>3. ASSUME NEW i \in 1..n
      PROVE  rows[i][1] \in Nodes \ Roots /\ Says(records[i], rows[i][1], rows[i][2])
  <2>1. rows[i] \in ForeignRows
    BY <1>1
  <2>2. PICK m \in Nodes \ Roots, p \in NamedParents : rows[i] = ForeignRow(m, p)
    BY <2>1 DEF ForeignRows
  <2>3. rows[i][1] = m /\ rows[i][2] = p
    BY <2>2 DEF ForeignRow
  <2>4. Says(decodeRecord(rows[i], ds), m, p)
    BY <2>2, ForeignRecord
  <2> HIDE DEF ds
  <2> QED BY <1>2, <2>3, <2>4
<1>4. records \in Seq({records[i] : i \in 1..n}) /\ Len(records) = n /\ DOMAIN records = 1..n
  <2> HIDE DEF ds, n
  <2>1. records = [i \in 1..n |-> records[i]]
    BY <1>2
  <2>2. PICK S : S = {records[i] : i \in 1..n}
    OBVIOUS
  <2>3. records \in [1..n -> S]
    BY <2>1, <2>2
  <2>4. records \in Seq(S)
    BY <1>1, <2>3, SeqDef
  <2> QED BY <1>1, <2>2, <2>3, <2>4
<1> QED BY <1>1, <1>3, <1>4 DEF ReadFrom

(* An ID comes twice when there are fewer IDs than rows.                   *)
LEMMA DuplicatesCount ==
  ASSUME NEW s \in Seq(Nodes)
  PROVE  /\ Cardinality(ToSet(s)) \in Nat /\ Cardinality(ToSet(s)) <= Len(s)
         /\ Cardinality(ToSet(s)) < Len(s) <=> ~ IsInjective(s)
<1>1. Len(s) \in Nat /\ DOMAIN s = 1..Len(s) /\ s \in [1..Len(s) -> Nodes]
  OBVIOUS
<1>2. IsFiniteSet(1..Len(s)) /\ Cardinality(1..Len(s)) = Len(s)
  BY <1>1, FS_Interval
<1>3. s \in Surjection(1..Len(s), ToSet(s))
  BY <1>1 DEF Surjection, ToSet
<1>4. /\ Cardinality(ToSet(s)) <= Len(s) /\ Cardinality(ToSet(s)) \in Nat
      /\ Cardinality(ToSet(s)) = Len(s) <=> s \in Injection(1..Len(s), ToSet(s))
  BY <1>2, <1>3, FS_Surjection, FS_CardinalityType
<1>5. s \in Injection(1..Len(s), ToSet(s)) <=> IsInjective(s)
  BY <1>1, <1>3 DEF Injection, Surjection, IsInjective
<1> QED BY <1>1, <1>4, <1>5

(* The ancestors in a tree stay ancestors when nodes are hung in it.       *)
LEMMA AncestorsStay ==
  ASSUME NEW up, NEW new, \A m \in Containers : up[m] = NoNode \/ up[m] = new[m], NEW c
  PROVE  Forest!AncestorsOrSelf(c, up) \subseteq Forest!AncestorsOrSelf(c, new)
<1>1. \A S \in SUBSET Containers : Forest!ClosedUpwards(S, new) => Forest!ClosedUpwards(S, up)
  BY DEF Forest!ClosedUpwards
<1> QED BY <1>1 DEF Forest!AncestorsOrSelf

(* Nodes that all hang in one another or below the root can be reached.    *)
LEMMA ReachedFromRoot ==
  ASSUME NEW up \in [Nodes -> Containers \cup {NoNode}], Forest!IsForest(up), NEW N \in SUBSET Nodes,
         NEW r \in Containers, \A n \in N : up[n] # NoNode /\ (up[n] = r \/ up[n] \in N)
  PROVE  \A n \in N : r \in Forest!AncestorsOrSelf(up[n], up)
<1> DEFINE bad == {n \in N : r \notin Forest!AncestorsOrSelf(up[n], up)}
<1> SUFFICES ASSUME bad # {} PROVE FALSE
  OBVIOUS
<1>1. PICK n \in bad : up[n] \notin bad
  BY NodesFacts DEF Forest!IsForest
<1>2. n \in N /\ n \in Nodes /\ r \notin Forest!AncestorsOrSelf(up[n], up)
  OBVIOUS
<1>3. up[n] \in Containers /\ up[n] # NoNode
  BY <1>2
<1>4. up[n] # r
  BY <1>2, <1>3, AncestorsUnfold
<1>5. up[n] \in N /\ r \in Forest!AncestorsOrSelf(up[up[n]], up)
  BY <1>1, <1>2, <1>4
<1> HIDE DEF bad
<1>6. up[up[n]] # NoNode
  BY <1>5
<1> QED BY <1>2, <1>3, <1>5, <1>6, AncestorsUnfold

(* The parent that is named and has no row.                                *)
LEMMA OmittedRoot ==
  ASSUME NEW document, IsForeign(document)
  PROVE  LET id == omittedRootID(CsvRecords(document))
             rows == document.rows
         IN  Absent(rows) = {id} \/ (Cardinality(Absent(rows)) # 1 /\ id = "")
<1> DEFINE records == CsvRecords(document)
           rows == document.rows
           ids == {records[i].node : i \in DOMAIN records}
           missing == {records[i].parentID : i \in DOMAIN records} \ (ids \cup {""})
<1>1. missing = Absent(rows)
  <2>1. /\ DOMAIN rows = DOMAIN records
        /\ \A i \in DOMAIN rows : records[i].node = rows[i][1] /\ records[i].parentID = rows[i][2]
    <3>1. PICK x, y : x = records /\ y = rows
      OBVIOUS
    <3>2. /\ DOMAIN x = 1..Len(y) /\ DOMAIN y = 1..Len(y)
          /\ \A i \in 1..Len(y) : Says(x[i], y[i][1], y[i][2])
      <4>1. ReadFrom(x, y)
        BY <3>1, ForeignRecords, Zenon
      <4> QED BY <4>1 DEF ReadFrom
    <3> HIDE DEF records, rows
    <3> QED BY <3>1, <3>2 DEF Says
  <2> HIDE DEF records, rows
  <2>2. ids = Listed(rows) /\ {records[i].parentID : i \in DOMAIN records} = {rows[i][2] : i \in DOMAIN rows}
    BY <2>1 DEF Listed
  <2> HIDE DEF ids
  <2> QED BY <2>2, Zenon DEF Absent
<1>2. omittedRootID(records) = IF Cardinality(missing) = 1 THEN CHOOSE id \in missing : TRUE ELSE ""
  BY Zenon DEF omittedRootID
<1>3. IsFiniteSet(missing)
  <2>1. IsFiniteSet({records[i].parentID : i \in DOMAIN records})
    <3>1. PICK n \in Nat : DOMAIN records = 1..n
      BY ForeignRecords DEF ReadFrom
    <3>2. PICK R : R = {records[i].parentID : i \in DOMAIN records}
      OBVIOUS
    <3>3. [i \in 1..n |-> records[i].parentID] \in Surjection(1..n, R)
      <4> HIDE DEF records
      <4> QED BY <3>1, <3>2 DEF Surjection
    <3>4. IsFiniteSet(1..n)
      BY FS_Interval
    <3> QED BY <3>2, <3>3, <3>4, FS_Surjection
  <2> QED BY <2>1, FS_Subset
<1> HIDE DEF missing
<1>4. CASE Cardinality(missing) = 1
  <2>1. PICK x : missing = {x}
    BY <1>3, <1>4, FS_Singleton
  <2>2. omittedRootID(records) = x
    <3>1. (CHOOSE id \in missing : TRUE) = x
      BY <2>1
    <3> QED BY <1>2, <1>4, <3>1, Zenon
  <2> QED BY <1>1, <2>1, <2>2
<1>5. CASE Cardinality(missing) # 1
  BY <1>1, <1>2, <1>5, Zenon
<1> QED BY <1>4, <1>5

(* Without a duplicate, the records of such a document are hung.           *)
LEMMA ForeignProper ==
  ASSUME NEW document, IsForeign(document), ~ HasDuplicate(CsvRecords(document))
  PROVE  Proper(CsvRecords(document))
<1>1. PICK records, rows : records = CsvRecords(document) /\ rows = document.rows
  OBVIOUS
<1>2. ASSUME NEW i \in 1..Len(records) PROVE IsRecord(records[i])
  <2>1. rows[i][1] \in Nodes \ Roots /\ Says(records[i], rows[i][1], rows[i][2])
    BY <1>1, ForeignRecords DEF ReadFrom
  <2> QED BY <2>1, FieldsAssumption, InheritanceAssumption DEF Says, IsRecord
<1> QED BY <1>1, <1>2 DEF Proper

(* What is loaded of a document from elsewhere.                            *)
LEMMA ForeignLoads ==
  ASSUME NEW document, IsForeign(document)
  PROVE  HoldsEveryRecord(CsvDeserialize(document), document.rows)
<1>1. PICK records, rows, t : /\ records = CsvRecords(document) /\ rows = document.rows
                              /\ t = CsvDeserialize(document)
  OBVIOUS
<1>2. t = TreeOf(records)
  BY <1>1 DEF CsvDeserialize
<1>3. /\ records \in Seq({records[i] : i \in 1..Len(rows)}) /\ Len(records) = Len(rows)
      /\ Len(rows) \in Nat /\ DOMAIN rows = 1..Len(rows) /\ DOMAIN records = 1..Len(rows)
      /\ \A i \in 1..Len(rows) : rows[i][1] \in Nodes \ Roots /\ Says(records[i], rows[i][1], rows[i][2])
  <2>1. ReadFrom(records, rows)
    BY <1>1, ForeignRecords, Zenon
  <2> QED BY <2>1, Zenon DEF ReadFrom
<1>4. HasDuplicate(records) <=> Cardinality(Listed(rows)) < Len(rows)
  <2>1. PICK s : s = [i \in 1..Len(rows) |-> rows[i][1]]
    OBVIOUS
  <2>2. s \in [1..Len(rows) -> Nodes] /\ \A i \in 1..Len(rows) : s[i] = rows[i][1]
    BY <1>3, <2>1
  <2>3. s \in Seq(Nodes) /\ Len(s) = Len(rows) /\ DOMAIN s = 1..Len(rows)
    BY <1>3, <2>2, SeqDef
  <2>4. ToSet(s) = Listed(rows)
    BY <1>3, <2>2, <2>3 DEF ToSet, Listed
  <2>5. \A i \in 1..Len(rows) : records[i].node = s[i]
    BY <1>3, <2>2 DEF Says
  <2>6. HasDuplicate(records) <=> ~ IsInjective(s)
    <3>1. ASSUME NEW i \in 1..Len(rows), NEW j \in 1..Len(rows), i # j PROVE i < j \/ j < i
      BY <1>3, <3>1
    <3>2. HasDuplicate(records) <=> \E i, j \in 1..Len(rows) : i < j /\ s[i] = s[j]
      BY <1>3, <2>5 DEF HasDuplicate
    <3>3. IsInjective(s) <=> \A i, j \in 1..Len(rows) : s[i] = s[j] => i = j
      BY <2>3 DEF IsInjective
    <3>4. \A i \in 1..Len(rows) : ~ (i < i)
      BY <1>3
    <3> QED BY <3>1, <3>2, <3>3, <3>4
  <2> QED BY <2>3, <2>4, <2>6, DuplicatesCount
<1>5. CASE HasDuplicate(records)
  <2>1. t = Refused("ErrMalformedRow")
    BY <1>2, <1>5, Zenon DEF TreeOf
  <2>2. t.error = "ErrMalformedRow"
    <3>1. PICK x : x = NewTree
      OBVIOUS
    <3>2. t = [x EXCEPT !.error = "ErrMalformedRow"] /\ "error" \in DOMAIN x
      <4>1. "error" \in DOMAIN NewTree
        BY Zenon DEF NewTree
      <4> QED BY <2>1, <3>1, <4>1, Zenon DEF Refused
    <3> QED BY <3>2
  <2> QED BY <1>1, <1>4, <1>5, <2>2 DEF HoldsEveryRecord
<1>6. CASE ~ HasDuplicate(records)
  <2> DEFINE start == CsvStart(records)
             n == Len(rows)
  <2>1. Proper(records)
    BY <1>1, <1>6, ForeignProper
  <2>2. PICK acc, s, p, v, g : Built(records, acc, s, p, v, g)
    BY <1>3, <2>1, RecordsHung
  <2>3. Len(s) = n /\ n \in 0..n /\ t = acc[n]
    BY <1>2, <1>3, <2>2 DEF Built
  <2>4. \A i \in 0..n : Grown(acc[i], s, p, v, g, start, i)
    <3> HIDE DEF n
    <3>1. Bare(start) /\ Readings(s, p, v, g) /\ n \in 0..Len(s) /\ Hung(acc, s, p, v, g, start, n)
      BY <2>2, <2>3, CsvStartBare DEF Built
    <3> HIDE DEF start
    <3> QED BY <3>1, Growth
  <2>5. \A i \in 1..n : /\ s[i] = rows[i][1] /\ g[i] = {"UserViaAPI"} /\ p[i] = Place(records, acc[i-1], i)
    BY <1>3, <2>2, <2>3 DEF Built, Says
  <2>6. Grown(t, s, p, v, g, start, n)
    BY <2>3, <2>4
  <2>7. t.rootID = omittedRootID(records) /\ t.error = "nil" /\ Linked(t) /\ Forest!IsForest(t.up)
        /\ t.up \in [Nodes -> Containers \cup {NoNode}]
    BY <2>6, CsvStartBare DEF Grown, Trees
  <2> HIDE DEF start, n
  <2>8. s \in Seq(Nodes) /\ DOMAIN s = 1..n /\ ToSet(s) = Listed(rows) /\ p \in [1..n -> Containers]
        /\ IsInjective(s) /\ ToSet(s) \cap Roots = {}
    <3>1. s \in Seq(Nodes) /\ p \in [1..n -> Containers] /\ IsInjective(s) /\ ToSet(s) \cap Roots = {}
      BY <2>2, <2>3 DEF Built, Readings
    <3>2. DOMAIN s = 1..n
      BY <2>3, <3>1
    <3>3. ToSet(s) = Listed(rows)
      BY <1>3, <2>5, <3>2 DEF ToSet, Listed, n
    <3> QED BY <3>1, <3>2, <3>3
  <2>0. Listed(rows) \subseteq Nodes /\ Listed(rows) \cap Roots = {}
    <3>1. \A i \in 1..n : s[i] \in Nodes
      BY <2>3, <2>8
    <3> QED BY <2>8, <3>1 DEF ToSet
  <2>9. ContainersOf(records) = (Containers \ Roots) \cap Listed(rows)
    <3>1. \A i \in 1..n : /\ records[i].node = rows[i][1] /\ rows[i][1] \notin Roots
                          /\ records[i].isContainer <=> rows[i][1] \in Containers
      BY <1>3 DEF Says, n
    <3> QED BY <1>3, <3>1 DEF ContainersOf, Listed, n
  <2>10. \A i \in 1..n : Wanted(records, i) = AsksFor(rows[i][2], Listed(rows))
    BY <1>3, <2>9 DEF Wanted, ParentIn, AsksFor, Says, n
  <2>11. ASSUME NEW i \in 1..n
         PROVE  LET m == rows[i][1]  wanted == AsksFor(rows[i][2], Listed(rows))
                IN  /\ t.up[m] = wanted \/ (t.up[m] = NewRoot /\ m \in Forest!AncestorsOrSelf(wanted, t.up))
                    /\ t.flags[m] = {"UserViaAPI"}
    <3> DEFINE m == rows[i][1]
               wanted == AsksFor(rows[i][2], Listed(rows))
    <3>1. t.up[m] = p[i] /\ t.flags[m] = {"UserViaAPI"}
      BY <2>5, <2>6 DEF Grown
    <3>2. p[i] = IF AddFails(acc[i-1], wanted, m) THEN NewRoot ELSE wanted
      BY <1>3, <2>5, <2>10 DEF Place, Says, n
    <3>3. ASSUME AddFails(acc[i-1], wanted, m) PROVE m \in Forest!AncestorsOrSelf(wanted, t.up)
      <4> DEFINE u == acc[i-1]
      <4>1. i - 1 \in 0..n /\ n \in Nat
        BY <1>3 DEF n
      <4>2. Grown(u, s, p, v, g, start, i - 1)
        BY <2>4, <4>1
      <4> HIDE DEF u
      <4>3. ASSUME NEW c \in Containers PROVE u.up[c] = NoNode \/ u.up[c] = t.up[c]
        <5>1. CASE \A j \in 1..i-1 : s[j] # c
          BY <4>2, <5>1, NodesFacts DEF Grown
        <5>2. CASE \E j \in 1..i-1 : s[j] = c
          <6>1. PICK j \in 1..i-1 : s[j] = c
            BY <5>2
          <6>2. j \in 1..n
            BY <4>1
          <6> QED BY <2>6, <4>2, <6>1, <6>2 DEF Grown
        <5> QED BY <5>1, <5>2
      <4>4. Forest!AncestorsOrSelf(wanted, u.up) \subseteq Forest!AncestorsOrSelf(wanted, t.up)
        <5> HIDE DEF wanted
        <5> QED BY <4>3, AncestorsStay
      <4> QED BY <3>3, <4>4 DEF AddFails, u
    <3> QED BY <3>1, <3>2, <3>3
  <2>12. \A m \in Listed(rows) : t.up[m] # NoNode /\ (t.up[m] = NewRoot \/ t.up[m] \in Listed(rows))
    <3> SUFFICES ASSUME NEW m \in Listed(rows)
                 PROVE  t.up[m] # NoNode /\ (t.up[m] = NewRoot \/ t.up[m] \in Listed(rows))
      OBVIOUS
    <3>1. PICK i \in 1..n : m = rows[i][1]
      BY <1>3 DEF Listed, n
    <3>2. t.up[m] = p[i] /\ p[i] \in Containers
      BY <2>5, <2>6, <2>8, <3>1 DEF Grown
    <3>3. t.up[m] \in {NewRoot, AsksFor(rows[i][2], Listed(rows))}
      BY <2>11, <3>1
    <3> QED BY <3>2, <3>3, NodesFacts DEF AsksFor
  <2>13. \A m \in Listed(rows) : NewRoot \in Forest!AncestorsOrSelf(t.up[m], t.up)
    <3>1. Listed(rows) \in SUBSET Nodes /\ NewRoot \in Containers
      BY <2>0, DocumentsAssumption, TreeAssumption
    <3> QED BY <2>7, <2>12, <3>1, ReachedFromRoot
  <2>14. Under(t, NewRoot) = Listed(rows)
    <3>1. ASSUME NEW m \in Nodes, m \notin Listed(rows) PROVE t.up[m] = NoNode
      <4>1. \A i \in 1..n : s[i] # m
        BY <2>8, <3>1 DEF ToSet
      <4> QED BY <2>6, <4>1 DEF Grown
    <3>2. NewRoot \notin Listed(rows) /\ Listed(rows) \subseteq Nodes
      BY <2>0, DocumentsAssumption
    <3> QED BY <2>12, <2>13, <3>1, <3>2 DEF Under
  <2>15. Absent(rows) = {t.rootID} \/ (Cardinality(Absent(rows)) # 1 /\ t.rootID = "")
    BY <1>1, <2>7, OmittedRoot, Zenon
  <2>16. ~ (Cardinality(Listed(rows)) < Len(rows))
    BY <1>4, <1>6
  <2>17. HoldsEveryRecord(t, rows)
    <3>1. \A i \in DOMAIN rows :
            LET m == rows[i][1]  wanted == AsksFor(rows[i][2], Listed(rows))
            IN  /\ t.up[m] = wanted \/ (t.up[m] = NewRoot /\ m \in Forest!AncestorsOrSelf(wanted, t.up))
                /\ t.flags[m] = {"UserViaAPI"}
      BY <1>3, <2>11 DEF n
    <3> QED BY <2>7, <2>14, <2>15, <2>16, <3>1, Zenon DEF HoldsEveryRecord
  <2> QED BY <1>1, <2>17
<1> QED BY <1>5, <1>6

(***************************************************************************)
(* What a reader of its own format gets from a CSV document.               *)
(***************************************************************************)
(* A column but for its name.                                              *)
IsKind(d, source, field, filter) == d.source = source /\ d.field = field /\ d.filter = filter

(* The table without the names.                                            *)
LEMMA ColumnKinds ==
  /\ IsKind(columns[1], "meta", "Name", "none")
  /\ IsKind(columns[2], "meta", "Id", "none")
  /\ IsKind(columns[3], "meta", "Parent", "none")
  /\ IsKind(columns[4], "meta", "NodeType", "none")
  /\ IsKind(columns[5], "value", "Username", "Username")
  /\ IsKind(columns[6], "value", "Password", "Password")
  /\ IsKind(columns[7], "value", "Hostname", "none")
  /\ IsKind(columns[8], "value", "Colors", "none")
  /\ IsKind(columns[9], "value", "CacheBitmaps", "none")
  /\ IsKind(columns[10], "value", "RedirectDiskDrives", "none")
  /\ IsKind(columns[11], "value", "RedirectDiskDrivesCustom", "none")
  /\ IsKind(columns[12], "value", "RedirectPorts", "none")
  /\ IsKind(columns[13], "value", "VNCProxyUsername", "none")
  /\ IsKind(columns[14], "value", "VNCProxyPassword", "none")
  /\ IsKind(columns[15], "value", "RedirectAudioCapture", "none")
  /\ IsKind(columns[16], "value", "RDPVersion", "none")
  /\ IsKind(columns[17], "value", "UserViaAPI", "none")
  /\ IsKind(columns[18], "flag", "CacheBitmaps", "none")
  /\ IsKind(columns[19], "flag", "Colors", "none")
  /\ IsKind(columns[20], "flag", "Password", "none")
  /\ IsKind(columns[21], "flag", "RedirectDiskDrives", "none")
  /\ IsKind(columns[22], "flag", "RedirectDiskDrivesCustom", "none")
  /\ IsKind(columns[23], "flag", "RedirectPorts", "none")
  /\ IsKind(columns[24], "flag", "Username", "none")
  /\ IsKind(columns[25], "flag", "VNCProxyUsername", "none")
  /\ IsKind(columns[26], "flag", "VNCProxyPassword", "none")
  /\ IsKind(columns[27], "flag", "SoundQuality", "none")
  /\ IsKind(columns[28], "flag", "RedirectAudioCapture", "none")
  /\ IsKind(columns[29], "flag", "RDPVersion", "none")
  /\ IsKind(columns[30], "flag", "UserViaAPI", "none")
<1>1. \A d, h, s, f, g : IsColumn(d, h, s, f, g) => IsKind(d, s, f, g)
  BY DEF IsColumn, IsKind
<1> HIDE DEF IsKind
<1> QED BY <1>1, ColumnTable, Zenon

(* A column is of the node itself, of a value or of a flag; those of the   *)
(* credentials are filtered by their names.                                *)
IsMeta(d) ==
  /\ d.source = "meta" /\ d.field \in {"Name", "Id", "Parent", "NodeType"}
  /\ d.header = d.field /\ d.filter = "none"
IsValue(d) ==
  /\ d.source = "value" /\ d.field \in Fields \ (ValuesWithoutColumn \cup {"Name"})
  /\ d.filter = IF d.field \in {"Username", "Password"} THEN d.field ELSE "none"
IsFlag(d) ==
  d.source = "flag" /\ d.field \in Inheritable \ FlagsWithoutColumn /\ d.filter = "none"

(* What the table has, and that it lacks nothing else.                     *)
LEMMA ColumnFacts ==
  /\ \A d \in ToSet(columns) : IsMeta(d) \/ IsValue(d) \/ IsFlag(d)
  /\ \A f \in Fields \ ValuesWithoutColumn : \E d \in ToSet(columns) : WantsValue(d, f)
  /\ \A f \in Inheritable \ FlagsWithoutColumn : \E d \in ToSet(columns) : WantsFlag(d, f)
  /\ \A h \in {"Id", "Parent", "NodeType"} : \E d \in ToSet(columns) : WantsMeta(d, h)
<1> USE DEF FlagsWithoutColumn, ValuesWithoutColumn
<1>1. /\ IsMeta(columns[1]) /\ IsMeta(columns[2]) /\ IsMeta(columns[3]) /\ IsMeta(columns[4])
  BY ColumnKinds, ColumnHeaders DEF IsKind, IsMeta
<1>2. \A j \in 5..17 : IsValue(columns[j])
  <2>1. /\ IsValue(columns[5]) /\ IsValue(columns[6]) /\ IsValue(columns[7]) /\ IsValue(columns[8])
        /\ IsValue(columns[9]) /\ IsValue(columns[10]) /\ IsValue(columns[11])
    BY ColumnKinds, FieldsAssumption DEF IsKind, IsValue
  <2>2. /\ IsValue(columns[12]) /\ IsValue(columns[13]) /\ IsValue(columns[14])
        /\ IsValue(columns[15]) /\ IsValue(columns[16]) /\ IsValue(columns[17])
    BY ColumnKinds, FieldsAssumption DEF IsKind, IsValue
  <2> QED BY <2>1, <2>2
<1>3. \A j \in 18..30 : IsFlag(columns[j])
  <2>1. /\ IsFlag(columns[18]) /\ IsFlag(columns[19]) /\ IsFlag(columns[20]) /\ IsFlag(columns[21])
        /\ IsFlag(columns[22]) /\ IsFlag(columns[23]) /\ IsFlag(columns[24])
    BY ColumnKinds, FieldsAssumption DEF IsKind, IsFlag
  <2>2. /\ IsFlag(columns[25]) /\ IsFlag(columns[26]) /\ IsFlag(columns[27])
        /\ IsFlag(columns[28]) /\ IsFlag(columns[29]) /\ IsFlag(columns[30])
    BY ColumnKinds, FieldsAssumption DEF IsKind, IsFlag
  <2> QED BY <2>1, <2>2
<1>4. ASSUME NEW d \in ToSet(columns) PROVE IsMeta(d) \/ IsValue(d) \/ IsFlag(d)
  <2>1. PICK j \in 1..30 : d = columns[j]
    BY ColumnCount DEF ToSet
  <2>2. j \in {1, 2, 3, 4} \/ j \in 5..17 \/ j \in 18..30
    OBVIOUS
  <2> QED BY <1>1, <1>2, <1>3, <2>1, <2>2
<1>5. \A j \in 1..30 : columns[j] \in ToSet(columns)
  BY ColumnCount DEF ToSet
<1>6. ASSUME NEW f \in Fields \ ValuesWithoutColumn PROVE \E j \in 1..30 : WantsValue(columns[j], f)
  <2>1. \/ f = "Name" \/ f \in {"Username", "Password", "Hostname", "Colors", "CacheBitmaps", "RedirectDiskDrives"}
        \/ f \in {"RedirectDiskDrivesCustom", "RedirectPorts", "VNCProxyUsername", "VNCProxyPassword"}
        \/ f \in {"RedirectAudioCapture", "RDPVersion", "UserViaAPI"}
    BY FieldsAssumption
  <2> QED BY <2>1, ColumnKinds DEF IsKind, WantsValue
<1>7. ASSUME NEW f \in Inheritable \ FlagsWithoutColumn PROVE \E j \in 1..30 : WantsFlag(columns[j], f)
  <2>1. \/ f \in {"CacheBitmaps", "Colors", "Password", "RedirectDiskDrives", "RedirectDiskDrivesCustom"}
        \/ f \in {"RedirectPorts", "Username", "VNCProxyUsername", "VNCProxyPassword", "SoundQuality"}
        \/ f \in {"RedirectAudioCapture", "RDPVersion", "UserViaAPI"}
    BY FieldsAssumption
  <2> QED BY <2>1, ColumnKinds DEF IsKind, WantsFlag
<1>8. \A h \in {"Id", "Parent", "NodeType"} : \E j \in 1..30 : WantsMeta(columns[j], h)
  BY ColumnKinds, ColumnHeaders DEF IsKind, WantsMeta
<1> QED BY <1>4, <1>5, <1>6, <1>7, <1>8

(* A save writes the columns of the node, those of the values that are not *)
(* filtered out, and those of the flags if these are kept.                 *)
LEMMA ColumnsAllowed ==
  ASSUME NEW filter \in SaveFilters
  PROVE  /\ \A d \in ToSet(columns) : d.source = "meta" => filterAllows(filter, d)
         /\ \A d \in ToSet(columns), f \in Fields :
              WantsValue(d, f) => (filterAllows(filter, d) <=> ~ FilteredOut(f, filter)) /\ f \notin ValuesWithoutColumn
         /\ \A d \in ToSet(columns), f \in Fields :
              WantsFlag(d, f) => (filterAllows(filter, d) <=> filter.Inheritance) /\ f \notin FlagsWithoutColumn
<1>1. ASSUME NEW d \in ToSet(columns), d.source = "meta" PROVE filterAllows(filter, d)
  BY <1>1, ColumnFacts DEF IsMeta, IsValue, IsFlag, filterAllows
<1>2. ASSUME NEW d \in ToSet(columns), NEW f \in Fields, WantsValue(d, f)
      PROVE  (filterAllows(filter, d) <=> ~ FilteredOut(f, filter)) /\ f \notin ValuesWithoutColumn
  <2>1. \/ IsValue(d) /\ d.field = f
        \/ IsMeta(d) /\ f = "Name"
    BY <1>2, ColumnFacts DEF IsMeta, IsValue, IsFlag, WantsValue
  <2>2. CASE IsMeta(d) /\ f = "Name"
    BY <2>2 DEF IsMeta, filterAllows, FilteredOut, ValuesWithoutColumn, FlagsWithoutColumn
  <2>3. CASE IsValue(d) /\ d.field = f
    BY <2>3 DEF IsValue, filterAllows, FilteredOut
  <2> QED BY <2>1, <2>2, <2>3
<1>3. ASSUME NEW d \in ToSet(columns), NEW f \in Fields, WantsFlag(d, f)
      PROVE  (filterAllows(filter, d) <=> filter.Inheritance) /\ f \notin FlagsWithoutColumn
  BY <1>3, ColumnFacts DEF IsMeta, IsValue, IsFlag, WantsFlag, filterAllows
<1> QED BY <1>1, <1>2, <1>3

(* The header a save writes says which filter it had, and so which columns *)
(* it wrote.                                                               *)
LEMMA HeaderTellsColumns ==
  ASSUME NEW filter \in SaveFilters
  PROVE  inputColumns(publishedHeaders(activeColumns(filter))) = activeColumns(filter)
<1> DEFINE active == activeColumns(filter)
           H == publishedHeaders(active)
<1>1. \A h : h # "" => (h \in ToSet(H) <=> \E d \in ToSet(columns) : filterAllows(filter, d) /\ d.header = h)
  BY ActiveColumns, PublishedHeaders, Zenon
<1>2. ASSUME NEW e \in ToSet(columns)
      PROVE  /\ e.header = "Username" => e = columns[5]
             /\ e.header = "Password" => e = columns[6]
             /\ e.header = "InheritCacheBitmaps" => e = columns[18]
  <2>1. e.header = "Username" => e = columns[5]
    BY ColumnSet, ColumnHeaders, ColumnUnnamed, Zenon
  <2>2. e.header = "Password" => e = columns[6]
    BY ColumnSet, ColumnHeaders, ColumnUnnamed, Zenon
  <2>3. e.header = "InheritCacheBitmaps" => e = columns[18]
    BY ColumnSet, ColumnHeaders, ColumnUnnamed, Zenon
  <2> QED BY <2>1, <2>2, <2>3
<1>3. \A j \in 1..30 : columns[j] \in ToSet(columns)
  BY ColumnCount DEF ToSet
<1>4. /\ filterAllows(filter, columns[5]) <=> filter.Username
      /\ filterAllows(filter, columns[6]) <=> filter.Password
      /\ filterAllows(filter, columns[18]) <=> filter.Inheritance
  BY ColumnKinds DEF IsKind, filterAllows, SaveFilters
<1>5. /\ (\E d \in ToSet(columns) : filterAllows(filter, d) /\ d.header = "Username") <=> filter.Username
      /\ (\E d \in ToSet(columns) : filterAllows(filter, d) /\ d.header = "Password") <=> filter.Password
      /\ (\E d \in ToSet(columns) : filterAllows(filter, d) /\ d.header = "InheritCacheBitmaps")
            <=> filter.Inheritance
  BY <1>2, <1>3, <1>4, ColumnHeaders
<1>6. "Username" # "" /\ "Password" # "" /\ "InheritCacheBitmaps" # ""
  BY Zenon
<1>7. /\ "Username" \in ToSet(H) <=> filter.Username
      /\ "Password" \in ToSet(H) <=> filter.Password
      /\ "InheritCacheBitmaps" \in ToSet(H) <=> filter.Inheritance
  <2> HIDE DEF H
  <2> QED BY <1>1, <1>5, <1>6, Zenon
<1>8. possibleFilters(H) = filter
  <2> HIDE DEF H
  <2> QED BY <1>7 DEF possibleFilters, SaveFilters
<1>9. inputColumns(H) = IF H = publishedHeaders(activeColumns(possibleFilters(H)))
                        THEN activeColumns(possibleFilters(H))
                        ELSE [i \in DOMAIN H |-> columnForHeading(H[i])]
  <2> HIDE DEF H
  <2> QED BY Zenon DEF inputColumns
<1> QED BY <1>8, <1>9, Zenon

(* What a row says of a node: its parent, its kind, a value.               *)
NamedParent(n) == IF parent[n] = NoNode THEN "" ELSE parent[n]
KindOf(n) == IF n \in Containers THEN "Container" ELSE "Connection"
WrittenValue(n, f) == formatValue(f, Effective[n][f])

(* What a cell is made of.                                                 *)
LEMMA CellWritten ==
  ASSUME NEW n, NEW d
  PROVE  /\ d.source = "flag" => encodeColumn(n, d) = formatBool(d.field \in inherit[n])
         /\ d.source = "value" => encodeColumn(n, d) = WrittenValue(n, d.field)
         /\ d.source = "meta" /\ d.header = "Name" => encodeColumn(n, d) = WithoutSeparator[raw[n]["Name"]]
         /\ d.source = "meta" /\ d.header = "Id" => encodeColumn(n, d) = n
         /\ d.source = "meta" /\ d.header = "Parent" => encodeColumn(n, d) = NamedParent(n)
         /\ d.source = "meta" /\ d.header = "NodeType" => encodeColumn(n, d) = KindOf(n)
<1>1. d.source = "flag" => encodeColumn(n, d) = formatBool(d.field \in inherit[n])
  BY Zenon DEF encodeColumn
<1>2. d.source = "value" => encodeColumn(n, d) = WrittenValue(n, d.field)
  BY Zenon DEF encodeColumn, WrittenValue
<1>3. d.source = "meta" /\ d.header = "Name" => encodeColumn(n, d) = WithoutSeparator[raw[n]["Name"]]
  BY Zenon DEF encodeColumn
<1>4. d.source = "meta" /\ d.header = "Id" => encodeColumn(n, d) = n
  BY Zenon DEF encodeColumn
<1>5. d.source = "meta" /\ d.header = "Parent" => encodeColumn(n, d) = NamedParent(n)
  BY Zenon DEF encodeColumn, NamedParent
<1>6. d.source = "meta" /\ d.header = "NodeType" => encodeColumn(n, d) = KindOf(n)
  BY Zenon DEF encodeColumn, KindOf
<1> QED BY <1>1, <1>2, <1>3, <1>4, <1>5, <1>6, Zenon

(* What a row keeps of a node.                                             *)
SavedFlags(n, filter) == IF filter.Inheritance THEN inherit[n] \cap (Inheritable \ FlagsWithoutColumn) ELSE {}
SavedValues(n, filter) == [f \in Fields |-> SavedValue(n, f, filter)]

(* rec is what a save through the filter keeps of n.                       *)
Keeps(rec, n, filter) ==
  /\ rec.node = n /\ rec.parentID = NamedParent(n) /\ (rec.isContainer <=> n \in Containers)
  /\ rec.values = SavedValues(n, filter) /\ rec.flags = SavedFlags(n, filter)

(* A value that is written is a value, and what is saved of it is what a   *)
(* reader can assign.                                                      *)
LEMMA SavedIsValue ==
  ASSUME InheritanceInv, NEW n \in Nodes, NEW f \in Fields, NEW filter
  PROVE  /\ Effective[n] \in [Fields -> Values] /\ SavedValue(n, f, filter) \in Values
         /\ ~FilteredOut(f, filter) /\ f \notin ValuesWithoutColumn =>
              SavedValue(n, f, filter) = IF Assignable(f, WrittenValue(n, f)) THEN WrittenValue(n, f) ELSE Shipped
<1>1. Effective[n] \in [Fields -> Values]
  BY EffectiveType DEF InheritanceInv
<1>2. PICK v : v = WrittenValue(n, f) /\ v \in Values
  BY <1>1, CsvAssumption DEF WrittenValue, formatValue
<1>3. SavedValue(n, f, filter)
        = IF FilteredOut(f, filter) \/ f \in ValuesWithoutColumn \/ (f \in Enums /\ v \notin Enumerators)
          THEN Shipped ELSE v
  BY <1>2 DEF SavedValue, WrittenValue, formatValue
<1> QED BY <1>1, <1>2, <1>3, InheritanceAssumption DEF Assignable

(* The name of a node is its own.                                          *)
LEMMA NameIsLocal ==
  ASSUME InheritanceInv, NEW n \in Nodes
  PROVE  Effective[n]["Name"] = raw[n]["Name"]
<1>1. Effective[n] = Resolved(n, Effective)
  BY EffectiveUnfold DEF InheritanceInv
<1>2. "Name" \in Fields /\ "Name" \notin inherit[n]
  BY FieldsAssumption DEF InheritanceInv, NodeTypeOK
<1> QED BY <1>1, <1>2 DEF Resolved, Apply

(* What is read of the row of n.                                           *)
LEMMA RowReadBack ==
  ASSUME InheritanceInv, NEW n \in Nodes, NEW filter \in SaveFilters, NEW active,
         active = activeColumns(filter), NEW row, Len(row) = Len(active),
         \A j \in 1..Len(active) : row[j] = encodeColumn(n, active[j])
  PROVE  Keeps(decodeRecord(row, active), n, filter)
<1> DEFINE m == Len(active)
<1>1. active \in Seq(ToSet(columns)) /\ m \in Nat /\ DOMAIN active = 1..m
  BY ActiveColumns
<1>2. /\ \A j \in 1..m : active[j] \in ToSet(columns) /\ filterAllows(filter, active[j])
      /\ \A d \in ToSet(columns) : filterAllows(filter, d) => \E j \in 1..m : active[j] = d
  <2>1. \A j \in 1..m : active[j] \in ToSet(active)
    BY <1>1 DEF ToSet
  <2>2. \A d \in ToSet(active) : \E j \in 1..m : active[j] = d
    BY <1>1 DEF ToSet
  <2> HIDE DEF m
  <2> QED BY <2>1, <2>2, ActiveColumns
<1>3. ASSUME NEW h \in {"Id", "Parent", "NodeType"}, NEW v,
             \A d \in ToSet(columns) : WantsMeta(d, h) => encodeColumn(n, d) = v
      PROVE  MetaCell(row, active, h) = v
  <2>1. PICK d \in ToSet(columns) : WantsMeta(d, h)
    BY ColumnFacts
  <2>2. filterAllows(filter, d)
    BY <2>1, ColumnsAllowed DEF WantsMeta
  <2>3. Holds(row, {j \in 1..m : WantsMeta(active[j], h)}, v)
    BY <1>2, <1>3, <2>1, <2>2 DEF Holds
  <2> QED BY <1>1, <2>3, MetaRead
<1>4. ASSUME NEW f \in Fields PROVE ValueRead(row, active, f) = SavedValue(n, f, filter)
  <2>1. CASE FilteredOut(f, filter) \/ f \in ValuesWithoutColumn
    <3>1. \A j \in 1..m : ~ WantsValue(active[j], f)
      BY <1>2, <2>1, ColumnsAllowed
    <3>2. ValueRead(row, active, f) = Shipped
      BY <1>1, <3>1, ValueMissing
    <3> QED BY <2>1, <3>2 DEF SavedValue
  <2>2. CASE ~ FilteredOut(f, filter) /\ f \notin ValuesWithoutColumn
    <3> DEFINE v == WrittenValue(n, f)
    <3>1. PICK d \in ToSet(columns) : WantsValue(d, f)
      BY <2>2, ColumnFacts
    <3>2. filterAllows(filter, d)
      BY <2>2, <3>1, ColumnsAllowed
    <3>3. ASSUME NEW e \in ToSet(columns), WantsValue(e, f) PROVE encodeColumn(n, e) = v
      <4>1. CASE e.source = "value" /\ e.field = f
        <5>1. encodeColumn(n, e) = WrittenValue(n, e.field)
          BY <4>1, CellWritten, Zenon
        <5> QED BY <4>1, <5>1
      <4>2. CASE e.source = "meta" /\ f = "Name" /\ e.header = "Name"
        <5>1. encodeColumn(n, e) = WithoutSeparator[raw[n]["Name"]]
          BY <4>2, CellWritten, Zenon
        <5>2. v = WithoutSeparator[Effective[n][f]]
          BY <4>2 DEF WrittenValue, formatValue, Booleans
        <5> QED BY <4>2, <5>1, <5>2, NameIsLocal
      <4> QED BY <3>3, <4>1, <4>2, ColumnFacts DEF WantsValue, IsMeta, IsValue, IsFlag
    <3> HIDE DEF v
    <3>4. Holds(row, {j \in 1..m : WantsValue(active[j], f)}, v)
      BY <1>2, <3>1, <3>2, <3>3 DEF Holds
    <3>5. ValueRead(row, active, f) = IF Assignable(f, v) THEN v ELSE Shipped
      BY <1>1, <3>4, ValueIsRead
    <3> QED BY <2>2, <3>5, SavedIsValue DEF v
  <2> QED BY <2>1, <2>2
<1>5. ASSUME NEW f \in Inheritable PROVE FlagRead(row, active, f) <=> f \in SavedFlags(n, filter)
  <2>1. f \in Fields
    BY InheritanceAssumption
  <2>2. CASE ~ filter.Inheritance \/ f \in FlagsWithoutColumn
    <3>1. \A j \in 1..m : ~ WantsFlag(active[j], f)
      BY <1>2, <2>1, <2>2, ColumnsAllowed
    <3>2. ~ FlagRead(row, active, f)
      BY <1>1, <3>1, FlagMissing
    <3> QED BY <2>2, <3>2 DEF SavedFlags
  <2>3. CASE filter.Inheritance /\ f \notin FlagsWithoutColumn
    <3> DEFINE v == formatBool(f \in inherit[n])
    <3>1. PICK d \in ToSet(columns) : WantsFlag(d, f)
      BY <2>3, ColumnFacts
    <3>2. filterAllows(filter, d)
      BY <2>1, <2>3, <3>1, ColumnsAllowed
    <3>3. ASSUME NEW e \in ToSet(columns), WantsFlag(e, f) PROVE encodeColumn(n, e) = v
      <4>1. e.source = "flag" /\ e.field = f
        BY <3>3 DEF WantsFlag
      <4> QED BY <4>1, CellWritten, Zenon
    <3> HIDE DEF v
    <3>4. Holds(row, {j \in 1..m : WantsFlag(active[j], f)}, v)
      BY <1>2, <3>1, <3>2, <3>3 DEF Holds
    <3>5. FlagRead(row, active, f) <=> v = "True"
      BY <1>1, <3>4, FlagIsRead
    <3>6. v = "True" <=> f \in inherit[n]
      BY DEF v, formatBool
    <3> QED BY <2>3, <3>5, <3>6 DEF SavedFlags
  <2> QED BY <2>2, <2>3
<1>6. /\ MetaCell(row, active, "Id") = n /\ MetaCell(row, active, "Parent") = NamedParent(n)
      /\ MetaCell(row, active, "NodeType") = KindOf(n)
  <2>1. MetaCell(row, active, "Id") = n
    <3>1. \A d \in ToSet(columns) : WantsMeta(d, "Id") => encodeColumn(n, d) = n
      BY CellWritten, Zenon DEF WantsMeta
    <3> QED BY <1>3, <3>1
  <2>2. MetaCell(row, active, "Parent") = NamedParent(n)
    <3>1. \A d \in ToSet(columns) : WantsMeta(d, "Parent") => encodeColumn(n, d) = NamedParent(n)
      BY CellWritten, Zenon DEF WantsMeta
    <3> QED BY <1>3, <3>1
  <2>3. MetaCell(row, active, "NodeType") = KindOf(n)
    <3>1. \A d \in ToSet(columns) : WantsMeta(d, "NodeType") => encodeColumn(n, d) = KindOf(n)
      BY CellWritten, Zenon DEF WantsMeta
    <3> QED BY <1>3, <3>1
  <2> QED BY <2>1, <2>2, <2>3
<1>7. PICK rec : rec = decodeRecord(row, active)
  OBVIOUS
<1>8. /\ rec.node = MetaCell(row, active, "Id") /\ rec.parentID = MetaCell(row, active, "Parent")
      /\ rec.isContainer = (MetaCell(row, active, "NodeType") = "Container")
      /\ rec.values = [f \in Fields |-> ValueRead(row, active, f)]
      /\ rec.flags = {f \in Inheritable : FlagRead(row, active, f)}
  BY <1>7 DEF decodeRecord
<1>9. rec.values = SavedValues(n, filter)
  BY <1>4, <1>8, Zenon DEF SavedValues
<1>10. rec.flags = SavedFlags(n, filter)
  <2>1. SavedFlags(n, filter) \subseteq Inheritable
    BY DEF SavedFlags, InheritanceInv, NodeTypeOK
  <2> QED BY <1>5, <1>8, <2>1
<1>11. rec.isContainer <=> n \in Containers
  BY <1>6, <1>8 DEF KindOf
<1> QED BY <1>6, <1>7, <1>8, <1>9, <1>10, <1>11 DEF Keeps

(***************************************************************************)
(* What either reader makes of a subtree it has read in the order in which *)
(* it was written.                                                         *)
(***************************************************************************)
(* Where a node of the subtree at top hangs once it is below a new root.   *)
HangsBelow(n, top) == IF parent[n] \in Subtree(top) \ Roots THEN parent[n] ELSE NewRoot

(* t has the nodes of the subtree at top, hung in the order s.             *)
Rebuilt(t, s, p, v, g, start, top) ==
  /\ Grown(t, s, p, v, g, start, Len(s))
  /\ \E first \in BOOLEAN : ListsSubtree(s, top, first)
  /\ \A i \in 1..Len(s) : p[i] = HangsBelow(s[i], top)

(* What hangs in what.                                                     *)
LEMMA HangsInOrder ==
  ASSUME TreeInv, NEW top \in Containers, NEW m \in Subtree(top) \ Roots
  PROVE  /\ m \in Nodes /\ HangsBelow(m, top) \in Containers
         /\ \A c \in (Subtree(top) \ Roots) \cap Containers : HangsBelow(m, top) = c <=> parent[m] = c
         /\ \A c \in Containers \ (Subtree(top) \cup Roots) : HangsBelow(m, top) # c
         /\ top \in Roots => (HangsBelow(m, top) = NewRoot <=> parent[m] = top)
         /\ top \notin Roots => (HangsBelow(m, top) = NewRoot <=> m = top)
<1>1. /\ m \in Nodes /\ parent[m] \in Containers \cup {NoNode} /\ NewRoot \in Roots
      /\ Subtree(top) \subseteq Nodes /\ Containers \subseteq Nodes /\ NoNode \notin Nodes
      /\ NewRoot \in Containers /\ top \in Nodes
  BY TreeFacts, DocumentsAssumption DEF Subtree
<1>2. HangsBelow(m, top) \in Containers
  BY <1>1 DEF HangsBelow
<1>3. \A c \in (Subtree(top) \ Roots) \cap Containers : HangsBelow(m, top) = c <=> parent[m] = c
  BY <1>1 DEF HangsBelow
<1>4. \A c \in Containers \ (Subtree(top) \cup Roots) : HangsBelow(m, top) # c
  BY <1>1 DEF HangsBelow
<1>5. m \in Below(top) => /\ parent[m] \in Containers /\ parent[m] \notin Roots \ {top}
                          /\ parent[m] = top \/ parent[m] \in Below(top)
  BY <1>1, BelowFacts
<1>6. top \notin Below(top) /\ Below(top) \cap Roots = {}
  BY <1>1, TreeFacts
<1>7. ASSUME top \in Roots PROVE HangsBelow(m, top) = NewRoot <=> parent[m] = top
  BY <1>1, <1>5, <1>6, <1>7 DEF HangsBelow, Subtree
<1>8. ASSUME top \notin Roots PROVE HangsBelow(m, top) = NewRoot <=> m = top
  <2>1. parent[top] \notin Subtree(top)
    <3> SUFFICES ASSUME parent[top] \in Subtree(top) PROVE FALSE
      OBVIOUS
    <3>1. /\ parent \in [Nodes -> Containers \cup {NoNode}] /\ Forest!IsForest(parent)
          /\ parent[top] # NoNode /\ parent[top] \in Containers
      BY <1>1, TreeFacts
    <3>2. top \notin Forest!AncestorsOrSelf(parent[top], parent)
      BY <1>1, <3>1, AncestorsAbove
    <3>3. CASE parent[top] = top
      BY <3>1, <3>2, <3>3, AncestorsUnfold
    <3>4. CASE parent[top] \in Below(top)
      BY <3>1, <3>2, <3>4, AncestorsUnfold DEF Below
    <3> QED BY <3>3, <3>4 DEF Subtree
  <2> QED BY <1>1, <1>5, <1>6, <1>8, <2>1 DEF HangsBelow, Subtree
<1> QED BY <1>1, <1>2, <1>3, <1>4, <1>7, <1>8

(* What is below a container of the subtree is in the subtree.             *)
LEMMA SubtreeClosed ==
  ASSUME TreeInv, NEW top \in Containers, NEW c \in Subtree(top) \cap Containers, NEW m \in Nodes,
         parent[m] = c
  PROVE  m \in Subtree(top) \ Roots
<1>1. m \notin Roots
  BY TreeFacts DEF TreeInv, RootsDetached
<1>2. CASE c = top
  <2>1. top \in Forest!AncestorsOrSelf(top, parent) /\ NoNode \notin Containers
    BY TreeFacts, AncestorsUnfold
  <2>2. m # top
    <3>1. /\ parent \in [Nodes -> Containers \cup {NoNode}] /\ Forest!IsForest(parent)
      BY TreeFacts
    <3> QED BY <1>2, <2>1, <3>1, AncestorsAbove
  <2> QED BY <1>1, <1>2, <2>1, <2>2 DEF Below, Subtree
<1>3. CASE c \in Below(top)
  BY <1>1, <1>3, BelowParent DEF Subtree
<1> QED BY <1>2, <1>3 DEF Subtree

(* Every node of the subtree hangs where it should, and no other hangs.    *)
LEMMA RebuiltParents ==
  ASSUME TreeInv, NEW top \in Containers, NEW t, NEW s, NEW p, NEW v, NEW g, NEW start,
         Rebuilt(t, s, p, v, g, start, top)
  PROVE  /\ \A m \in Subtree(top) \ Roots : \E i \in 1..Len(s) :
              s[i] = m /\ t.up[m] = HangsBelow(m, top) /\ t.raw[m] = v[i] /\ t.flags[m] = g[i]
         /\ \A m \in Nodes \ (Subtree(top) \ Roots) :
              t.up[m] = NoNode /\ t.raw[m] = start.raw[m] /\ t.flags[m] = {}
         /\ s \in Seq(Nodes) /\ ToSet(s) = Subtree(top) \ Roots /\ IsInjective(s)
         /\ \A c \in Subtree(top) \cap Containers : Follows(children[c], s)
<1>1. /\ s \in Seq(Nodes) /\ ToSet(s) = Subtree(top) \ Roots /\ IsInjective(s)
      /\ \A c \in Subtree(top) \cap Containers : Follows(children[c], s)
  BY DEF Rebuilt, ListsSubtree, Follows
<1>2. DOMAIN s = 1..Len(s)
  BY <1>1
<1>3. \A m : m \in Subtree(top) \ Roots <=> \E i \in 1..Len(s) : s[i] = m
  BY <1>1, <1>2 DEF ToSet
<1>4. \A m \in Subtree(top) \ Roots : \E i \in 1..Len(s) :
              s[i] = m /\ t.up[m] = HangsBelow(m, top) /\ t.raw[m] = v[i] /\ t.flags[m] = g[i]
  BY <1>3 DEF Rebuilt, Grown
<1>5. \A m \in Nodes \ (Subtree(top) \ Roots) :
        t.up[m] = NoNode /\ t.raw[m] = start.raw[m] /\ t.flags[m] = {}
  BY <1>3 DEF Rebuilt, Grown
<1> QED BY <1>1, <1>4, <1>5

(* The tree has the shape of the subtree.                                  *)
LEMMA RebuiltShape ==
  ASSUME TreeInv, NEW top \in Containers, NEW t, NEW s, NEW p, NEW v, NEW g, NEW start,
         Rebuilt(t, s, p, v, g, start, top)
  PROVE  SameShape(t, top)
<1>1. /\ s \in Seq(Nodes) /\ IsInjective(s) /\ Linked(t) /\ t \in Trees(start.rootID)
      /\ \A c \in Containers : Follows(t.kids[c], s)
  <2>1. s \in Seq(Nodes) /\ IsInjective(s)
    BY RebuiltParents
  <2>2. /\ Linked(t) /\ t \in Trees(start.rootID)
        /\ \A c \in Containers : Follows(t.kids[c], s)
    BY DEF Rebuilt, Grown
  <2> QED BY <2>1, <2>2
<1>2. \A c \in Containers : t.kids[c] \in Seq(Nodes) /\ children[c] \in Seq(Nodes)
  BY <1>1, TreeFacts DEF Trees
<1>3. ASSUME NEW c \in Containers, NEW b \in Seq(Nodes), Follows(b, s),
             \A m \in Nodes : t.up[m] = c <=> m \in ToSet(b)
      PROVE  t.kids[c] = b
  <2>1. ToSet(t.kids[c]) = ToSet(b)
    <3>1. \A m \in Nodes : m \in ToSet(t.kids[c]) <=> m \in ToSet(b)
      BY <1>1, <1>3 DEF Linked
    <3>2. ASSUME NEW x \in Seq(Nodes) PROVE ToSet(x) \subseteq Nodes
      BY DEF ToSet
    <3>3. t.kids[c] \in Seq(Nodes)
      BY <1>2
    <3>4. ToSet(t.kids[c]) \subseteq Nodes /\ ToSet(b) \subseteq Nodes
      BY <3>2, <3>3
    <3> QED BY <3>1, <3>4
  <2> QED BY <1>1, <1>2, <1>3, <2>1, SameOrder
<1>4. \A m \in Nodes : t.up[m] # NoNode => m \in Subtree(top) \ Roots /\ t.up[m] = HangsBelow(m, top)
  BY RebuiltParents
<1>5. \A m \in Subtree(top) \ Roots : t.up[m] = HangsBelow(m, top)
  BY RebuiltParents
<1>6. \A c \in Containers, m \in Nodes : parent[m] = c <=> m \in ToSet(children[c])
  BY DEF TreeInv, WellLinked, LinksAgree
<1>7. ToSet(<<>>) = {} /\ Follows(<<>>, s) /\ <<>> \in Seq(Nodes)
  BY DEF ToSet, Follows
<1>8. NoNode \notin Containers /\ NewRoot \in Containers /\ NewRoot \in Roots
  BY TreeFacts, DocumentsAssumption
<1>9. ASSUME NEW c \in Containers \ Roots
      PROVE  t.kids[c] = IF c \in Subtree(top) THEN children[c] ELSE <<>>
  <2>1. CASE c \in Subtree(top)
    <3>1. \A m \in Nodes : t.up[m] = c <=> parent[m] = c
      BY <1>4, <1>5, <1>8, <2>1, HangsInOrder, SubtreeClosed
    <3>2. Follows(children[c], s)
      BY <2>1, RebuiltParents
    <3> QED BY <1>2, <1>3, <1>6, <2>1, <3>1, <3>2
  <2>2. CASE c \notin Subtree(top)
    <3>1. \A m \in Nodes : t.up[m] # c
      BY <1>4, <1>8, <2>2, HangsInOrder
    <3> QED BY <1>3, <1>7, <2>2, <3>1
  <2> QED BY <2>1, <2>2
<1>10. t.kids[NewRoot] = IF top \in Roots THEN children[top] ELSE <<top>>
  <2>1. CASE top \in Roots
    <3>1. \A m \in Nodes : t.up[m] = NewRoot <=> parent[m] = top
      <4>1. top \in Subtree(top) \cap Containers
        BY DEF Subtree
      <4> QED BY <1>4, <1>5, <1>8, <2>1, <4>1, HangsInOrder, SubtreeClosed
    <3>2. Follows(children[top], s)
      BY RebuiltParents DEF Subtree
    <3> QED BY <1>2, <1>3, <1>6, <1>8, <2>1, <3>1, <3>2
  <2>2. CASE top \notin Roots
    <3>1. \A m \in Nodes : t.up[m] = NewRoot <=> m = top
      <4>1. top \in Subtree(top) \ Roots
        BY <2>2 DEF Subtree
      <4> QED BY <1>4, <1>5, <1>8, <2>2, <4>1, HangsInOrder
    <3>2. ToSet(<<top>>) = {top} /\ Follows(<<top>>, s) /\ <<top>> \in Seq(Nodes)
      BY TreeFacts DEF ToSet, Follows
    <3> QED BY <1>3, <1>8, <2>2, <3>1, <3>2
  <2> QED BY <2>1, <2>2
<1> QED BY <1>1, <1>9, <1>10 DEF SameShape

-----------------------------------------------------------------------------
(* What t passes on, and where the climb for a field of n goes.            *)
PassesOn(t, n, f) == n \notin Roots /\ t.up[n] \notin Roots \cup {NoNode} /\ f \in t.flags[n]
Climb(t, n, f) ==
  {m \in Nodes : \A S \in SUBSET Nodes :
     n \in S /\ (\A k \in S : PassesOn(t, k, f) => t.up[k] \in S) => m \in S}

(* EffectiveOf satisfies the equation it is defined by.                    *)
LEMMA EffectiveOfUnfold ==
  ASSUME NEW id, NEW t \in Trees(id), NEW n \in Nodes, NEW f \in Fields
  PROVE  EffectiveOf(t)[n][f] = IF PassesOn(t, n, f) THEN EffectiveOf(t)[t.up[n]][f] ELSE t.raw[n][f]
<1> DEFINE Equation(h, k) == IF k \in Roots \/ t.up[k] \in Roots \cup {NoNode} THEN t.raw[k]
                             ELSE Apply(t.flags[k], t.raw[k], h[t.up[k]])
           Solves(h) == h = [k \in Nodes |-> Equation(h, k)]
           Source(k, e) == CHOOSE m \in Climb(t, k, e) : ~ PassesOn(t, m, e)
           h == [k \in Nodes |-> [e \in Fields |-> t.raw[Source(k, e)][e]]]
<1>0. /\ t.up \in [Nodes -> Containers \cup {NoNode}] /\ t.raw \in [Nodes -> [Fields -> Values]]
      /\ Containers \subseteq Nodes
  BY NodesFacts DEF Trees
<1>1. EffectiveOf(t) = CHOOSE e : Solves(e)
  BY Zenon DEF EffectiveOf
<1>2. ASSUME NEW k \in Nodes, NEW e \in Fields
      PROVE  /\ ~ PassesOn(t, k, e) => Source(k, e) = k
             /\ PassesOn(t, k, e) => t.up[k] \in Nodes /\ Source(k, e) = Source(t.up[k], e)
  <2>1. ASSUME ~ PassesOn(t, k, e) PROVE Source(k, e) = k
    <3>1. Climb(t, k, e) = {k}
      <4>1. {k} \in SUBSET Nodes /\ k \in {k} /\ \A j \in {k} : PassesOn(t, j, e) => t.up[j] \in {k}
        BY <2>1
      <4> HIDE DEF PassesOn
      <4> QED BY <4>1 DEF Climb
    <3> QED BY <2>1, <3>1
  <2>2. ASSUME PassesOn(t, k, e) PROVE t.up[k] \in Nodes /\ Source(k, e) = Source(t.up[k], e)
    <3>1. t.up[k] \in Nodes
      BY <1>0, <2>2 DEF PassesOn
    <3>2. Climb(t, k, e) = {k} \cup Climb(t, t.up[k], e)
      <4>1. ASSUME NEW m \in Climb(t, t.up[k], e), NEW S \in SUBSET Nodes, k \in S,
                   \A j \in S : PassesOn(t, j, e) => t.up[j] \in S
            PROVE  m \in S
        BY <2>2, <4>1 DEF Climb
      <4>2. ASSUME NEW m \in Climb(t, k, e), m # k, NEW S \in SUBSET Nodes, t.up[k] \in S,
                   \A j \in S : PassesOn(t, j, e) => t.up[j] \in S
            PROVE  m \in S
        <5>1. S \cup {k} \in SUBSET Nodes /\ k \in S \cup {k}
          OBVIOUS
        <5>2. \A j \in S \cup {k} : PassesOn(t, j, e) => t.up[j] \in S \cup {k}
          BY <4>2
        <5>3. m \in S \cup {k}
          BY <4>2, <5>1, <5>2 DEF Climb
        <5> QED BY <4>2, <5>3
      <4>3. k \in Climb(t, k, e)
        BY DEF Climb
      <4>4. Climb(t, t.up[k], e) \subseteq Climb(t, k, e)
        BY <4>1 DEF Climb
      <4>5. Climb(t, k, e) \subseteq {k} \cup Climb(t, t.up[k], e)
        BY <4>2 DEF Climb
      <4> QED BY <4>3, <4>4, <4>5
    <3>3. {m \in Climb(t, k, e) : ~ PassesOn(t, m, e)} = {m \in Climb(t, t.up[k], e) : ~ PassesOn(t, m, e)}
      BY <2>2, <3>2
    <3>4. \A m : m \in Climb(t, k, e) /\ ~ PassesOn(t, m, e) <=> m \in Climb(t, t.up[k], e) /\ ~ PassesOn(t, m, e)
      BY <2>2, <3>2
    <3>5. Source(k, e) = Source(t.up[k], e)
      BY <3>4
    <3> QED BY <3>1, <3>5
  <2> QED BY <2>1, <2>2
<1> HIDE DEF Source
<1>3. ASSUME NEW k \in Nodes PROVE h[k] = Equation(h, k)
  <2>1. CASE k \in Roots \/ t.up[k] \in Roots \cup {NoNode}
    <3>1. \A e \in Fields : Source(k, e) = k
      BY <1>2, <2>1 DEF PassesOn
    <3>2. h[k] = [e \in Fields |-> t.raw[k][e]]
      BY <3>1
    <3>3. t.raw[k] = [e \in Fields |-> t.raw[k][e]]
      BY <1>0
    <3> QED BY <2>1, <3>2, <3>3
  <2>2. CASE k \notin Roots /\ t.up[k] \notin Roots \cup {NoNode}
    <3>1. t.up[k] \in Nodes
      BY <1>0, <2>2
    <3>2. ASSUME NEW e \in Fields
          PROVE  h[k][e] = IF e \in t.flags[k] THEN h[t.up[k]][e] ELSE t.raw[k][e]
      <4>1. PassesOn(t, k, e) <=> e \in t.flags[k]
        BY <2>2 DEF PassesOn
      <4> QED BY <1>2, <3>1, <4>1
    <3>3. h[k] = [e \in Fields |-> IF e \in t.flags[k] THEN h[t.up[k]][e] ELSE t.raw[k][e]]
      <4> DEFINE hk == h[k]
      <4>1. hk = [e \in Fields |-> hk[e]]
        OBVIOUS
      <4> HIDE DEF h
      <4> QED BY <3>2, <4>1
    <3> HIDE DEF h
    <3> QED BY <2>2, <3>3 DEF Apply
  <2> QED BY <2>1, <2>2
<1>4. Solves(h)
  <2>1. h = [k \in Nodes |-> h[k]]
    OBVIOUS
  <2> HIDE DEF h, Equation
  <2> QED BY <1>3, <2>1
<1>5. Solves(EffectiveOf(t))
  <2> HIDE DEF Solves, h
  <2> QED BY <1>1, <1>4
<1>6. PICK E : E = EffectiveOf(t)
  OBVIOUS
<1>7. E[n] = Equation(E, n)
  BY <1>5, <1>6
<1> QED BY <1>0, <1>6, <1>7 DEF Apply, PassesOn

(* In a forest, a node of a set D has the value W for a field if each of D *)
(* has it itself or takes it from one of D with the same W.                *)
LEMMA ValueReaches ==
  ASSUME NEW id, NEW t \in Trees(id), Forest!IsForest(t.up), NEW f \in Fields,
         NEW D \in SUBSET Nodes, NEW W,
         \A n \in D : IF PassesOn(t, n, f) THEN t.up[n] \in D /\ W[t.up[n]] = W[n] ELSE t.raw[n][f] = W[n]
  PROVE  \A n \in D : EffectiveOf(t)[n][f] = W[n]
<1> DEFINE bad == {n \in D : EffectiveOf(t)[n][f] # W[n]}
<1> SUFFICES ASSUME bad # {} PROVE FALSE
  OBVIOUS
<1>1. PICK n \in bad : t.up[n] \notin bad
  BY NodesFacts DEF Forest!IsForest
<1>2. EffectiveOf(t)[n][f] = IF PassesOn(t, n, f) THEN EffectiveOf(t)[t.up[n]][f] ELSE t.raw[n][f]
  BY EffectiveOfUnfold
<1> QED BY <1>1, <1>2

-----------------------------------------------------------------------------
(* records holds what a save keeps of the nodes in the order they come in. *)
KeptRecords(records, order, filter) ==
  /\ records \in Seq({records[i] : i \in 1..Len(order)}) /\ Len(records) = Len(order)
  /\ \A i \in 1..Len(order) : Keeps(records[i], order[i], filter)

(* The records of a saved document are those.                              *)
LEMMA RecordsReadBack ==
  ASSUME InheritanceInv, NEW top \in Containers, NEW filter \in SaveFilters
  PROVE  KeptRecords(CsvRecords(CsvSerialize(top, filter)), serializePostorder[top], filter)
<1>1. PICK order, active, doc, rows, records :
        /\ order = serializePostorder[top] /\ active = activeColumns(filter)
        /\ doc = CsvSerialize(top, filter) /\ rows = doc.rows /\ records = CsvRecords(doc)
  OBVIOUS
<1>2. order \in Seq(Nodes) /\ Len(order) \in Nat /\ DOMAIN order = 1..Len(order)
  <2>1. order \in Seq(Nodes)
    BY <1>1, PostorderUnfold, WalkLists, TreeFacts DEF ListsSubtree, InheritanceInv
  <2> QED BY <2>1
<1>3. active \in Seq(ToSet(columns)) /\ Len(active) \in Nat /\ DOMAIN active = 1..Len(active)
  <2>1. active \in Seq(ToSet(columns))
    BY <1>1, ActiveColumns
  <2> QED BY <2>1
<1>4. /\ doc.headings = publishedHeaders(active)
      /\ rows = [i \in 1..Len(order) |-> [j \in 1..Len(active) |-> encodeColumn(order[i], active[j])]]
  BY <1>1, <1>2, <1>3 DEF CsvSerialize
<1>5. inputColumns(doc.headings) = active
  BY <1>1, <1>4, HeaderTellsColumns
<1>6. records = [i \in 1..Len(order) |-> decodeRecord(rows[i], active)]
  <2>1. DOMAIN rows = 1..Len(order)
    BY <1>4
  <2> QED BY <1>1, <1>5, <2>1, Zenon DEF CsvRecords
<1>7. ASSUME NEW i \in 1..Len(order) PROVE Keeps(records[i], order[i], filter)
  <2>1. PICK row : row = rows[i]
    OBVIOUS
  <2>2. row = [j \in 1..Len(active) |-> encodeColumn(order[i], active[j])]
    BY <1>4, <2>1
  <2>3. Len(row) = Len(active) /\ \A j \in 1..Len(active) : row[j] = encodeColumn(order[i], active[j])
    BY <1>3, <2>2
  <2>4. order[i] \in Nodes
    BY <1>2
  <2>5. Keeps(decodeRecord(row, active), order[i], filter)
    BY <1>1, <2>3, <2>4, RowReadBack
  <2> QED BY <1>6, <2>1, <2>5
<1>8. records \in Seq({records[i] : i \in 1..Len(order)}) /\ Len(records) = Len(order)
  <2>1. PICK S : S = {records[i] : i \in 1..Len(order)}
    OBVIOUS
  <2>2. records \in [1..Len(order) -> S]
    BY <1>6, <2>1
  <2>3. records \in Seq(S)
    BY <1>2, <2>2, SeqDef
  <2> QED BY <1>2, <2>1, <2>2, <2>3
<1>9. KeptRecords(records, order, filter)
  BY <1>7, <1>8 DEF KeptRecords
<1> QED BY <1>1, <1>9

(* A named parent is a node unless it is empty.                            *)
LEMMA NamedParentIs ==
  ASSUME NEW n
  PROVE  /\ parent[n] # NoNode => NamedParent(n) = parent[n]
         /\ parent[n] = NoNode => NamedParent(n) = "" /\ NamedParent(n) \notin Nodes
         /\ parent[n] \in Nodes => NamedParent(n) # ""
<1>1. parent[n] # NoNode => NamedParent(n) = parent[n]
  BY DEF NamedParent
<1>2. parent[n] = NoNode => NamedParent(n) = ""
  BY DEF NamedParent
<1>3. "" \notin Nodes /\ NoNode \notin Nodes
  BY CsvAssumption, NodesFacts, Zenon
<1> QED BY <1>1, <1>2, <1>3, Zenon

(* They are the records of a document a reader accepts, and ask for where  *)
(* their nodes hung.                                                       *)
LEMMA KeptProper ==
  ASSUME InheritanceInv, NEW top \in Containers, NEW filter,
         NEW order, \E first \in BOOLEAN : ListsSubtree(order, top, first),
         NEW records, KeptRecords(records, order, filter)
  PROVE  /\ Proper(records)
         /\ \A i \in 1..Len(order) : Wanted(records, i) = HangsBelow(order[i], top)
<1>1. /\ order \in Seq(Nodes) /\ ToSet(order) = Subtree(top) \ Roots /\ IsInjective(order)
      /\ DOMAIN order = 1..Len(order) /\ Len(order) \in Nat
  <2>1. order \in Seq(Nodes) /\ ToSet(order) = Subtree(top) \ Roots /\ IsInjective(order)
    BY DEF ListsSubtree
  <2> QED BY <2>1
<1>2. /\ Len(records) = Len(order) /\ DOMAIN records = 1..Len(order)
      /\ \A i \in 1..Len(order) : Keeps(records[i], order[i], filter)
  <2>1. PICK S : records \in Seq(S)
    BY DEF KeptRecords
  <2> QED BY <2>1 DEF KeptRecords
<1>3. \A m : m \in Subtree(top) \ Roots <=> \E i \in 1..Len(order) : order[i] = m
  BY <1>1 DEF ToSet
<1>4. \A i \in 1..Len(order) : order[i] \in Nodes \ Roots /\ order[i] \in Subtree(top)
  BY <1>1, <1>3
<1>5. ASSUME NEW i \in 1..Len(order) PROVE IsRecord(records[i])
  <2>1. SavedValues(order[i], filter) \in [Fields -> Values]
    BY <1>4, SavedIsValue DEF SavedValues
  <2>2. SavedFlags(order[i], filter) \in SUBSET Inheritable
    BY <1>4 DEF SavedFlags, InheritanceInv, NodeTypeOK
  <2> QED BY <1>2, <1>4, <2>1, <2>2 DEF Keeps, IsRecord
<1>6. ~ HasDuplicate(records)
  <2> SUFFICES ASSUME NEW i \in 1..Len(order), NEW j \in 1..Len(order), i < j,
                      records[i].node = records[j].node
               PROVE  FALSE
    BY <1>2 DEF HasDuplicate
  <2>1. order[i] = order[j]
    BY <1>2 DEF Keeps
  <2> QED BY <1>1, <2>1 DEF IsInjective
<1>7. ContainersOf(records) = Containers \cap (Subtree(top) \ Roots)
  <2>1. \A i \in 1..Len(order) : records[i].node = order[i] /\ (records[i].isContainer <=> order[i] \in Containers)
    BY <1>2 DEF Keeps
  <2> QED BY <1>2, <1>3, <2>1 DEF ContainersOf
<1>8. ASSUME NEW i \in 1..Len(order) PROVE Wanted(records, i) = HangsBelow(order[i], top)
  <2>1. records[i].parentID = NamedParent(order[i])
    BY <1>2 DEF Keeps
  <2>2. parent[order[i]] \in Containers \cup {NoNode} /\ Containers \subseteq Nodes /\ NoNode \notin Nodes
        /\ Subtree(top) \subseteq Nodes
    BY <1>4, TreeFacts DEF InheritanceInv, Subtree
  <2>3. CASE parent[order[i]] = NoNode
    BY <1>7, <2>1, <2>2, <2>3, NamedParentIs DEF Wanted, ParentIn, HangsBelow
  <2>4. CASE parent[order[i]] # NoNode
    BY <1>7, <2>1, <2>2, <2>4, NamedParentIs DEF Wanted, ParentIn, HangsBelow
  <2> QED BY <2>3, <2>4
<1> QED BY <1>2, <1>5, <1>6, <1>8 DEF Proper

(* Hanging a node of a subtree where it hung closes no cycle, in whatever  *)
(* order the nodes come.                                                   *)
LEMMA NoCycleClosed ==
  ASSUME TreeInv, NEW top \in Containers, NEW m \in Subtree(top) \ Roots,
         NEW up \in [Nodes -> Containers \cup {NoNode}],
         \A k \in Nodes : up[k] \in {NoNode, NewRoot, parent[k]}, up[NewRoot] = NoNode
  PROVE  m \notin Forest!AncestorsOrSelf(HangsBelow(m, top), up)
<1>1. /\ m \in Nodes /\ parent \in [Nodes -> Containers \cup {NoNode}] /\ Forest!IsForest(parent)
      /\ NewRoot \in Roots /\ NewRoot \in Containers /\ Containers \subseteq Nodes /\ NoNode \notin Nodes
      /\ Subtree(top) \subseteq Nodes
  BY TreeFacts, DocumentsAssumption DEF Subtree
<1>2. CASE HangsBelow(m, top) = NewRoot
  BY <1>1, <1>2, AloneOnTop
<1>3. CASE HangsBelow(m, top) # NewRoot
  <2> DEFINE A == Forest!AncestorsOrSelf(parent[m], parent)
             T == A \cup {NewRoot}
  <2>1. HangsBelow(m, top) = parent[m] /\ parent[m] \in Containers /\ parent[m] # NoNode
    BY <1>1, <1>3 DEF HangsBelow
  <2>2. m \notin A /\ parent[m] \in A /\ A \subseteq Containers
    <3>1. m \notin A
      BY <1>1, <2>1, AncestorsAbove
    <3>2. parent[m] \in A
      BY <1>1, <2>1, AncestorsUnfold
    <3>3. A \subseteq Containers
      BY DEF Forest!AncestorsOrSelf
    <3> QED BY <3>1, <3>2, <3>3
  <2>3. \A k \in A : parent[k] \in A \cup {NoNode}
    <3> SUFFICES ASSUME NEW k \in A, parent[k] # NoNode PROVE parent[k] \in A
      OBVIOUS
    <3>1. k \in Containers /\ parent[k] \in Containers
      BY <1>1, <2>2
    <3>2. parent[k] \in Forest!AncestorsOrSelf(k, parent)
      BY <1>1, <3>1, AncestorsUnfold
    <3> QED BY <1>1, <2>1, <3>2, AncestorsTransitive
  <2> HIDE DEF A
  <2>4. Forest!ClosedUpwards(T, up) /\ T \in SUBSET Containers /\ parent[m] \in T /\ m \notin T
    BY <1>1, <2>2, <2>3 DEF Forest!ClosedUpwards
  <2> HIDE DEF T
  <2> QED BY <2>1, <2>4 DEF Forest!AncestorsOrSelf
<1> QED BY <1>2, <1>3

Saved(v, g, s, filter) ==
  \A i \in 1..Len(s) : v[i] = SavedValues(s[i], filter) /\ g[i] = SavedFlags(s[i], filter)

CsvRebuilt(t, records, s, filter, top, p, v, g) ==
  Rebuilt(t, s, p, v, g, CsvStart(records), top) /\ Saved(v, g, s, filter)

(* So the reader hangs every node where it hung.                           *)
LEMMA KeptRebuilt ==
  ASSUME InheritanceInv, NEW top \in Containers, NEW filter,
         NEW s, \E first \in BOOLEAN : ListsSubtree(s, top, first),
         NEW records, KeptRecords(records, s, filter)
  PROVE  \E p, v, g : CsvRebuilt(TreeOf(records), records, s, filter, top, p, v, g)
<1> DEFINE start == CsvStart(records)
           n == Len(s)
<1>1. /\ s \in Seq(Nodes) /\ ToSet(s) = Subtree(top) \ Roots /\ DOMAIN s = 1..n /\ n \in Nat
  <2>1. s \in Seq(Nodes) /\ ToSet(s) = Subtree(top) \ Roots
    BY DEF ListsSubtree
  <2> QED BY <2>1
<1>2. Proper(records) /\ \A i \in 1..n : Wanted(records, i) = HangsBelow(s[i], top)
  BY KeptProper
<1>3. /\ Len(records) = n /\ \A i \in 1..n : Keeps(records[i], s[i], filter)
      /\ \E S : records \in Seq(S)
  BY DEF KeptRecords
<1>4. PICK acc, r, p, v, g : Built(records, acc, r, p, v, g)
  BY <1>2, <1>3, RecordsHung
<1>5. Readings(r, p, v, g) /\ Hung(acc, r, p, v, g, start, n) /\ Len(r) = n /\ TreeOf(records) = acc[n]
  BY <1>3, <1>4 DEF Built
<1>6. r = s
  <2>1. \A i \in 1..n : r[i] = s[i]
    BY <1>3, <1>4, <1>5 DEF Built, Keeps
  <2>2. r \in Seq(Nodes)
    BY <1>5 DEF Readings
  <2> QED BY <1>1, <1>5, <2>1, <2>2
<1>7. \A i \in 0..n : Grown(acc[i], s, p, v, g, start, i)
  <2>1. n \in 0..Len(s) /\ Readings(s, p, v, g) /\ Hung(acc, s, p, v, g, start, n) /\ Bare(start)
    BY <1>1, <1>5, <1>6, CsvStartBare
  <2> HIDE DEF start, n
  <2> QED BY <2>1, Growth
<1>8. \A i \in 1..n : /\ v[i] = SavedValues(s[i], filter) /\ g[i] = SavedFlags(s[i], filter)
                      /\ p[i] = Place(records, acc[i-1], i) /\ records[i].node = s[i]
  BY <1>3, <1>4, <1>5, <1>6 DEF Built, Keeps
<1> HIDE DEF start, n
<1>9. ASSUME NEW i \in 1..n PROVE s[i] \in Subtree(top) \ Roots
  BY <1>1 DEF ToSet
<1>10. ASSUME NEW i \in 1..n PROVE p[i] \in {NewRoot, HangsBelow(s[i], top)}
  BY <1>2, <1>8 DEF Place
<1>11. ASSUME NEW i \in 1..n PROVE p[i] = HangsBelow(s[i], top)
  <2> DEFINE t == acc[i-1]
  <2>1. i - 1 \in 0..n /\ \A j \in 1..i-1 : j \in 1..n
    BY <1>1
  <2>2. Grown(t, s, p, v, g, start, i - 1)
    BY <1>7, <2>1
  <2> HIDE DEF t
  <2>3. t.up \in [Nodes -> Containers \cup {NoNode}]
    BY <2>2 DEF Grown, Trees
  <2>4. ASSUME NEW k \in Nodes PROVE t.up[k] \in {NoNode, NewRoot, parent[k]}
    <3>1. CASE \A j \in 1..i-1 : s[j] # k
      BY <2>2, <3>1 DEF Grown
    <3>2. CASE \E j \in 1..i-1 : s[j] = k
      BY <1>10, <2>1, <2>2, <3>2 DEF Grown, HangsBelow
    <3> QED BY <3>1, <3>2
  <2>5. t.up[NewRoot] = NoNode
    <3>1. NewRoot \in Nodes /\ \A j \in 1..i-1 : s[j] # NewRoot
      BY <1>9, <2>1, DocumentsAssumption, NodesFacts
    <3> QED BY <2>2, <3>1 DEF Grown
  <2>6. s[i] \notin Forest!AncestorsOrSelf(HangsBelow(s[i], top), t.up)
    BY <1>9, <2>3, <2>4, <2>5, NoCycleClosed DEF InheritanceInv
  <2>7. p[i] = Place(records, t, i) /\ records[i].node = s[i] /\ Wanted(records, i) = HangsBelow(s[i], top)
    BY <1>2, <1>8 DEF t
  <2> QED BY <2>6, <2>7 DEF Place, AddFails
<1>12. Rebuilt(TreeOf(records), s, p, v, g, start, top)
  <2>1. n \in 0..n
    BY <1>1
  <2> QED BY <1>5, <1>7, <1>11, <2>1 DEF Rebuilt, n
<1>13. CsvRebuilt(TreeOf(records), records, s, filter, top, p, v, g)
  BY <1>8, <1>12 DEF start, n, CsvRebuilt, Saved
<1> QED BY <1>13

(* The one parent without a record is what the saved subtree hung in.      *)
LEMMA KeptRoot ==
  ASSUME InheritanceInv, NEW top \in Containers, NEW filter,
         NEW s, \E first \in BOOLEAN : ListsSubtree(s, top, first),
         NEW records, KeptRecords(records, s, filter)
  PROVE  omittedRootID(records) = Above(top)
<1> DEFINE R == Subtree(top) \ Roots
           ids == {records[i].node : i \in DOMAIN records}
           named == {records[i].parentID : i \in DOMAIN records}
           missing == named \ (ids \cup {""})
<1>1. /\ s \in Seq(Nodes) /\ ToSet(s) = R /\ DOMAIN s = 1..Len(s) /\ DOMAIN records = 1..Len(s)
      /\ \A i \in 1..Len(s) : records[i].node = s[i] /\ records[i].parentID = NamedParent(s[i])
  <2>1. s \in Seq(Nodes) /\ ToSet(s) = R
    BY DEF ListsSubtree
  <2>2. \A i \in 1..Len(s) : records[i].node = s[i] /\ records[i].parentID = NamedParent(s[i])
    BY DEF KeptRecords, Keeps
  <2>3. PICK S : records \in Seq(S) /\ Len(records) = Len(s)
    BY DEF KeptRecords
  <2> HIDE DEF R
  <2> QED BY <2>1, <2>2, <2>3
<1>2. \A m : m \in R <=> \E i \in 1..Len(s) : s[i] = m
  <2> HIDE DEF R
  <2> QED BY <1>1 DEF ToSet
<1>3. ids = R
  <2> HIDE DEF R
  <2> QED BY <1>1, <1>2
<1>4. \A x : x \in named <=> \E m \in R : x = NamedParent(m)
  <2> HIDE DEF R
  <2> QED BY <1>1, <1>2
<1>5. /\ parent \in [Nodes -> Containers \cup {NoNode}] /\ Forest!IsForest(parent)
      /\ Containers \subseteq Nodes /\ NoNode \notin Nodes /\ Roots \subseteq Containers
      /\ Below(top) \subseteq Nodes \ Roots /\ top \notin Below(top) /\ top \in Nodes
      /\ \A m \in Below(top) : parent[m] = top \/ parent[m] \in Below(top)
  BY TreeFacts, BelowFacts DEF InheritanceInv
<1>6. parent[top] \notin R
  <2> SUFFICES ASSUME parent[top] \in R PROVE FALSE
    OBVIOUS
  <2>0. parent[top] = top \/ parent[top] \in Below(top)
    BY DEF Subtree
  <2>1. parent[top] # NoNode /\ parent[top] \in Containers
    BY <1>5, <2>0
  <2>2. top \notin Forest!AncestorsOrSelf(parent[top], parent)
    BY <1>5, <2>1, AncestorsAbove
  <2>3. CASE parent[top] = top
    BY <1>5, <2>1, <2>2, <2>3, AncestorsUnfold
  <2>4. CASE parent[top] \in Below(top)
    BY <1>5, <2>1, <2>2, <2>4, AncestorsUnfold DEF Below
  <2> QED BY <2>0, <2>3, <2>4
<1>7. \A m \in R : NamedParent(m) \in R \cup {""} \/ (NamedParent(m) = parent[m] /\ parent[m] \notin R)
  BY NamedParentIs, Zenon
<1>8. CASE top \in Roots
  <2>1. R = Below(top)
    BY <1>5, <1>8 DEF Subtree
  <2>2. /\ top \notin R /\ top # ""
        /\ \A m \in R : parent[m] # NoNode /\ NamedParent(m) = parent[m] /\ parent[m] \in R \cup {top}
    <3>1. "" \notin Nodes
      BY CsvAssumption, Zenon
    <3>2. top # ""
      BY <1>5, <3>1, Zenon
    <3>3. \A m \in R : parent[m] # NoNode /\ parent[m] \in R \cup {top}
      BY <1>5, <2>1
    <3> QED BY <1>5, <2>1, <3>2, <3>3, NamedParentIs
  <2>3. (\E m \in R : parent[m] = top) <=> children[top] # <<>>
    <3>1. \A m \in Nodes : parent[m] = top <=> m \in ToSet(children[top])
      BY DEF InheritanceInv, TreeInv, WellLinked, LinksAgree
    <3>2. children[top] \in Seq(Nodes)
      BY TreeFacts DEF InheritanceInv
    <3>3. children[top] # <<>> <=> \E m \in Nodes : m \in ToSet(children[top])
      <4>1. PICK a \in Seq(Nodes) : a = children[top]
        BY <3>2
      <4>2. a # <<>> <=> \E m \in Nodes : m \in ToSet(a)
        <5>1. CASE a = <<>>
          <6>1. ToSet(<<>>) = {}
            BY DEF ToSet
          <6> QED BY <5>1, <6>1
        <5>2. CASE a # <<>>
          <6>1. 1 \in DOMAIN a /\ a[1] \in Nodes
            BY <5>2
          <6> QED BY <5>2, <6>1 DEF ToSet
        <5> QED BY <5>1, <5>2
      <4> QED BY <4>1, <4>2
    <3>4. \A m \in Nodes : parent[m] = top => m \in R
      BY SubtreeClosed DEF InheritanceInv, Subtree
    <3> QED BY <1>5, <2>1, <3>1, <3>3, <3>4
  <2>4. missing = IF children[top] = <<>> THEN {} ELSE {top}
    <3> HIDE DEF R, named, ids
    <3>1. \A x : x \in missing <=> x \in named /\ x \notin R /\ x # ""
      BY <1>3, Zenon
    <3>2. \A x : (x \in named /\ x \notin R) <=> (x = top /\ \E m \in R : parent[m] = top)
      <4>1. /\ top \notin R /\ \A m \in R : NamedParent(m) = parent[m] /\ parent[m] \in R \cup {top}
        BY <2>2, Zenon
      <4>2. \A x : (\E m \in R : x = NamedParent(m)) <=> (\E m \in R : x = parent[m])
        BY <4>1
      <4> QED BY <1>4, <4>1, <4>2
    <3>3. \A x : x \in missing <=> (x = top /\ children[top] # <<>>)
      BY <2>2, <2>3, <3>1, <3>2, Zenon
    <3> HIDE DEF missing
    <3> QED BY <3>3
  <2>5. Above(top) = IF children[top] = <<>> THEN "" ELSE top
    BY <1>8, Zenon DEF Above
  <2>6. omittedRootID(records) = IF Cardinality(missing) = 1 THEN CHOOSE id \in missing : TRUE ELSE ""
    BY Zenon DEF omittedRootID
  <2> HIDE DEF missing
  <2>7. Cardinality({}) = 0 /\ Cardinality({top}) = 1 /\ (CHOOSE id \in {top} : TRUE) = top
    BY FS_EmptySet, FS_Singleton
  <2>8. 0 # 1
    OBVIOUS
  <2>9. children[top] = <<>> => missing = {} /\ Above(top) = ""
    BY <2>4, <2>5, Zenon
  <2>10. children[top] # <<>> => missing = {top} /\ Above(top) = top
    BY <2>4, <2>5, Zenon
  <2> QED BY <2>6, <2>7, <2>8, <2>9, <2>10, Zenon
<1>9. CASE top \notin Roots
  <2>1. top \in R /\ \A m \in R : m # top => NamedParent(m) \in R
    <3>1. ASSUME NEW m \in R, m # top PROVE parent[m] \in R /\ parent[m] # NoNode
      BY <1>5, <1>9, <3>1 DEF Subtree
    <3> QED BY <1>9, <3>1, NamedParentIs DEF Subtree
  <2>2. NamedParent(top) \notin R
    <3>1. R \subseteq Nodes
      BY <1>5 DEF Subtree
    <3> HIDE DEF R
    <3> QED BY <1>6, <3>1, NamedParentIs
  <2>3. Above(top) = NamedParent(top)
    BY <1>9, Zenon DEF Above, NamedParent
  <2>4. missing = {Above(top)} \ {""}
    <3> HIDE DEF R, named, ids
    <3>1. \A x : x \in missing <=> x \in named /\ x \notin R /\ x # ""
      BY <1>3, Zenon
    <3>2. \A x : x \in named /\ x \notin R <=> x = NamedParent(top)
      BY <1>4, <2>1, <2>2
    <3> HIDE DEF missing
    <3> QED BY <2>3, <3>1, <3>2, Zenon
  <2>5. omittedRootID(records) = IF Cardinality(missing) = 1 THEN CHOOSE id \in missing : TRUE ELSE ""
    BY Zenon DEF omittedRootID
  <2> HIDE DEF missing
  <2>6. PICK x : x = Above(top)
    OBVIOUS
  <2>7. Cardinality({}) = 0 /\ Cardinality({x}) = 1 /\ (CHOOSE id \in {x} : TRUE) = x
    BY FS_EmptySet, FS_Singleton
  <2>8. 0 # 1
    OBVIOUS
  <2>9. x = "" => missing = {}
    BY <2>4, <2>6, Zenon
  <2>10. x # "" => missing = {x}
    BY <2>4, <2>6, Zenon
  <2> QED BY <2>5, <2>6, <2>7, <2>8, <2>9, <2>10, Zenon
<1> QED BY <1>8, <1>9

(* What is read of a saved document is what was saved.                     *)
LEMMA CsvSaveReadBack ==
  ASSUME InheritanceInv, NEW top \in Containers, NEW filter \in SaveFilters
  PROVE  IsWhatWasSaved(CsvDeserialize(CsvSerialize(top, filter)), top, filter)
<1>1. PICK t, s, records :
        /\ s = serializePostorder[top] /\ records = CsvRecords(CsvSerialize(top, filter))
        /\ t = CsvDeserialize(CsvSerialize(top, filter))
  OBVIOUS
<1>2. \E first \in BOOLEAN : ListsSubtree(s, top, first)
  BY <1>1, PostorderUnfold, WalkLists, TreeFacts DEF InheritanceInv
<1>3. KeptRecords(records, s, filter) /\ t = TreeOf(records)
  BY <1>1, RecordsReadBack DEF CsvDeserialize
<1>4. PICK p, v, g : Rebuilt(t, s, p, v, g, CsvStart(records), top) /\ Saved(v, g, s, filter)
  <2>1. PICK p, v, g : CsvRebuilt(TreeOf(records), records, s, filter, top, p, v, g)
    BY <1>2, <1>3, KeptRebuilt
  <2>2. Rebuilt(t, s, p, v, g, CsvStart(records), top) /\ Saved(v, g, s, filter)
    BY <1>3, <2>1 DEF CsvRebuilt
  <2> QED BY <2>2
<1>5. t \in Trees(Above(top)) /\ Forest!IsForest(t.up)
  <2>1. CsvStart(records).rootID = Above(top)
    BY <1>2, <1>3, CsvStartBare, KeptRoot
  <2> QED BY <1>4, <2>1 DEF Rebuilt, Grown
<1>6. t.error = "nil" /\ t.rootID = Above(top)
  BY <1>5 DEF Trees
<1>7. SameShape(t, top)
  BY <1>4, RebuiltShape DEF InheritanceInv
<1>8. ASSUME NEW n \in Subtree(top) \ Roots
      PROVE  /\ n \in Nodes /\ t.up[n] = HangsBelow(n, top) /\ t.flags[n] = SavedFlags(n, filter)
             /\ \A f \in Fields : t.raw[n][f] = SavedValue(n, f, filter)
  <2>1. PICK i \in 1..Len(s) : s[i] = n /\ t.up[n] = HangsBelow(n, top) /\ t.raw[n] = v[i] /\ t.flags[n] = g[i]
    BY <1>4, RebuiltParents DEF InheritanceInv
  <2>2. n \in Nodes
    BY HangsInOrder DEF InheritanceInv
  <2>3. v[i] = SavedValues(n, filter) /\ g[i] = SavedFlags(n, filter)
    BY <1>4, <2>1 DEF Saved
  <2>4. \A f \in Fields : v[i][f] = SavedValue(n, f, filter)
    BY <2>3 DEF SavedValues
  <2> QED BY <2>1, <2>2, <2>3, <2>4
<1>9. SameFlags(t, top, filter, Inheritable \ FlagsWithoutColumn)
  BY <1>8 DEF SameFlags, SavedFlags
<1>10. ASSUME NEW f \in Fields
       PROVE  \A n \in Subtree(top) \ Roots : EffectiveOf(t)[n][f] = SavedValue(n, f, filter)
  <2> DEFINE D == Subtree(top) \ Roots
             W == [n \in D |-> SavedValue(n, f, filter)]
  <2>1. D \in SUBSET Nodes
    BY <1>8
  <2>2. ASSUME NEW n \in D
        PROVE  IF PassesOn(t, n, f) THEN t.up[n] \in D /\ W[t.up[n]] = W[n] ELSE t.raw[n][f] = W[n]
    <3>1. CASE ~ PassesOn(t, n, f)
      BY <1>8, <3>1
    <3>2. CASE PassesOn(t, n, f)
      <4>1. n \notin Roots /\ t.up[n] = parent[n] /\ parent[n] \in D /\ f \in inherit[n]
        BY <1>8, <3>2, DocumentsAssumption DEF PassesOn, HangsBelow, SavedFlags
      <4>2. Effective[n] = Resolved(n, Effective)
        BY <2>1, EffectiveUnfold DEF InheritanceInv
      <4>3. parent[n] \notin Roots /\ parent[n] # NoNode
        BY <2>1, <4>1, NodesFacts
      <4>4. Effective[n][f] = Effective[parent[n]][f]
        BY <4>1, <4>2, <4>3 DEF Resolved, Apply, InheritanceActive
      <4>5. SavedValue(parent[n], f, filter) = SavedValue(n, f, filter)
        BY <4>4 DEF SavedValue
      <4> HIDE DEF D
      <4> QED BY <3>2, <4>1, <4>5
    <3> QED BY <3>1, <3>2
  <2> HIDE DEF D, W
  <2>3. \A n \in D : EffectiveOf(t)[n][f] = W[n]
    BY <1>5, <2>1, <2>2, ValueReaches
  <2> QED BY <2>3 DEF D, W
<1>11. IsWhatWasSaved(t, top, filter)
  BY <1>6, <1>7, <1>9, <1>10 DEF IsWhatWasSaved
<1> QED BY <1>1, <1>11

(***************************************************************************)
(* What an XML document has of a node.                                     *)
(***************************************************************************)
(* A text is decrypted with the password it was encrypted under ...        *)
LEMMA DecryptEncrypt ==
  ASSUME NEW S, NEW text \in Seq(S), NEW key
  PROVE  Opens(Encrypt(text, key), key) /\ Decrypt(Encrypt(text, key)) = text
<1>1. CASE text = <<>>
  BY <1>1 DEF Opens, Encrypt, Decrypt
<1>2. CASE text # <<>>
  <2>1. PICK cipher : cipher = <<[key |-> key, text |-> text]>>
    OBVIOUS
  <2>2. cipher # <<>> /\ cipher[1].key = key /\ cipher[1].text = text
    BY <2>1
  <2>3. Encrypt(text, key) = cipher
    BY <1>2, <2>1 DEF Encrypt
  <2> QED BY <2>2, <2>3 DEF Opens, Decrypt
<1> QED BY <1>1, <1>2

(* ... and with no other, unless it is empty.                              *)
LEMMA OtherKeyRefused ==
  ASSUME NEW text, text # <<>>, NEW key, NEW other, other # key
  PROVE  Encrypt(text, key) # <<>> /\ ~ Opens(Encrypt(text, key), other)
<1>1. PICK cipher : cipher = <<[key |-> key, text |-> text]>>
  OBVIOUS
<1>2. cipher # <<>> /\ cipher[1].key = key
  BY <1>1
<1>3. Encrypt(text, key) = cipher
  BY <1>1 DEF Encrypt
<1> QED BY <1>2, <1>3 DEF Opens

(* A value that is encrypted alone.                                        *)
LEMMA ValueDecrypted ==
  ASSUME NEW v, NEW key
  PROVE  /\ Opens(Encrypt(Plain(v), key), key)
         /\ decryptAttribute(Encrypt(Plain(v), key)) = v
         /\ Opens(<<>>, key) /\ decryptAttribute(<<>>) = Zero
<1>1. Opens(<<>>, key) /\ decryptAttribute(<<>>) = Zero
  BY DEF Opens, decryptAttribute, Decrypt
<1>2. CASE v = Zero
  <2>1. Encrypt(Plain(v), key) = <<>>
    BY <1>2 DEF Plain, Encrypt
  <2> QED BY <1>1, <1>2, <2>1
<1>3. CASE v # Zero
  <2>1. Plain(v) = <<v>>
    BY <1>3 DEF Plain
  <2>2. Plain(v) \in Seq({v}) /\ Plain(v) # <<>> /\ Plain(v)[1] = v
    BY <2>1
  <2>3. Opens(Encrypt(Plain(v), key), key) /\ Decrypt(Encrypt(Plain(v), key)) = Plain(v)
    BY <2>2, DecryptEncrypt
  <2> QED BY <1>1, <2>2, <2>3 DEF decryptAttribute
<1> QED BY <1>2, <1>3

(* What the reader has of a field of n, and of its flags.                  *)
ReadValue(n, f, filter, version) ==
  IF f = "Password"
  THEN IF filter.Password /\ "Password" \notin inherit[n] THEN Effective[n]["Password"] ELSE Zero
  ELSE KeptValue(n, f, filter, version)
ReadValues(n, filter, version) == [f \in Fields |-> ReadValue(n, f, filter, version)]
ReadFlags(n, filter, version) == inheritanceAttributes(n, filter) \cap Decoded(version)

(* Every version decodes the secrets, and none the color.                  *)
LEMMA DecodedFields ==
  ASSUME NEW version
  PROVE  Secrets \subseteq Decoded(version) /\ "Color" \notin Decoded(version)
BY FieldsAssumption DEF Secrets, Decoded, decode26, decode27, decode28

(* The attributes of a node say that.                                      *)
LEMMA AttributesSay ==
  ASSUME InheritanceInv, NEW n \in Nodes, NEW options, NEW version
  PROVE  /\ nodeAttributes(n, options).id = n
         /\ ~ isIgnoredNodeType(nodeAttributes(n, options).type)
         /\ \A f \in Secrets : nodeAttributes(n, options).secrets[f] = secretAttribute(n, f, options)
         /\ nodeAttributes(n, options).flags = inheritanceAttributes(n, options.filter)
         /\ \A f \in Fields \ Secrets : f \in Decoded(version) =>
              AttributeValue(f, nodeAttributes(n, options).values[f], version)
                = ReadValue(n, f, options.filter, version)
<1>1. PICK attrs : attrs = nodeAttributes(n, options)
  OBVIOUS
<1>2. /\ attrs.id = n /\ attrs.type \in {"Container", "Connection"}
      /\ \A f \in Secrets : attrs.secrets[f] = secretAttribute(n, f, options)
      /\ attrs.flags = inheritanceAttributes(n, options.filter)
  BY <1>1 DEF nodeAttributes
<1>3. ~ isIgnoredNodeType(attrs.type)
  BY <1>2 DEF isIgnoredNodeType
<1>4. ASSUME NEW f \in Fields \ Secrets, f \in Decoded(version)
      PROVE  AttributeValue(f, attrs.values[f], version) = ReadValue(n, f, options.filter, version)
  <2>1. f # "Password" /\ f # "Color" /\ f \in Fields \ (Secrets \cup {"Color"})
    BY <1>4, DecodedFields DEF Secrets
  <2>2. ReadValue(n, f, options.filter, version) = KeptValue(n, f, options.filter, version)
    BY <2>1 DEF ReadValue
  <2>3. CASE f = "Name"
    <3>1. attrs.values[f] = raw[n][f]
      BY <1>1, <2>1, <2>3 DEF nodeAttributes
    <3>2. KeptValue(n, f, options.filter, version) = Effective[n][f]
      BY <1>4, <2>3 DEF KeptValue, LeftOut, Secrets, Enums
    <3>3. AttributeValue(f, attrs.values[f], version) = attrs.values[f]
      BY <2>3 DEF AttributeValue, Enums
    <3> QED BY <2>2, <2>3, <3>1, <3>2, <3>3, NameIsLocal
  <2>4. CASE f \in {"Username", "VNCProxyUsername"}
    <3>1. attrs.values[f] = filteredString(Effective[n][f], options.filter.Username)
      BY <1>1, <2>1, <2>4 DEF nodeAttributes
    <3>2. AttributeValue(f, attrs.values[f], version) = attrs.values[f]
      BY <2>4 DEF AttributeValue, Enums
    <3>3. KeptValue(n, f, options.filter, version) = filteredString(Effective[n][f], options.filter.Username)
      BY <1>4, <2>4 DEF KeptValue, LeftOut, Secrets, Enums, filteredString
    <3> QED BY <2>2, <3>1, <3>2, <3>3
  <2>5. CASE f \notin {"Name", "Username", "VNCProxyUsername"}
    <3>1. PICK v : v = Effective[n][f]
      OBVIOUS
    <3>2. attrs.values[f] = v
      BY <1>1, <2>1, <2>5, <3>1 DEF nodeAttributes
    <3>3. ~ LeftOut(f, options.filter)
      BY <2>5 DEF LeftOut
    <3>4. KeptValue(n, f, options.filter, version)
            = IF f = "RedirectDiskDrives" /\ version < 28 THEN IF v \in Trues THEN Local ELSE Shipped
              ELSE IF f \in Enums THEN IF v \in Enumerators THEN Canonical[v] ELSE Fallback(f)
              ELSE v
      BY <1>4, <3>1, <3>3, Zenon DEF KeptValue
    <3>5. "RedirectDiskDrives" \in Enums
      BY DEF Enums
    <3>6. AttributeValue(f, v, version)
            = IF f = "RedirectDiskDrives" /\ version < 28 THEN IF v \in Trues THEN Local ELSE Shipped
              ELSE IF f \in Enums THEN IF v \in Enumerators THEN Canonical[v] ELSE Fallback(f)
              ELSE v
      BY <3>5 DEF AttributeValue, boolean, enumValue
    <3> QED BY <2>2, <3>2, <3>4, <3>6
  <2> QED BY <2>3, <2>4, <2>5
<1> QED BY <1>1, <1>2, <1>3, <1>4

(* So that is what the reader fills it in with.                            *)
LEMMA NodeDecoded ==
  ASSUME InheritanceInv, NEW n \in Nodes, NEW options, NEW version, NEW t
  PROVE  decodeNode(t, nodeAttributes(n, options), version, options.password)
           = Filled(t, n, ReadValues(n, options.filter, version), ReadFlags(n, options.filter, version))
<1>1. PICK attrs : attrs = nodeAttributes(n, options)
  OBVIOUS
<1>2. ASSUME NEW f \in Secrets
      PROVE  /\ Opens(attrs.secrets[f], options.password)
             /\ decryptAttribute(attrs.secrets[f]) = ReadValue(n, f, options.filter, version)
  <2>1. attrs.secrets[f] = secretAttribute(n, f, options)
    BY <1>1, AttributesSay
  <2>2. CASE f = "Password"
    BY <2>1, <2>2, ValueDecrypted DEF secretAttribute, ReadValue
  <2>3. CASE f # "Password"
    <3>1. f \in Decoded(version) /\ f \notin {"Username", "VNCProxyUsername", "RedirectDiskDrives"} \cup Enums
      BY DecodedFields DEF Secrets, Enums
    <3>2. ReadValue(n, f, options.filter, version)
            = IF options.filter.Password THEN Effective[n][f] ELSE Zero
      BY <2>3, <3>1 DEF ReadValue, KeptValue, LeftOut
    <3> QED BY <2>1, <2>3, <3>2, ValueDecrypted DEF secretAttribute
  <2> QED BY <2>2, <2>3
<1>3. [f \in Fields |-> DecodedValue(attrs, f, version)] = ReadValues(n, options.filter, version)
  <2>1. ASSUME NEW f \in Fields
        PROVE  DecodedValue(attrs, f, version) = ReadValue(n, f, options.filter, version)
    <3>1. CASE f \in Secrets
      BY <1>2, <3>1, DecodedFields DEF DecodedValue
    <3>2. CASE f \notin Secrets /\ f \in Decoded(version)
      <4>1. DecodedValue(attrs, f, version) = AttributeValue(f, attrs.values[f], version)
        BY <3>2 DEF DecodedValue
      <4> QED BY <1>1, <3>2, <4>1, AttributesSay
    <3>3. CASE f \notin Secrets /\ f \notin Decoded(version)
      BY <3>3 DEF DecodedValue, ReadValue, KeptValue, Secrets
    <3> QED BY <3>1, <3>2, <3>3
  <2> QED BY <2>1 DEF ReadValues
<1>4. attrs.id = n /\ attrs.flags \cap Decoded(version) = ReadFlags(n, options.filter, version)
  BY <1>1, AttributesSay DEF ReadFlags
<1>5. PICK values, flags : values = ReadValues(n, options.filter, version)
                           /\ flags = ReadFlags(n, options.filter, version)
  OBVIOUS
<1>6. decodeNode(t, attrs, version, options.password) = Filled(t, n, values, flags)
  BY <1>2, <1>3, <1>4, <1>5, Zenon DEF decodeNode
<1> QED BY <1>1, <1>5, <1>6

(* What is read is of the right type.                                      *)
LEMMA ReadTypes ==
  ASSUME InheritanceInv, NEW n \in Nodes, NEW filter, NEW version
  PROVE  /\ ReadValues(n, filter, version) \in [Fields -> Values]
         /\ ReadFlags(n, filter, version) \in SUBSET Inheritable
<1>1. Effective \in [Nodes -> [Fields -> Values]] /\ inherit \in [Nodes -> SUBSET Inheritable]
  BY EffectiveType DEF InheritanceInv, NodeTypeOK
<1>2. /\ Zero \in Values /\ Shipped \in Values /\ "Password" \in Fields
      /\ Local \in Values /\ \A f : Fallback(f) \in Values
      /\ \A v \in Enumerators : Canonical[v] \in Values
  BY DocumentsAssumption, InheritanceAssumption, FieldsAssumption, TextsAssumption DEF Fallback
<1>3. ASSUME NEW f \in Fields PROVE ReadValue(n, f, filter, version) \in Values
  <2>1. PICK v : v = Effective[n][f] /\ v \in Values
    BY <1>1
  <2>2. KeptValue(n, f, filter, version) 
            \in {Shipped, Zero, Local, Fallback(f), v} \cup {Canonical[w] : w \in Enumerators}
    BY <2>1 DEF KeptValue
  <2>3. KeptValue(n, f, filter, version) \in Values
    BY <1>2, <2>1, <2>2
  <2> QED BY <1>1, <1>2, <2>3 DEF ReadValue
<1> QED BY <1>1, <1>3 DEF ReadValues, ReadFlags, inheritanceAttributes

(* Filling a node in raises no error and moves nothing.                    *)
LEMMA FilledKeeps ==
  ASSUME NEW id, NEW t \in Trees(id), NEW n, NEW values, NEW read
  PROVE  Filled(t, n, values, read).error = "nil" /\ Filled(t, n, values, read).up = t.up
<1>1. PICK up, kids, raws, flags :
        t = [up |-> up, kids |-> kids, raw |-> raws, flags |-> flags, rootID |-> id, error |-> "nil"]
  BY DEF Trees
<1>2. PICK x, y : x = [raws EXCEPT ![n] = values] /\ y = [flags EXCEPT ![n] = read]
  OBVIOUS
<1>3. PICK t1 : t1 = [t EXCEPT !.raw[n] = values]
  OBVIOUS
<1>4. t1 = [t EXCEPT !.raw = x]
  BY <1>1, <1>2, <1>3
<1>5. t1 = [up |-> up, kids |-> kids, raw |-> x, flags |-> flags, rootID |-> id, error |-> "nil"]
  BY <1>1, <1>4
<1>6. PICK t2 : t2 = [t1 EXCEPT !.flags[n] = read]
  OBVIOUS
<1>7. t1.flags = flags
  BY <1>5
<1>8. t2 = [t1 EXCEPT !.flags = y]
  BY <1>2, <1>6, <1>7
<1>9. t2 = [up |-> up, kids |-> kids, raw |-> x, flags |-> y, rootID |-> id, error |-> "nil"]
  BY <1>5, <1>8
<1>10. t2 = Filled(t, n, values, read)
  BY <1>3, <1>6 DEF Filled
<1>11. t2.error = "nil" /\ t2.up = up /\ t.up = up
  BY <1>1, <1>9
<1> QED BY <1>10, <1>11

Outermost(around) == IF around = NoNode THEN NewRoot ELSE around

(* An element is inside that of its node's parent, unless that is a root.  *)
LEMMA AroundIsParent ==
  ASSUME TreeInv, NEW root \in Roots, NEW n \in Subtree(root) \ Roots
  PROVE  Outermost(Around(n)) = HangsBelow(n, root)
<1>1. /\ n \in Below(root) /\ n \in Nodes /\ root \in Nodes /\ NoNode \notin Nodes /\ NewRoot \in Nodes
      /\ Containers \subseteq Nodes /\ Below(root) \cap Roots = {}
  BY TreeFacts, DocumentsAssumption DEF Subtree
<1>2. parent[n] \in Containers /\ (parent[n] = root \/ parent[n] \in Below(root))
  BY <1>1, BelowFacts
<1>3. \A c \in Containers : n \in ToSet(children[c]) <=> parent[n] = c
  BY <1>1 DEF TreeInv, WellLinked, LinksAgree
<1>4. (CHOOSE c \in Containers : n \in ToSet(children[c])) = parent[n]
  BY <1>2, <1>3
<1>5. Around(n) = IF parent[n] \in Roots THEN NoNode ELSE parent[n]
  BY <1>4, Zenon DEF Around
<1>6. CASE parent[n] = root
  <2>1. Around(n) = NoNode /\ parent[n] \notin Subtree(root) \ Roots
    BY <1>5, <1>6
  <2> QED BY <2>1 DEF Outermost, HangsBelow
<1>7. CASE parent[n] \in Below(root)
  <2>1. Around(n) = parent[n] /\ parent[n] \in Subtree(root) \ Roots /\ parent[n] # NoNode
    BY <1>1, <1>2, <1>5, <1>7 DEF Subtree
  <2> QED BY <2>1 DEF Outermost, HangsBelow
<1> QED BY <1>2, <1>6, <1>7

IsElement(x, n, options) == x.around = Around(n) /\ x.attrs = nodeAttributes(n, options)

(* An element that is looked at, inside one that its node is not below, is *)
(* attached to that.                                                       *)
LEMMA ElementAdded ==
  ASSUME InheritanceInv, NEW id, NEW t \in Trees(id), NEW n \in Nodes, NEW options, NEW version,
         NEW x, IsElement(x, n, options), NEW c, Outermost(Around(n)) = c,
         Entered(t, c), n \notin Forest!AncestorsOrSelf(c, t.up)
  PROVE  addNode(t, x, version, options.password)
           = Added(Filled(t, n, ReadValues(n, options.filter, version),
                                ReadFlags(n, options.filter, version)), c, n)
<1>1. PICK values, flags, new :
        /\ values = ReadValues(n, options.filter, version) /\ flags = ReadFlags(n, options.filter, version)
        /\ new = Filled(t, n, values, flags)
  OBVIOUS
<1>2. x.attrs.id = n /\ ~ isIgnoredNodeType(x.attrs.type) /\ t.error = "nil"
  <2>1. nodeAttributes(n, options).id = n /\ ~ isIgnoredNodeType(nodeAttributes(n, options).type)
    BY AttributesSay
  <2>2. t.error = "nil"
    BY DEF Trees
  <2> QED BY <2>1, <2>2 DEF IsElement
<1>3. decodeNode(t, x.attrs, version, options.password) = new
  BY <1>1, NodeDecoded DEF IsElement
<1>4. new.error = "nil" /\ new.up = t.up
  BY <1>1, FilledKeeps
<1>5. ~ AddFails(new, c, n)
  BY <1>4 DEF AddFails
<1>6. (IF x.around = NoNode THEN NewRoot ELSE x.around) = c
  BY DEF IsElement, Outermost
<1>7. addNode(t, x, version, options.password) = Added(new, c, n)
  BY <1>2, <1>3, <1>4, <1>5, <1>6, Zenon DEF addNode
<1> QED BY <1>1, <1>7

XmlStart(name) == [NewTree EXCEPT !.raw[NewRoot]["Name"] = name]

(* The reader starts with a root alone, under its name.                    *)
LEMMA XmlStartBare ==
  ASSUME NEW name \in Values
  PROVE  Bare(XmlStart(name)) /\ XmlStart(name).raw[NewRoot]["Name"] = name
<1>1. PICK start, id, up, kids, raws, flags :
        /\ start = XmlStart(name) /\ id = NewTree.rootID
        /\ up = [n \in Nodes |-> NoNode] /\ kids = [c \in Containers |-> <<>>]
        /\ raws = [n \in Nodes |-> [f \in Fields |-> Shipped]] /\ flags = [n \in Nodes |-> {}]
  OBVIOUS
<1>2. PICK t : t = NewTree
  OBVIOUS
<1>3. t = [up |-> up, kids |-> kids, raw |-> raws, flags |-> flags, rootID |-> id, error |-> "nil"]
  <2>1. t = [up |-> up, kids |-> kids, raw |-> raws, flags |-> flags, rootID |-> "", error |-> "nil"]
    BY <1>1, <1>2, Zenon DEF NewTree
  <2>2. id = ""
    BY <1>1, Zenon DEF NewTree
  <2> QED BY <2>1, <2>2, Zenon
<1>4. start = [t EXCEPT !.raw[NewRoot]["Name"] = name]
  BY <1>1, <1>2, Zenon DEF XmlStart
<1>5. PICK row : row = [f \in Fields |-> Shipped]
  OBVIOUS
<1>6. PICK named : named = [row EXCEPT !["Name"] = name]
  OBVIOUS
<1>7. PICK x : x = [raws EXCEPT ![NewRoot] = named]
  OBVIOUS
<1>8. NewRoot \in Nodes /\ NoNode \notin Nodes /\ "Name" \in Fields /\ Shipped \in Values
  BY DocumentsAssumption, FieldsAssumption, InheritanceAssumption, TreeAssumption, NodesFacts
<1>9. raws[NewRoot] = row
  BY <1>1, <1>5, <1>8
<1>10. start = [t EXCEPT !.raw = x]
  <2>1. t.raw = raws
    BY <1>3
  <2>2. [raws EXCEPT ![NewRoot]["Name"] = name] = x
    BY <1>6, <1>7, <1>9
  <2> QED BY <1>4, <2>1, <2>2
<1>11. start = [up |-> up, kids |-> kids, raw |-> x, flags |-> flags, rootID |-> id, error |-> "nil"]
  BY <1>3, <1>10
<1>12. x \in [Nodes -> [Fields -> Values]] /\ x[NewRoot]["Name"] = name
  <2>1. named \in [Fields -> Values] /\ named["Name"] = name
    BY <1>5, <1>6, <1>8
  <2>2. raws \in [Nodes -> [Fields -> Values]]
    BY <1>1, <1>8
  <2> QED BY <1>7, <1>8, <2>1, <2>2
<1>13. start \in Trees(id) /\ start.rootID = id
  <2>1. /\ up \in [Nodes -> Containers \cup {NoNode}] /\ kids \in [Containers -> Seq(Nodes)]
        /\ flags \in [Nodes -> SUBSET Inheritable]
    <3>1. <<>> \in Seq(Nodes)
      OBVIOUS
    <3> QED BY <1>1, <3>1
  <2> QED BY <1>11, <1>12, <2>1 DEF Trees
<1>14. /\ \A n \in Nodes : start.up[n] = NoNode /\ start.flags[n] = {}
       /\ \A c \in Containers : start.kids[c] = <<>>
  BY <1>1, <1>11
<1> QED BY <1>1, <1>11, <1>12, <1>13, <1>14 DEF Bare

(* What was read of each of them.                                          *)
ReadOf(v, g, s, filter, version) ==
  \A i \in 1..Len(s) : v[i] = ReadValues(s[i], filter, version) /\ g[i] = ReadFlags(s[i], filter, version)

XmlRebuilt(t, start, s, filter, version, root, p, v, g) ==
  Rebuilt(t, s, p, v, g, start, root) /\ ReadOf(v, g, s, filter, version)

(* The elements of these nodes.                                            *)
ElementsOf(nodes, s, options) ==
  /\ Len(nodes) = Len(s) /\ \E S : nodes \in Seq(S)
  /\ \A i \in 1..Len(s) : IsElement(nodes[i], s[i], options)

(* Every element is inside one that was attached before it, and so every   *)
(* node is hung where it hung.                                             *)
LEMMA ElementsRebuilt ==
  ASSUME InheritanceInv, NEW root \in Roots, NEW s, ListsSubtree(s, root, TRUE),
         NEW options, NEW version, NEW nodes, ElementsOf(nodes, s, options),
         NEW start, Bare(start), NEW acc, Turns(acc, XmlWay(version, options.password), start, nodes)
  PROVE  \E p, v, g : XmlRebuilt(acc[Len(nodes)], start, s, options.filter, version, root, p, v, g)
<1> DEFINE n == Len(s)
<1>1. PICK p, v, g :
        /\ p = [i \in 1..n |-> HangsBelow(s[i], root)]
        /\ v = [i \in 1..n |-> ReadValues(s[i], options.filter, version)]
        /\ g = [i \in 1..n |-> ReadFlags(s[i], options.filter, version)]
  OBVIOUS
<1>2. /\ s \in Seq(Nodes) /\ ToSet(s) = Subtree(root) \ Roots /\ IsInjective(s) /\ TreeInv
      /\ n \in Nat /\ DOMAIN s = 1..n /\ Len(nodes) = n /\ root \in Containers
  <2>1. s \in Seq(Nodes) /\ ToSet(s) = Subtree(root) \ Roots /\ IsInjective(s)
    BY DEF ListsSubtree
  <2>2. TreeInv /\ root \in Containers
    BY TreeFacts DEF InheritanceInv
  <2> QED BY <2>1, <2>2 DEF ElementsOf
<1>3. ASSUME NEW i \in 1..n
      PROVE  /\ s[i] \in Subtree(root) \ Roots /\ s[i] \in Nodes /\ p[i] = HangsBelow(s[i], root)
             /\ p[i] \in Containers /\ v[i] = ReadValues(s[i], options.filter, version)
             /\ g[i] = ReadFlags(s[i], options.filter, version)
  <2>1. s[i] \in Subtree(root) \ Roots
    BY <1>2 DEF ToSet
  <2>2. s[i] \in Nodes /\ HangsBelow(s[i], root) \in Containers
    BY <1>2, <2>1, HangsInOrder
  <2> QED BY <1>1, <2>1, <2>2
<1>4. Readings(s, p, v, g)
  <2>1. \A i \in 1..n : p[i] \in Containers /\ v[i] \in [Fields -> Values] /\ g[i] \in SUBSET Inheritable
    BY <1>3, ReadTypes
  <2>2. /\ p = [i \in 1..n |-> p[i]] /\ v = [i \in 1..n |-> v[i]] /\ g = [i \in 1..n |-> g[i]]
    BY <1>1
  <2>3. /\ p \in [1..n -> Containers] /\ v \in [1..n -> [Fields -> Values]]
        /\ g \in [1..n -> SUBSET Inheritable]
    BY <2>1, <2>2
  <2>4. ToSet(s) \cap Roots = {}
    BY <1>2
  <2> QED BY <1>2, <2>3, <2>4 DEF Readings
<1>5. acc[0] = start /\ \A i \in 1..n : acc[i] = addNode(acc[i-1], nodes[i], version, options.password)
  <2>1. acc[0] = start /\ \A i \in 1..n : acc[i] = Turn(XmlWay(version, options.password), acc[i-1], nodes[i])
    BY <1>2 DEF Turns
  <2>2. \A t, x : Turn(XmlWay(version, options.password), t, x) = addNode(t, x, version, options.password)
    BY DEF Turn, XmlWay
  <2> QED BY <2>1, <2>2
<1> HIDE DEF n
<1> DEFINE T == {i \in Nat : i \in 0..n => Hung(acc, s, p, v, g, start, i)}
<1>6. 0 \in T
  <2>1. 1..0 = {}
    OBVIOUS
  <2> QED BY <1>5, <2>1 DEF Hung
<1>7. ASSUME NEW k \in Nat, k \in T PROVE k + 1 \in T
  <2> SUFFICES ASSUME k + 1 \in 0..n PROVE Hung(acc, s, p, v, g, start, k + 1)
    OBVIOUS
  <2> DEFINE t == acc[k]
             c == p[k+1]
             m == s[k+1]
  <2>1. k \in 0..n /\ k + 1 \in 1..n /\ (k + 1) - 1 = k /\ \A i \in 1..k : i \in 1..n
    BY <1>2
  <2>2. Hung(acc, s, p, v, g, start, k)
    BY <1>7, <2>1
  <2>3. Grown(t, s, p, v, g, start, k)
    <3>1. k \in 0..Len(s) /\ k \in 0..k
      BY <2>1 DEF n
    <3> QED BY <1>4, <2>2, <3>1, Growth
  <2>4. /\ m \in Subtree(root) \ Roots /\ m \in Nodes /\ c = HangsBelow(m, root) /\ c \in Containers
        /\ v[k+1] = ReadValues(m, options.filter, version) /\ g[k+1] = ReadFlags(m, options.filter, version)
    BY <1>3, <2>1
  <2>5. acc[k+1] = addNode(t, nodes[k+1], version, options.password) /\ IsElement(nodes[k+1], m, options)
    BY <1>5, <2>1 DEF ElementsOf, n
  <2> HIDE DEF t
  <2>6. t \in Trees(start.rootID) /\ t.up \in [Nodes -> Containers \cup {NoNode}]
    BY <2>3 DEF Grown, Trees
  <2>7. Entered(t, c)
    <3>1. CASE c = NewRoot
      BY <3>1 DEF Entered
    <3>2. CASE c # NewRoot
      <4>1. c = parent[m] /\ c \in Subtree(root) \ Roots /\ m \in Below(root)
        BY <2>4, <3>2, DocumentsAssumption DEF HangsBelow, Subtree
      <4>2. Before(s, c, m)
        BY <4>1 DEF ListsSubtree
      <4>3. PICK i, j \in 1..n : i < j /\ s[i] = c /\ s[j] = m
        BY <1>2, <4>2 DEF Before, n
      <4>4. j = k + 1
        BY <1>2, <2>1, <4>3 DEF IsInjective
      <4>5. i \in 1..k
        BY <2>1, <4>3, <4>4
      <4>6. t.up[c] = p[i] /\ p[i] \in Containers
        BY <1>3, <2>1, <2>3, <4>3, <4>5 DEF Grown
      <4>7. NoNode \notin Containers
        BY TreeAssumption
      <4> QED BY <2>4, <4>6, <4>7 DEF Entered
    <3> QED BY <3>1, <3>2
  <2>8. m \notin Forest!AncestorsOrSelf(c, t.up)
    <3>1. ASSUME NEW a \in Nodes PROVE t.up[a] \in {NoNode, NewRoot, parent[a]}
      <4>1. CASE \A i \in 1..k : s[i] # a
        BY <2>3, <4>1 DEF Grown
      <4>2. CASE \E i \in 1..k : s[i] = a
        BY <1>3, <2>1, <2>3, <4>2 DEF Grown, HangsBelow
      <4> QED BY <4>1, <4>2
    <3>2. t.up[NewRoot] = NoNode
      <4>1. NewRoot \in Nodes /\ \A i \in 1..k : s[i] # NewRoot
        BY <1>3, <2>1, DocumentsAssumption, NodesFacts
      <4> QED BY <2>3, <4>1 DEF Grown
    <3> QED BY <1>2, <2>4, <2>6, <3>1, <3>2, NoCycleClosed
  <2>9. Outermost(Around(m)) = c
    BY <1>2, <2>4, AroundIsParent
  <2>10. acc[k+1] = Added(Filled(t, m, v[k+1], g[k+1]), c, m)
    <3> HIDE DEF m, c
    <3> QED BY <2>4, <2>5, <2>6, <2>7, <2>8, <2>9, ElementAdded
  <2>11. \A i \in 1..(k+1) : i \in 1..k \/ i = k + 1
    OBVIOUS
  <2> QED BY <2>1, <2>2, <2>8, <2>10, <2>11 DEF Hung, t
<1>8. n \in T
  <2> HIDE DEF T
  <2>1. Nat \subseteq T
    BY <1>6, <1>7, Induction
  <2> QED BY <1>2, <2>1
<1>9. Grown(acc[n], s, p, v, g, start, n)
  <2>1. n \in 0..Len(s) /\ n \in 0..n /\ Hung(acc, s, p, v, g, start, n)
    BY <1>2, <1>8 DEF n
  <2> QED BY <1>4, <2>1, Growth
<1>10. Rebuilt(acc[n], s, p, v, g, start, root)
  <2>1. \E first \in BOOLEAN : ListsSubtree(s, root, first)
    OBVIOUS
  <2> QED BY <1>3, <1>9, <2>1 DEF Rebuilt, n
<1>11. XmlRebuilt(acc[n], start, s, options.filter, version, root, p, v, g)
  BY <1>3, <1>10 DEF XmlRebuilt, ReadOf, n
<1> QED BY <1>2, <1>11

ElementsIn(root, options) ==
  [i \in DOMAIN encodeNode[root] |-> [around |-> Around(encodeNode[root][i]),
                                      attrs |-> nodeAttributes(encodeNode[root][i], options)]]
Marker(options) == IF options.password = defaultPassword THEN "ThisIsNotProtected" ELSE "ThisIsProtected"

(* A saved document, in a version.                                         *)
IsDocument(d, root, options, version, inner) ==
  /\ d.name = raw[root]["Name"] /\ d.confVersion = version
  /\ d.protected = Encrypt(<<Marker(options)>>, options.password)
  /\ d.fullFileEncryption = options.fullFile
  /\ d.nodes = IF options.fullFile THEN <<>> ELSE inner
  /\ d.payload = IF options.fullFile THEN Encrypt(inner, options.password) ELSE <<>>

(* A save writes one.                                                      *)
LEMMA DocumentWritten ==
  ASSUME NEW root, NEW options, NEW version
  PROVE  IsDocument([XmlSerialize(root, options) EXCEPT !.confVersion = version],
                    root, options, version, ElementsIn(root, options))
<1>1. PICK inner, name, protected, fullFile, plain, payload, d :
        /\ inner = ElementsIn(root, options) /\ name = raw[root]["Name"]
        /\ protected = Encrypt(<<Marker(options)>>, options.password) /\ fullFile = options.fullFile
        /\ plain = IF fullFile THEN <<>> ELSE inner
        /\ payload = IF fullFile THEN Encrypt(inner, options.password) ELSE <<>>
        /\ d = XmlSerialize(root, options)
  OBVIOUS
<1>2. d = [name |-> name, confVersion |-> "2.8", protected |-> protected,
           fullFileEncryption |-> fullFile, nodes |-> plain, payload |-> payload]
  BY <1>1, Zenon DEF XmlSerialize, ElementsIn, Marker
<1>3. PICK e : e = [d EXCEPT !.confVersion = version]
  OBVIOUS
<1>4. e = [name |-> name, confVersion |-> version, protected |-> protected,
           fullFileEncryption |-> fullFile, nodes |-> plain, payload |-> payload]
  BY <1>2, <1>3
<1>5. /\ e.name = name /\ e.confVersion = version /\ e.protected = protected
      /\ e.fullFileEncryption = fullFile /\ e.nodes = plain /\ e.payload = payload
  BY <1>4
<1>6. IsDocument(e, root, options, version, inner)
  BY <1>1, <1>5, Zenon DEF IsDocument
<1> QED BY <1>1, <1>3, <1>6

(* The versions that a reader knows.                                       *)
LEMMA VersionKnown ==
  ASSUME NEW version \in {"2.6", "2.7", "2.8"}
  PROVE  parseVersion(version) # 0
BY DEF parseVersion

(* Another password opens nothing.                                         *)
LEMMA OtherPasswordRefused ==
  ASSUME NEW root, NEW options, NEW version \in {"2.6", "2.7", "2.8"}, NEW inner,
         NEW d, IsDocument(d, root, options, version, inner),
         NEW password, password # options.password
  PROVE  XmlDeserialize(d, password) = Refused("ErrAuthentication")
<1>1. parseVersion(d.confVersion) # 0
  BY VersionKnown DEF IsDocument
<1>2. ~ Authenticates(d, password)
  <2>1. PICK text : text = <<Marker(options)>>
    OBVIOUS
  <2>2. text # <<>> /\ d.protected = Encrypt(text, options.password)
    BY <2>1 DEF IsDocument
  <2> QED BY <2>2, OtherKeyRefused DEF Authenticates
<1> QED BY <1>1, <1>2, Zenon DEF XmlDeserialize

(* The one it was saved under has the elements read.                       *)
LEMMA SamePasswordLoads ==
  ASSUME NEW root, NEW options, NEW version \in {"2.6", "2.7", "2.8"}, NEW S, NEW inner \in Seq(S),
         NEW d, IsDocument(d, root, options, version, inner), options.fullFile \in BOOLEAN
  PROVE  XmlDeserialize(d, options.password)
           = XmlLoaded(inner, XmlStart(Trimmed[raw[root]["Name"]]), parseVersion(version), options.password)
<1>1. /\ parseVersion(d.confVersion) # 0 /\ d.confVersion = version /\ d.name = raw[root]["Name"]
      /\ d.fullFileEncryption = options.fullFile
  BY VersionKnown DEF IsDocument
<1>2. Authenticates(d, options.password)
  <2>1. PICK text : text = <<Marker(options)>>
    OBVIOUS
  <2>2. text # <<>> /\ text \in Seq({Marker(options)}) /\ d.protected = Encrypt(text, options.password)
    BY <2>1 DEF IsDocument
  <2>3. Encrypt(text, options.password) # <<>>
    <3>1. PICK cipher : cipher = <<[key |-> options.password, text |-> text]>>
      OBVIOUS
    <3>2. cipher # <<>>
      BY <3>1
    <3> QED BY <2>2, <3>1, <3>2 DEF Encrypt
  <2> QED BY <2>2, <2>3, DecryptEncrypt DEF Authenticates
<1>3. options.fullFile => Opens(d.payload, options.password)
  BY DecryptEncrypt DEF IsDocument
<1>4. (IF options.fullFile THEN Decrypt(d.payload) ELSE d.nodes) = inner
  BY DecryptEncrypt DEF IsDocument
<1>5. ~ (d.fullFileEncryption /\ ~ Opens(d.payload, options.password))
  BY <1>1, <1>3
<1>6. XmlDeserialize(d, options.password)
        = XmlLoaded(IF d.fullFileEncryption THEN Decrypt(d.payload) ELSE d.nodes,
                    XmlStart(Trimmed[d.name]), parseVersion(d.confVersion), options.password)
  <2>1. parseVersion(d.confVersion) # 0
    BY <1>1
  <2> QED BY <1>2, <1>5, <2>1, Zenon DEF XmlDeserialize, XmlLoaded, XmlStart
<1> QED BY <1>1, <1>4, <1>6

(* Of the values that a version has, each of a node that hangs where it    *)
(* hung reaches it: its own, or by way of the folders above it.            *)
LEMMA KeptReaches ==
  ASSUME InheritanceInv, NEW root \in Roots, NEW filter, filter.Inheritance \in BOOLEAN, NEW version,
         NEW id, NEW t \in Trees(id), Forest!IsForest(t.up),
         \A n \in Below(root) : /\ t.up[n] = HangsBelow(n, root)
                                /\ t.raw[n] = ReadValues(n, filter, version)
                                /\ t.flags[n] = ReadFlags(n, filter, version),
         NEW f \in Fields
  PROVE  \A n \in Below(root) : \/ f = "Password" /\ PasswordLost(n, filter)
                                \/ EffectiveOf(t)[n][f] = KeptValue(n, f, filter, version)
<1> DEFINE Lost(n) == f = "Password" /\ PasswordLost(n, filter)
           D == {n \in Below(root) : ~ Lost(n)}
           W == [n \in D |-> KeptValue(n, f, filter, version)]
<1>1. /\ Below(root) \subseteq Nodes /\ Below(root) \cap Roots = {} /\ root \in Nodes /\ TreeInv
      /\ parent[root] = NoNode /\ NoNode \notin Nodes /\ root \notin Below(root)
      /\ Containers \subseteq Nodes /\ NewRoot \in Roots /\ "Password" \in decode26
  <2>1. /\ Below(root) \subseteq Nodes \ Roots /\ root \in Nodes /\ NoNode \notin Nodes
        /\ root \notin Below(root) /\ Containers \subseteq Nodes /\ TreeInv
    BY TreeFacts DEF InheritanceInv
  <2>2. parent[root] = NoNode /\ NewRoot \in Roots
    BY DocumentsAssumption DEF InheritanceInv, TreeInv, RootsDetached
  <2>3. "Password" \in decode26
    BY FieldsAssumption DEF decode26, decode27
  <2> QED BY <2>1, <2>2, <2>3
<1>2. ASSUME NEW n \in Below(root) PROVE PassesOn(t, n, f) <=>
        /\ parent[n] \in Below(root) /\ filter.Inheritance /\ f \in inherit[n] /\ f \in Decoded(version)
  <2>1. t.flags[n] = ReadFlags(n, filter, version) /\ t.up[n] = HangsBelow(n, root)
    OBVIOUS
  <2>2. f \in t.flags[n] <=> filter.Inheritance /\ f \in inherit[n] /\ f \in Decoded(version)
    BY <2>1, DecodedFields DEF ReadFlags, inheritanceAttributes
  <2>3. t.up[n] \notin Roots \cup {NoNode} <=> parent[n] \in Below(root)
    BY <1>1, <2>1 DEF HangsBelow, Subtree
  <2> QED BY <1>1, <2>2, <2>3 DEF PassesOn
<1>3. ASSUME NEW n \in Below(root), f \in inherit[n], parent[n] \in Below(root)
      PROVE  Effective[n][f] = Effective[parent[n]][f]
  <2>1. n \in Nodes /\ n \notin Roots /\ parent[n] \notin Roots /\ parent[n] # NoNode
    BY <1>1, <1>3
  <2>2. Effective[n] = Resolved(n, Effective)
    BY <2>1, EffectiveUnfold DEF InheritanceInv
  <2> QED BY <1>3, <2>1, <2>2 DEF Resolved, Apply, InheritanceActive
<1>4. ASSUME NEW n \in D
      PROVE  IF PassesOn(t, n, f) THEN t.up[n] \in D /\ W[t.up[n]] = W[n] ELSE t.raw[n][f] = W[n]
  <2>1. n \in Below(root) /\ n \in Nodes /\ ~ Lost(n)
    BY <1>1
  <2>2. Chain(n) = {n} \cup Chain(parent[n]) /\ parent[n] \in {root} \cup Below(root)
    <3>1. parent[n] \in Containers /\ (parent[n] = root \/ parent[n] \in Below(root))
      BY <1>1, <2>1, BelowFacts
    <3> QED BY <1>1, <2>1, <3>1, ChainUnfold
  <2>3. CASE PassesOn(t, n, f)
    <3>1. /\ parent[n] \in Below(root) /\ f \in inherit[n] /\ filter.Inheritance
          /\ t.up[n] = parent[n]
      <4>1. parent[n] \in Below(root) /\ f \in inherit[n] /\ filter.Inheritance
        BY <1>2, <2>1, <2>3
      <4>2. t.up[n] = HangsBelow(n, root)
        BY <2>1
      <4> QED BY <1>1, <4>1, <4>2 DEF HangsBelow, Subtree
    <3>2. ~ Lost(parent[n])
      <4> SUFFICES ASSUME f = "Password", PasswordLost(parent[n], filter) PROVE FALSE
        OBVIOUS
      <4>1. \A m \in Chain(parent[n]) \ Roots : "Password" \in inherit[m]
        BY <3>1 DEF PasswordLost
      <4>2. PasswordLost(n, filter)
        BY <2>2, <3>1, <4>1 DEF PasswordLost
      <4> QED BY <2>1, <4>2
    <3>3. parent[n] \in D
      BY <3>1, <3>2
    <3>4. KeptValue(n, f, filter, version) = KeptValue(parent[n], f, filter, version)
      BY <1>3, <2>1, <3>1 DEF KeptValue
    <3> HIDE DEF Lost
    <3> QED BY <2>3, <3>1, <3>3, <3>4
  <2>4. CASE ~ PassesOn(t, n, f)
    <3>1. t.raw[n][f] = ReadValue(n, f, filter, version)
      <4>1. t.raw[n] = ReadValues(n, filter, version)
        BY <2>1
      <4> QED BY <4>1 DEF ReadValues
    <3>2. ReadValue(n, f, filter, version) = KeptValue(n, f, filter, version)
      <4>1. CASE f # "Password"
        BY <4>1 DEF ReadValue
      <4>2. CASE f = "Password"
        <5>1. f \in Decoded(version)
          BY <1>1, <4>2 DEF Decoded
        <5>2. "Password" \notin inherit[n]
          <6>1. CASE ~ filter.Inheritance
            BY <2>1, <4>2, <6>1 DEF PasswordLost
          <6>2. CASE filter.Inheritance /\ parent[n] \in Below(root)
            BY <1>2, <2>1, <2>4, <4>2, <5>1, <6>2
          <6>3. CASE filter.Inheritance /\ parent[n] = root
            <7>1. Chain(root) = {root}
              BY <1>1, ChainUnfold
            <7> QED BY <2>1, <2>2, <4>2, <6>3, <7>1 DEF PasswordLost
          <6> QED BY <2>2, <6>1, <6>2, <6>3
        <5>3. KeptValue(n, f, filter, version) = IF filter.Password THEN Effective[n][f] ELSE Zero
          BY <4>2, <5>1 DEF KeptValue, LeftOut, Secrets, Enums
        <5> QED BY <4>2, <5>2, <5>3 DEF ReadValue
      <4> QED BY <4>1, <4>2
    <3> HIDE DEF Lost
    <3> QED BY <2>4, <3>1, <3>2
  <2> QED BY <2>3, <2>4
<1>5. D \in SUBSET Nodes
  BY <1>1
<1>6. \A n \in D : EffectiveOf(t)[n][f] = W[n]
  <2> HIDE DEF D, W
  <2> QED BY <1>4, <1>5, ValueReaches
<1> QED BY <1>6

(* What is read of a saved document in a version.                          *)
XmlLoads(d, root, options, version, password) ==
  IF password # options.password THEN XmlDeserialize(d, password) = Refused("ErrAuthentication")
  ELSE IsWhatVersionKeeps(XmlDeserialize(d, password), root, options.filter, parseVersion(version))

(* It is what the version keeps, or nothing.                               *)
LEMMA XmlSaveReadBack ==
  ASSUME InheritanceInv, NEW root \in Roots, NEW options \in XmlOptions,
         NEW version \in {"2.6", "2.7", "2.8"}, NEW password
  PROVE  XmlLoads([XmlSerialize(root, options) EXCEPT !.confVersion = version],
                  root, options, version, password)
<1>1. PICK d, s, inner, name :
        /\ d = [XmlSerialize(root, options) EXCEPT !.confVersion = version]
        /\ s = encodeNode[root] /\ inner = ElementsIn(root, options) /\ name = Trimmed[raw[root]["Name"]]
  OBVIOUS
<1>2. IsDocument(d, root, options, version, inner)
  BY <1>1, DocumentWritten
<1>3. CASE password # options.password
  <2>1. XmlDeserialize(d, password) = Refused("ErrAuthentication")
    BY <1>2, <1>3, OtherPasswordRefused
  <2> QED BY <1>1, <1>3, <2>1, Zenon DEF XmlLoads
<1>4. CASE password = options.password
  <2>1. options.fullFile \in BOOLEAN /\ options.filter.Inheritance \in BOOLEAN
    <3>1. options.fullFile \in BOOLEAN /\ options.filter \in {SaveAll} \cup SaveFilters
      BY DEF XmlOptions
    <3>2. SaveAll.Inheritance \in BOOLEAN
      BY DEF SaveAll
    <3>3. \A filter \in SaveFilters : filter.Inheritance \in BOOLEAN
      BY DEF SaveFilters
    <3> QED BY <3>1, <3>2, <3>3
  <2>2. TreeInv /\ root \in Containers /\ root \in Nodes
    BY TreeFacts DEF InheritanceInv
  <2>3. ListsSubtree(s, root, TRUE)
    BY <1>1, <2>2, PreorderUnfold, WalkLists
  <2>4. /\ inner \in Seq({inner[i] : i \in 1..Len(s)}) /\ Len(inner) = Len(s)
        /\ \A i \in 1..Len(s) : IsElement(inner[i], s[i], options)
    <3>1. s \in Seq(Nodes)
      BY <2>3 DEF ListsSubtree
    <3>2. inner = [i \in 1..Len(s) |-> [around |-> Around(s[i]), attrs |-> nodeAttributes(s[i], options)]]
      BY <1>1, <3>1 DEF ElementsIn
    <3>3. inner = [i \in 1..Len(s) |-> inner[i]] /\ Len(s) \in Nat
      BY <3>1, <3>2
    <3>4. \A i \in 1..Len(s) : inner[i].around = Around(s[i]) /\ inner[i].attrs = nodeAttributes(s[i], options)
      BY <3>2
    <3> QED BY <3>3, <3>4 DEF IsElement
  <2>5. ElementsOf(inner, s, options)
    BY <2>4 DEF ElementsOf
  <2> DEFINE start == XmlStart(name)
             number == parseVersion(version)
  <2>6. Bare(start) /\ start.raw[NewRoot]["Name"] = name
    <3>1. name \in Values
      BY <1>1, <2>2, FieldsAssumption, TextsAssumption DEF InheritanceInv, NodeTypeOK
    <3> QED BY <3>1, XmlStartBare
  <2>7. PICK acc : /\ Turns(acc, XmlWay(number, options.password), start, inner)
                   /\ XmlLoaded(inner, start, number, options.password) = acc[Len(inner)]
    <3> HIDE DEF start, number
    <3> QED BY <2>4, XmlTurns
  <2>8. PICK t : t = XmlDeserialize(d, password)
    OBVIOUS
  <2>9. t = acc[Len(inner)]
    <3>1. XmlDeserialize(d, options.password)
            = XmlLoaded(inner, XmlStart(Trimmed[raw[root]["Name"]]), parseVersion(version), options.password)
      BY <1>2, <2>1, <2>4, SamePasswordLoads
    <3> QED BY <1>1, <1>4, <2>7, <2>8, <3>1
  <2> HIDE DEF start, number
  <2>10. PICK p, v, g : XmlRebuilt(t, start, s, options.filter, number, root, p, v, g)
    BY <2>3, <2>5, <2>6, <2>7, <2>9, ElementsRebuilt
  <2>11. Rebuilt(t, s, p, v, g, start, root) /\ ReadOf(v, g, s, options.filter, number)
    BY <2>10 DEF XmlRebuilt
  <2>12. t \in Trees(start.rootID) /\ Forest!IsForest(t.up) /\ t.error = "nil"
    BY <2>11 DEF Rebuilt, Grown, Trees
  <2>13. SameShape(t, root)
    BY <2>2, <2>11, RebuiltShape
  <2>14. Below(root) = Subtree(root) \ Roots
    BY <2>2, TreeFacts DEF Subtree
  <2>15. ASSUME NEW n \in Below(root)
         PROVE  /\ t.up[n] = HangsBelow(n, root)
                /\ t.raw[n] = ReadValues(n, options.filter, number)
                /\ t.flags[n] = ReadFlags(n, options.filter, number)
    <3>1. PICK i \in 1..Len(s) : s[i] = n /\ t.up[n] = HangsBelow(n, root) /\ t.raw[n] = v[i] /\ t.flags[n] = g[i]
      BY <2>2, <2>11, <2>14, RebuiltParents
    <3> QED BY <2>11, <3>1 DEF ReadOf
  <2>16. t.raw[NewRoot]["Name"] = Trimmed[raw[root]["Name"]]
    <3>1. NewRoot \in Nodes \ (Subtree(root) \ Roots)
      BY DocumentsAssumption, TreeAssumption DEF Nodes
    <3>2. t.raw[NewRoot] = start.raw[NewRoot]
      BY <2>2, <2>11, <3>1, RebuiltParents
    <3> QED BY <1>1, <2>6, <3>2
  <2>17. \A n \in Below(root), f \in Fields :
           \/ f = "Password" /\ PasswordLost(n, options.filter)
           \/ EffectiveOf(t)[n][f] = KeptValue(n, f, options.filter, number)
    BY <2>1, <2>12, <2>15, KeptReaches
  <2>18. \A n \in Below(root) :
           t.flags[n] = IF options.filter.Inheritance THEN inherit[n] \cap Decoded(number) ELSE {}
    BY <2>15, DecodedFields DEF ReadFlags, inheritanceAttributes
  <2>19. IsWhatVersionKeeps(t, root, options.filter, number)
    BY <2>12, <2>13, <2>16, <2>17, <2>18 DEF IsWhatVersionKeeps
  <2> QED BY <1>1, <1>4, <2>8, <2>19 DEF XmlLoads, number
<1> QED BY <1>3, <1>4

(***************************************************************************)
(* The specification: a file goes with the tree it was saved from.         *)
(***************************************************************************)
EffectiveFrom(up, values, flags) ==
  CHOOSE g : g = [n \in Nodes |-> IF ~ (n \notin Roots /\ up[n] \notin Roots) \/ up[n] = NoNode
                                  THEN values[n] ELSE Apply(flags[n], values[n], g[up[n]])]

(* A tree that is left alone resolves to the same values.                  *)
LEMMA EffectiveStays == UNCHANGED inheritanceVars => Effective' = Effective
<1> SUFFICES ASSUME UNCHANGED inheritanceVars PROVE Effective' = Effective
  OBVIOUS
<1>1. parent' = parent /\ raw' = raw /\ inherit' = inherit
  BY DEF inheritanceVars, treeVars, nodeVars
<1>2. Effective = EffectiveFrom(parent, raw, inherit)
  BY Zenon DEF Effective, EffectiveFrom, InheritanceActive
<1>3. Effective' = EffectiveFrom(parent', raw', inherit')
  BY Zenon DEF Effective, EffectiveFrom, InheritanceActive
<1> QED BY <1>1, <1>2, <1>3

(* What was said of a document when it was saved is true as long as the    *)
(* tree is left alone.                                                     *)
LEMMA SavedStays ==
  ASSUME UNCHANGED inheritanceVars, NEW t, NEW top, NEW filter, IsWhatWasSaved(t, top, filter)
  PROVE  IsWhatWasSaved(t, top, filter)'
<1>1. parent' = parent /\ children' = children /\ raw' = raw /\ inherit' = inherit
  BY DEF inheritanceVars, treeVars, nodeVars
<1>2. Effective' = Effective
  BY EffectiveStays
<1>3. Subtree(top)' = Subtree(top)
  BY <1>1 DEF Subtree, Below
<1>4. Above(top)' = Above(top)
  BY <1>1, Zenon DEF Above
<1>5. SameShape(t, top)'
  BY <1>1, <1>3 DEF SameShape, IsWhatWasSaved
<1>6. SameFlags(t, top, filter, Inheritable \ FlagsWithoutColumn)'
  BY <1>1, <1>3 DEF SameFlags, IsWhatWasSaved
<1>7. \A n, f : SavedValue(n, f, filter)' = SavedValue(n, f, filter)
  BY <1>2 DEF SavedValue
<1>8. t.error = "nil" /\ t.rootID = Above(top)
  BY DEF IsWhatWasSaved
<1>9. \A n \in Subtree(top) \ Roots, f \in Fields : EffectiveOf(t)[n][f] = SavedValue(n, f, filter)
  BY DEF IsWhatWasSaved
<1> QED BY <1>3, <1>4, <1>5, <1>6, <1>7, <1>8, <1>9 DEF IsWhatWasSaved

(* The same of a version.                                                  *)
LEMMA VersionStays ==
  ASSUME UNCHANGED inheritanceVars, NEW t, NEW root, NEW filter, NEW version,
         IsWhatVersionKeeps(t, root, filter, version)
  PROVE  IsWhatVersionKeeps(t, root, filter, version)'
<1>1. parent' = parent /\ children' = children /\ raw' = raw /\ inherit' = inherit
  BY DEF inheritanceVars, treeVars, nodeVars
<1>2. Effective' = Effective
  BY EffectiveStays
<1>3. Below(root)' = Below(root)
  BY <1>1 DEF Below
<1>4. SameShape(t, root)'
  BY <1>1, <1>3 DEF SameShape, Subtree, IsWhatVersionKeeps
<1>5. \A n, f : KeptValue(n, f, filter, version)' = KeptValue(n, f, filter, version)
  BY <1>2 DEF KeptValue
<1>6. \A n : PasswordLost(n, filter)' <=> PasswordLost(n, filter)
  BY <1>1 DEF PasswordLost, Chain
<1>7. t.error = "nil" /\ t.raw[NewRoot]["Name"] = Trimmed[raw[root]["Name"]]
  BY DEF IsWhatVersionKeeps
<1>8. \A n \in Below(root) :
        /\ t.flags[n] = IF filter.Inheritance THEN inherit[n] \cap Decoded(version) ELSE {}
        /\ \A f \in Fields : \/ f = "Password" /\ PasswordLost(n, filter)
                             \/ EffectiveOf(t)[n][f] = KeptValue(n, f, filter, version)
  BY DEF IsWhatVersionKeeps
<1>9. \A n \in Below(root) :
        t.flags[n] = IF filter.Inheritance THEN inherit'[n] \cap Decoded(version) ELSE {}
  BY <1>1, <1>8
<1>10. \A n \in Below(root), f \in Fields :
         \/ f = "Password" /\ PasswordLost(n, filter)'
         \/ EffectiveOf(t)[n][f] = KeptValue(n, f, filter, version)'
  BY <1>5, <1>6, <1>8, Zenon
<1>11. t.raw[NewRoot]["Name"] = Trimmed[raw'[root]["Name"]]
  BY <1>1, <1>7
<1> QED BY <1>3, <1>4, <1>7, <1>9, <1>10, <1>11, Zenon DEF IsWhatVersionKeeps

(* ... and of a password.                                                  *)
LEMMA LoadsStays ==
  ASSUME UNCHANGED inheritanceVars, NEW d, NEW root, NEW options, NEW version, NEW password,
         XmlLoads(d, root, options, version, password)
  PROVE  XmlLoads(d, root, options, version, password)'
<1>1. PICK t, filter, number : /\ t = XmlDeserialize(d, password) /\ filter = options.filter
                               /\ number = parseVersion(version)
  OBVIOUS
<1>2. CASE password # options.password
  BY <1>2 DEF XmlLoads
<1>3. CASE password = options.password
  <2>1. IsWhatVersionKeeps(t, root, filter, number)
    BY <1>1, <1>3 DEF XmlLoads
  <2>2. IsWhatVersionKeeps(t, root, filter, number)'
    BY <2>1, VersionStays
  <2> QED BY <1>1, <1>3, <2>2 DEF XmlLoads
<1> QED BY <1>2, <1>3

AllLoad(document, root, options) ==
  \A version \in {"2.6", "2.7", "2.8"}, password \in Passwords :
    XmlLoads([document EXCEPT !.confVersion = version], root, options, version, password)

(* ... for every version and password.                                     *)
LEMMA AllStays ==
  ASSUME UNCHANGED inheritanceVars, NEW document, NEW root, NEW options, AllLoad(document, root, options)
  PROVE  AllLoad(document, root, options)'
<1>1. ASSUME NEW version \in {"2.6", "2.7", "2.8"}, NEW password \in Passwords
      PROVE  XmlLoads([document EXCEPT !.confVersion = version], root, options, version, password)'
  <2>1. PICK d : d = [document EXCEPT !.confVersion = version]
    OBVIOUS
  <2>2. XmlLoads(d, root, options, version, password)
    BY <2>1 DEF AllLoad
  <2>3. XmlLoads(d, root, options, version, password)'
    BY <2>2, LoadsStays
  <2> QED BY <2>1, <2>3
<1> QED BY <1>1 DEF AllLoad

(* The forms a file has.                                                   *)
FileForms ==
  \/ file = NoFile
  \/ file.format \in {"csv", "xml"}
  \/ file.format = "foreign" /\ IsForeign(file.document)

DocumentsInv == InheritanceInv /\ FileForms /\ CsvReadsBack /\ XmlReadsBack

(* Before anything is saved there is nothing to read back.                 *)
LEMMA DocumentsStart == DocumentsInit => DocumentsInv
<1> SUFFICES ASSUME DocumentsInit PROVE DocumentsInv
  OBVIOUS
<1>1. InheritanceInv
  BY TreeInit, NodeTypeInit DEF DocumentsInit, InheritanceInit, InheritanceInv
<1>2. file = NoFile /\ file.format = "none"
  BY DEF DocumentsInit, NoFile
<1> QED BY <1>1, <1>2 DEF DocumentsInv, FileForms, CsvReadsBack, XmlReadsBack

(* Edits end when there is a file, and a row that is received has the form *)
(* of the others.                                                          *)
LEMMA DocumentsStep == DocumentsInv /\ [DocumentsNext]_documentVars => DocumentsInv'
<1> SUFFICES ASSUME DocumentsInv, [DocumentsNext]_documentVars PROVE DocumentsInv'
  OBVIOUS
<1>1. InheritanceInv'
  <2>1. [InheritanceNext]_inheritanceVars
    BY DEF DocumentsNext, documentVars, Edit, CsvSave, SaveCsv, XmlSave, SaveXml, CsvReceive, ReceiveRow
  <2> QED BY <2>1, InheritanceUsesTree, TreeStep, NodeTypeStep DEF DocumentsInv, InheritanceInv
<1>2. CASE Edit
  <2>1. file' = NoFile /\ file'.format = "none"
    BY <1>2 DEF Edit, NoFile
  <2> QED BY <1>1, <2>1 DEF DocumentsInv, FileForms, CsvReadsBack, XmlReadsBack
<1>3. CASE CsvSave
  <2>1. PICK top \in Containers, filter \in SaveFilters : SaveCsv(top, filter)
    BY <1>3 DEF CsvSave
  <2>2. PICK d : d = CsvSerialize(top, filter)
    OBVIOUS
  <2>3. /\ file' = [format |-> "csv", top |-> top, filter |-> filter, document |-> d]
        /\ UNCHANGED inheritanceVars
    BY <2>1, <2>2 DEF SaveCsv
  <2>4. PICK t : t = CsvDeserialize(d)
    OBVIOUS
  <2>5. IsWhatWasSaved(t, top, filter)
    BY <2>2, <2>4, CsvSaveReadBack DEF DocumentsInv
  <2>6. IsWhatWasSaved(t, top, filter)'
    BY <2>3, <2>5, SavedStays
  <2>7. /\ file'.format = "csv" /\ file'.document = d
        /\ file'.top = top /\ file'.filter = filter
    BY <2>3
  <2>8. CsvReadsBack'
    BY <2>4, <2>6, <2>7 DEF CsvReadsBack
  <2> QED BY <1>1, <2>7, <2>8 DEF DocumentsInv, FileForms, XmlReadsBack
<1>4. CASE XmlSave
  <2>1. PICK root \in Roots, options \in XmlOptions : SaveXml(root, options)
    BY <1>4 DEF XmlSave
  <2>2. PICK d : d = XmlSerialize(root, options)
    OBVIOUS
  <2>3. /\ file' = [format |-> "xml", top |-> root, options |-> options, document |-> d]
        /\ UNCHANGED inheritanceVars
    BY <2>1, <2>2 DEF SaveXml
  <2>4. AllLoad(d, root, options)
    BY <2>2, XmlSaveReadBack DEF DocumentsInv, AllLoad
  <2>5. AllLoad(d, root, options)'
    BY <2>3, <2>4, AllStays
  <2>6. /\ file'.format = "xml" /\ file'.document = d
        /\ file'.top = root /\ file'.options = options
    BY <2>3
  <2>7. XmlReadsBack'
    BY <2>5, <2>6, Zenon DEF XmlReadsBack, AllLoad, XmlLoads
  <2> QED BY <1>1, <2>6, <2>7 DEF DocumentsInv, FileForms, CsvReadsBack
<1>5. CASE CsvReceive
  <2>1. PICK n \in Nodes \ Roots, p \in NamedParents : ReceiveRow(n, p)
    BY <1>5, Zenon DEF CsvReceive, NamedParents
  <2>2. PICK rows : rows = IF file = NoFile THEN <<>> ELSE file.document.rows
    OBVIOUS
  <2>3. rows \in Seq(ForeignRows)
    <3>1. file = NoFile \/ IsForeign(file.document)
      BY <2>1 DEF ReceiveRow, DocumentsInv, FileForms
    <3>2. <<>> \in Seq(ForeignRows)
      OBVIOUS
    <3> QED BY <2>2, <3>1, <3>2 DEF IsForeign
  <2>4. PICK row : row = ForeignRow(n, p)
    OBVIOUS
  <2>5. row \in ForeignRows
    BY <2>4 DEF ForeignRows
  <2>6. file' = [format |-> "foreign",
                 document |-> [headings |-> ForeignHeadings, rows |-> Append(rows, row)]]
    BY <2>1, <2>2, <2>4, Zenon DEF ReceiveRow
  <2>7. Append(rows, row) \in Seq(ForeignRows)
    BY <2>3, <2>5
  <2>8. file'.format = "foreign" /\ IsForeign(file.document)'
    BY <2>6, <2>7 DEF IsForeign
  <2> QED BY <1>1, <2>8 DEF DocumentsInv, FileForms, CsvReadsBack, XmlReadsBack
<1>6. CASE UNCHANGED documentVars
  <2>1. UNCHANGED inheritanceVars /\ file' = file
    BY <1>6 DEF documentVars
  <2>2. FileForms'
    BY <2>1 DEF FileForms, DocumentsInv, IsForeign
  <2>3. CsvReadsBack'
    <3> SUFFICES ASSUME file.format = "csv", Intact(file.document) PROVE CsvReadsBack'
      BY <2>1 DEF CsvReadsBack, Intact
    <3>1. PICK t, top, filter : t = CsvDeserialize(file.document) /\ top = file.top /\ filter = file.filter
      OBVIOUS
    <3>2. IsWhatWasSaved(t, top, filter)
      BY <3>1 DEF DocumentsInv, CsvReadsBack
    <3>3. IsWhatWasSaved(t, top, filter)'
      BY <2>1, <3>2, SavedStays
    <3> QED BY <2>1, <3>1, <3>3 DEF CsvReadsBack
  <2>4. XmlReadsBack'
    <3> SUFFICES ASSUME file.format = "xml" PROVE XmlReadsBack'
      BY <2>1 DEF XmlReadsBack
    <3>1. PICK d, root, options : d = file.document /\ root = file.top /\ options = file.options
      OBVIOUS
    <3>2. XmlReadsBack
      BY DEF DocumentsInv
    <3>3. AllLoad(d, root, options)
      BY <3>1, <3>2, Zenon DEF XmlReadsBack, AllLoad, XmlLoads
    <3>4. AllLoad(d, root, options)'
      BY <2>1, <3>3, AllStays
    <3>5. file'.document = d /\ file'.top = root /\ file'.options = options
      BY <2>1, <3>1
    <3> QED BY <3>4, <3>5, Zenon DEF XmlReadsBack, AllLoad, XmlLoads
  <2> QED BY <1>1, <2>2, <2>3, <2>4 DEF DocumentsInv
<1> QED BY <1>2, <1>3, <1>4, <1>5, <1>6 DEF DocumentsNext

(* So in every reachable state.                                            *)
LEMMA DocumentsInvariant == DocumentsSpec => []DocumentsInv
BY DocumentsStart, DocumentsStep, PTL DEF DocumentsSpec

(* A CSV file without a line break inside a cell is read back as the tree  *)
(* it was saved from: every node in its place and order, with every flag   *)
(* and value that has a column, a value less its separators and only if it *)
(* is one of its field; the others are those of a new connection (csv.go,  *)
(* Serialize and Deserialize).                                             *)
THEOREM CsvAlwaysReadsBack == DocumentsSpec => []CsvReadsBack
<1>1. DocumentsInv => CsvReadsBack
  BY DEF DocumentsInv
<1> QED BY <1>1, DocumentsInvariant, PTL

(* Of a document from elsewhere every record is loaded, under a root, and  *)
(* where it asks for unless that closes a cycle (csv.go, the attaching     *)
(* loop of Deserialize).                                                   *)
THEOREM CsvAlwaysLoadsEveryRecord == DocumentsSpec => []CsvLoadsEveryRecord
<1>1. DocumentsInv => CsvLoadsEveryRecord
  <2> SUFFICES ASSUME DocumentsInv, file.format = "foreign"
               PROVE  HoldsEveryRecord(CsvDeserialize(file.document), file.document.rows)
    BY DEF CsvLoadsEveryRecord
  <2>1. IsForeign(file.document)
    BY DEF DocumentsInv, FileForms, NoFile
  <2> QED BY <2>1, ForeignLoads
<1> QED BY <1>1, DocumentsInvariant, PTL

(* An XML file in any version is read back, with the password it was saved *)
(* under, as the tree it was saved from, its root's name without the space *)
(* around it, less the fields and flags the version lacks, what was        *)
(* filtered and the passwords PasswordLost describes, with the fallbacks   *)
(* of KeptValue for texts that name no member and for the drives of the    *)
(* older versions; with another password nothing of it is loaded           *)
(* (xml/serialize.go, xml/deserialize.go).                                 *)
THEOREM XmlAlwaysReadsBack == DocumentsSpec => []XmlReadsBack
<1>1. DocumentsInv => XmlReadsBack
  BY DEF DocumentsInv
<1> QED BY <1>1, DocumentsInvariant, PTL
=============================================================================
