------------------------ MODULE ConnectionTreeProofs ------------------------
(***************************************************************************)
(* Theorems about ConnectionTree, for any sets of containers, roots and    *)
(* leaves: the operations keep the links of the tree in agreement, never   *)
(* close a cycle, and implement the abstract forest.                       *)
(***************************************************************************)
EXTENDS ConnectionTree, SequenceTheorems, FunctionTheorems, FiniteSetTheorems,
        WellFoundedInduction, TLAPS

(***************************************************************************)
(* Sequences: what RemoveAt and InsertAt return.                           *)
(***************************************************************************)
LEMMA RemoveAtElements ==
  ASSUME NEW S, NEW s \in Seq(S), NEW i \in 1..Len(s)
  PROVE  /\ RemoveAt(s, i) \in Seq(S)
         /\ Len(RemoveAt(s, i)) = Len(s) - 1
         /\ \A j \in 1..Len(s) - 1 : RemoveAt(s, i)[j] = IF j < i THEN s[j] ELSE s[j+1]
<1> DEFINE a == SubSeq(s, 1, i-1)
           b == SubSeq(s, i+1, Len(s))
<1>1. /\ Len(s) \in Nat
      /\ \A j \in 1..Len(s) : s[j] \in S
  BY ElementOfSeq, LenProperties
<1>2. a \in Seq(S) /\ Len(a) = i - 1 /\ \A j \in 1..i-1 : a[j] = s[j]
  BY <1>1, SubSeqProperties
<1>3. b \in Seq(S) /\ Len(b) = Len(s) - i /\ \A j \in 1..Len(s)-i : b[j] = s[i+j]
  BY <1>1, SubSeqProperties
<1>4. RemoveAt(s, i) = a \o b
  BY DEF RemoveAt
<1> HIDE DEF a, b
<1>5. /\ a \o b \in Seq(S) /\ Len(a \o b) = Len(a) + Len(b)
      /\ \A j \in 1..Len(a)+Len(b) : (a \o b)[j] = IF j <= Len(a) THEN a[j] ELSE b[j-Len(a)]
  BY <1>2, <1>3, ConcatProperties
<1> QED BY <1>1, <1>2, <1>3, <1>4, <1>5

(* The elements after an insertion.                                        *)
LEMMA InsertAtElements ==
  ASSUME NEW S, NEW s \in Seq(S), NEW e \in S, NEW i \in 1..Len(s) + 1
  PROVE  /\ InsertAt(s, i, e) \in Seq(S)
         /\ Len(InsertAt(s, i, e)) = Len(s) + 1
         /\ \A j \in 1..Len(s) + 1 :
              InsertAt(s, i, e)[j] = IF j < i THEN s[j] ELSE IF j = i THEN e ELSE s[j-1]
<1> DEFINE a == SubSeq(s, 1, i-1)
           b == SubSeq(s, i, Len(s))
           m == <<e>>
<1>1. /\ Len(s) \in Nat
      /\ \A j \in 1..Len(s) : s[j] \in S
  BY ElementOfSeq, LenProperties
<1>2. a \in Seq(S) /\ Len(a) = i - 1 /\ \A j \in 1..i-1 : a[j] = s[j]
  BY <1>1, SubSeqProperties
<1>3. b \in Seq(S) /\ Len(b) = Len(s) - i + 1 /\ \A j \in 1..Len(s)-i+1 : b[j] = s[i+j-1]
  BY <1>1, SubSeqProperties
<1>4. m \in Seq(S) /\ Len(m) = 1 /\ m[1] = e
  OBVIOUS
<1>5. InsertAt(s, i, e) = a \o m \o b
  BY DEF InsertAt
<1> HIDE DEF a, b, m
<1>6. /\ a \o m \in Seq(S) /\ Len(a \o m) = Len(a) + Len(m)
      /\ \A j \in 1..Len(a)+Len(m) : (a \o m)[j] = IF j <= Len(a) THEN a[j] ELSE m[j-Len(a)]
  BY <1>2, <1>4, ConcatProperties
<1> DEFINE am == a \o m
<1> HIDE DEF am
<1>7. am \in Seq(S) /\ Len(am) = i
      /\ \A j \in 1..i : am[j] = IF j < i THEN s[j] ELSE e
  BY <1>1, <1>2, <1>4, <1>6 DEF am
<1>8. /\ am \o b \in Seq(S) /\ Len(am \o b) = Len(am) + Len(b)
      /\ \A j \in 1..Len(am)+Len(b) : (am \o b)[j] = IF j <= Len(am) THEN am[j] ELSE b[j-Len(am)]
  BY <1>3, <1>7, ConcatProperties
<1>9. InsertAt(s, i, e) = am \o b
  BY <1>5 DEF am
<1> QED BY <1>1, <1>3, <1>7, <1>8, <1>9

(* Taking out position i of a list without duplicates takes out its        *)
(* element and nothing else.                                               *)
LEMMA RemoveAtInjective ==
  ASSUME NEW S, NEW s \in Seq(S), NEW i \in 1..Len(s), IsInjective(s)
  PROVE  IsInjective(RemoveAt(s, i)) /\ ToSet(RemoveAt(s, i)) = ToSet(s) \ {s[i]}
<1> DEFINE t == RemoveAt(s, i)
<1>1. /\ t \in Seq(S) /\ Len(t) = Len(s) - 1
      /\ \A j \in 1..Len(s) - 1 : t[j] = IF j < i THEN s[j] ELSE s[j+1]
  BY RemoveAtElements
<1>2. DOMAIN t = 1..Len(s) - 1 /\ DOMAIN s = 1..Len(s)
  BY <1>1
<1> HIDE DEF t
<1> DEFINE old(j) == IF j < i THEN j ELSE j + 1
<1>3. IsInjective(t)
  <2> SUFFICES ASSUME NEW j \in DOMAIN t, NEW k \in DOMAIN t, t[j] = t[k]
               PROVE  j = k
    BY DEF IsInjective
  <2>1. /\ old(j) \in DOMAIN s /\ t[j] = s[old(j)]
        /\ old(k) \in DOMAIN s /\ t[k] = s[old(k)]
    BY <1>1, <1>2
  <2>2. old(j) = old(k)
    BY <2>1 DEF IsInjective
  <2> QED BY <1>2, <2>2
<1>4. ASSUME NEW j \in DOMAIN t PROVE t[j] \in ToSet(s) \ {s[i]}
  <2>1. old(j) \in DOMAIN s /\ t[j] = s[old(j)] /\ old(j) # i /\ i \in DOMAIN s
    BY <1>1, <1>2
  <2>2. s[old(j)] # s[i]
    BY <2>1 DEF IsInjective
  <2> QED BY <2>1, <2>2 DEF ToSet
<1>5. ASSUME NEW k \in DOMAIN s, k # i PROVE s[k] \in ToSet(t)
  <2>1. CASE k < i
    <3>1. k \in DOMAIN t /\ t[k] = s[k]
      BY <1>1, <1>2, <2>1
    <3> QED BY <3>1 DEF ToSet
  <2>2. CASE k > i
    <3>1. k - 1 \in DOMAIN t /\ t[k-1] = s[k]
      BY <1>1, <1>2, <2>2
    <3> QED BY <3>1 DEF ToSet
  <2> QED BY <1>2, <1>5, <2>1, <2>2
<1>6. ToSet(t) = ToSet(s) \ {s[i]}
  BY <1>4, <1>5 DEF ToSet
<1> QED BY <1>3, <1>6 DEF t

(* Putting a new element into a list without duplicates adds just it.      *)
LEMMA InsertAtInjective ==
  ASSUME NEW S, NEW s \in Seq(S), NEW e \in S, NEW i \in 1..Len(s) + 1,
         IsInjective(s), e \notin ToSet(s)
  PROVE  IsInjective(InsertAt(s, i, e)) /\ ToSet(InsertAt(s, i, e)) = ToSet(s) \cup {e}
<1> DEFINE t == InsertAt(s, i, e)
<1>1. /\ t \in Seq(S) /\ Len(t) = Len(s) + 1
      /\ \A j \in 1..Len(s) + 1 :
           t[j] = IF j < i THEN s[j] ELSE IF j = i THEN e ELSE s[j-1]
  BY InsertAtElements
<1>2. DOMAIN t = 1..Len(s) + 1 /\ DOMAIN s = 1..Len(s)
  BY <1>1
<1> HIDE DEF t
<1>3. \A k \in DOMAIN s : s[k] # e
  BY DEF ToSet
<1> DEFINE old(j) == IF j < i THEN j ELSE j - 1
<1>4. IsInjective(t)
  <2> SUFFICES ASSUME NEW j \in DOMAIN t, NEW k \in DOMAIN t, t[j] = t[k]
               PROVE  j = k
    BY DEF IsInjective
  <2>1. ASSUME NEW x \in DOMAIN t, x # i
        PROVE  old(x) \in DOMAIN s /\ t[x] = s[old(x)] /\ t[x] # e
    <3>1. CASE x < i
      BY <1>1, <1>2, <1>3, <3>1
    <3>2. CASE x > i
      BY <1>1, <1>2, <1>3, <3>2
    <3> QED BY <1>2, <2>1, <3>1, <3>2
  <2>2. t[i] = e
    BY <1>1, <1>2
  <2>3. CASE j # i /\ k # i
    <3>1. old(j) = old(k)
      BY <2>1, <2>3 DEF IsInjective
    <3> QED BY <1>2, <2>3, <3>1
  <2>4. CASE j = i \/ k = i
    BY <2>1, <2>2, <2>4
  <2> QED BY <2>3, <2>4
<1>5. ASSUME NEW j \in DOMAIN t PROVE t[j] \in ToSet(s) \cup {e}
  <2>1. CASE j = i
    BY <1>1, <1>2, <2>1
  <2>2. CASE j # i
    <3>1. old(j) \in DOMAIN s /\ t[j] = s[old(j)]
      BY <1>1, <1>2, <2>2
    <3> QED BY <3>1 DEF ToSet
  <2> QED BY <2>1, <2>2
<1>6. ASSUME NEW k \in DOMAIN s PROVE s[k] \in ToSet(t)
  <2>1. CASE k < i
    <3>1. k \in DOMAIN t /\ t[k] = s[k]
      BY <1>1, <1>2, <2>1
    <3> QED BY <3>1 DEF ToSet
  <2>2. CASE k >= i
    <3>1. k + 1 \in DOMAIN t /\ t[k+1] = s[k]
      BY <1>1, <1>2, <2>2
    <3> QED BY <3>1 DEF ToSet
  <2> QED BY <1>2, <2>1, <2>2
<1>7. e \in ToSet(t)
  <2>1. i \in DOMAIN t /\ t[i] = e
    BY <1>1, <1>2
  <2> QED BY <2>1 DEF ToSet
<1>8. ToSet(t) = ToSet(s) \cup {e}
  BY <1>5, <1>6, <1>7 DEF ToSet
<1> QED BY <1>4, <1>8 DEF t

(***************************************************************************)
(* Forests: what a change of one parent keeps.                             *)
(***************************************************************************)
LEMMA NodesFacts ==
  /\ NoNode \notin Nodes
  /\ Containers \subseteq Nodes
  /\ Roots \subseteq Nodes
  /\ Forest!Nodes = Nodes
BY TreeAssumption DEF Nodes, Forest!Nodes

(* If n is not an ancestor of c, some upward closed set of containers      *)
(* holds c and not n.                                                      *)
LEMMA SeparatingSet ==
  ASSUME NEW up \in [Nodes -> Containers \cup {NoNode}],
         NEW n \in Nodes, NEW c \in Containers,
         n \notin Forest!AncestorsOrSelf(c, up)
  PROVE  \E T \in SUBSET Containers :
           c \in T /\ n \notin T /\ \A m \in T : up[m] \in T \cup {NoNode}
<1>1. CASE n \in Containers
  BY <1>1 DEF Forest!AncestorsOrSelf, Forest!ClosedUpwards
<1>2. CASE n \notin Containers
  <2>1. \A m \in Containers : up[m] \in Containers \cup {NoNode}
    BY NodesFacts
  <2> QED BY <1>2, <2>1
<1> QED BY <1>1, <1>2

(* Putting a node under a container that is not below it closes no cycle.  *)
LEMMA ReparentKeepsForest ==
  ASSUME NEW up \in [Nodes -> Containers \cup {NoNode}], Forest!IsForest(up),
         NEW n \in Nodes, NEW c \in Containers,
         n \notin Forest!AncestorsOrSelf(c, up)
  PROVE  Forest!IsForest([up EXCEPT ![n] = c])
<1> DEFINE new == [up EXCEPT ![n] = c]
<1>1. PICK T \in SUBSET Containers :
        c \in T /\ n \notin T /\ \A m \in T : up[m] \in T \cup {NoNode}
  BY SeparatingSet
<1> SUFFICES ASSUME NEW S \in SUBSET Nodes, S # {}
             PROVE  \E m \in S : new[m] \notin S
  BY NodesFacts DEF Forest!IsForest
<1>2. \A m \in Nodes : new[m] = IF m = n THEN c ELSE up[m]
  OBVIOUS
<1> HIDE DEF new
<1>3. CASE S \cap T # {}
  <2>1. PICK m \in S \cap T : up[m] \notin S \cap T
    BY <1>3, NodesFacts DEF Forest!IsForest
  <2> QED BY <1>1, <1>2, <2>1, NodesFacts
<1>4. CASE S \cap T = {}
  <2>1. PICK m \in S : up[m] \notin S
    BY NodesFacts DEF Forest!IsForest
  <2> QED BY <1>1, <1>2, <1>4, <2>1
<1> QED BY <1>3, <1>4

(* Neither does detaching a node.                                          *)
LEMMA DetachKeepsForest ==
  ASSUME NEW up \in [Nodes -> Containers \cup {NoNode}], Forest!IsForest(up), NEW n \in Nodes
  PROVE  Forest!IsForest([up EXCEPT ![n] = NoNode])
<1> DEFINE new == [up EXCEPT ![n] = NoNode]
<1> SUFFICES ASSUME NEW S \in SUBSET Nodes, S # {}
             PROVE  \E m \in S : new[m] \notin S
  BY NodesFacts DEF Forest!IsForest
<1>1. PICK m \in S : up[m] \notin S
  BY NodesFacts DEF Forest!IsForest
<1>2. new[m] \in {up[m], NoNode}
  OBVIOUS
<1> QED BY <1>1, <1>2, NodesFacts

(***************************************************************************)
(* The children lists.                                                     *)
(***************************************************************************)
LEMMA IndexOfIsPosition ==
  ASSUME TypeOK, NoDuplicates, NEW c \in Containers, NEW n
  PROVE  IF n \in ToSet(children[c])
         THEN IndexOf(c, n) \in 1..Len(children[c]) /\ children[c][IndexOf(c, n)] = n
         ELSE IndexOf(c, n) = 0
<1> DEFINE s == children[c]
           I == {i \in 1..Len(s) : s[i] = n}
<1>1. s \in Seq(Nodes) /\ IsInjective(s) /\ Len(s) \in Nat /\ DOMAIN s = 1..Len(s)
  BY LenProperties DEF TypeOK, NoDuplicates
<1>2. IndexOf(c, n) = IF I # {} THEN Min(I) ELSE 0
  BY DEF IndexOf, SelectInSeq
<1>3. CASE n \in ToSet(s)
  <2>1. PICK i \in 1..Len(s) : s[i] = n
    BY <1>1, <1>3 DEF ToSet
  <2>2. I = {i}
    BY <1>1, <2>1 DEF IsInjective
  <2>3. Min({i}) = i
    BY <1>1 DEF Min
  <2> QED BY <1>2, <1>3, <2>1, <2>2, <2>3
<1>4. CASE n \notin ToSet(s)
  <2>1. I = {}
    BY <1>1, <1>4 DEF ToSet
  <2> QED BY <1>2, <1>4, <2>1
<1> QED BY <1>3, <1>4

(* Taking n out of the container that lists it, in every container.        *)
LEMMA TakingOut ==
  ASSUME TypeOK, WellLinked, NEW n \in Nodes, NEW c \in Containers, parent[n] = c
  PROVE  /\ Without(c, n) \in [Containers -> Seq(Nodes)]
         /\ \A k \in Containers : /\ IsInjective(Without(c, n)[k])
                                  /\ ToSet(Without(c, n)[k]) = ToSet(children[k]) \ {n}
                                  /\ k # c => Without(c, n)[k] = children[k]
<1> DEFINE s == children[c]
           i == IndexOf(c, n)
<1>1. s \in Seq(Nodes) /\ IsInjective(s)
  BY DEF TypeOK, WellLinked, NoDuplicates
<1>2. i \in 1..Len(s) /\ s[i] = n
  BY IndexOfIsPosition DEF WellLinked, LinksAgree
<1>3. /\ RemoveAt(s, i) \in Seq(Nodes)
      /\ IsInjective(RemoveAt(s, i))
      /\ ToSet(RemoveAt(s, i)) = ToSet(s) \ {n}
  <2> HIDE DEF s, i
  <2> QED BY <1>1, <1>2, RemoveAtElements, RemoveAtInjective
<1>4. Without(c, n)[c] = RemoveAt(s, i) /\ \A k \in Containers \ {c} : Without(c, n)[k] = children[k]
  BY DEF TypeOK, Without
<1>5. \A k \in Containers \ {c} : n \notin ToSet(children[k]) /\ IsInjective(children[k])
  BY DEF WellLinked, LinksAgree, NoDuplicates
<1>6. Without(c, n) \in [Containers -> Seq(Nodes)]
  BY <1>3 DEF TypeOK, Without
<1> HIDE DEF s, i
<1>7. ASSUME NEW k \in Containers
      PROVE  /\ IsInjective(Without(c, n)[k])
             /\ ToSet(Without(c, n)[k]) = ToSet(children[k]) \ {n}
             /\ k # c => Without(c, n)[k] = children[k]
  <2>1. CASE k = c
    BY <1>3, <1>4, <2>1 DEF s
  <2>2. CASE k # c
    BY <1>4, <1>5, <2>2
  <2> QED BY <2>1, <2>2
<1> QED BY <1>6, <1>7

(* The links after Detached.                                               *)
LEMMA DetachedFacts ==
  ASSUME TypeOK, WellLinked, NEW n \in Nodes
  PROVE  /\ Detached(n) \in [Containers -> Seq(Nodes)]
         /\ \A k \in Containers : /\ IsInjective(Detached(n)[k])
                                  /\ ToSet(Detached(n)[k]) = ToSet(children[k]) \ {n}
                                  /\ k # parent[n] => Detached(n)[k] = children[k]
<1>1. CASE parent[n] = NoNode
  <2>1. \A k \in Containers : n \notin ToSet(children[k])
    BY <1>1, TreeAssumption DEF WellLinked, LinksAgree
  <2> QED BY <1>1, <2>1 DEF Detached, TypeOK, WellLinked, NoDuplicates
<1>2. CASE parent[n] # NoNode
  <2>1. PICK c \in Containers : parent[n] = c
    BY <1>2 DEF TypeOK
  <2>2. Detached(n) = Without(c, n)
    BY <1>2, <2>1 DEF Detached
  <2>3. /\ Without(c, n) \in [Containers -> Seq(Nodes)]
        /\ \A k \in Containers : /\ IsInjective(Without(c, n)[k])
                                 /\ ToSet(Without(c, n)[k]) = ToSet(children[k]) \ {n}
                                 /\ k # c => Without(c, n)[k] = children[k]
    BY <2>1, TakingOut
  <2> QED BY <2>1, <2>2, <2>3
<1> QED BY <1>1, <1>2

(***************************************************************************)
(* The steps.                                                              *)
(***************************************************************************)
(* What the early returns of InsertChild leave.                            *)
LEMMA InsertPreconditions ==
  ASSUME NEW c \in Containers, NEW h \in Handles \cup {NilHandle}, NEW index,
         InsertError(c, index, h) = "insert"
  PROVE  /\ index \in 0..Len(children[c])
         /\ h.node \in Nodes
         /\ h.node \notin Roots
         /\ parent[h.node] # c
         /\ h.node \notin Forest!AncestorsOrSelf(c, parent)
<1>1. /\ index \in 0..Len(children[c])
      /\ h # NilHandle
      /\ h.node \notin Roots
      /\ parent[h.node] # c
      /\ ~WouldCreateCycle(c, h.node)
  BY DEF InsertError, ValidatedNodeBase
<1> QED BY <1>1 DEF Handles, Nodes, WouldCreateCycle

(* An error of an insertion is an outcome of a call.                       *)
LEMMA InsertErrorIsOutcome ==
  ASSUME NEW c, NEW index, NEW h, InsertError(c, index, h) # "insert"
  PROVE  InsertError(c, index, h) \in Outcomes
BY DEF InsertError, ValidatedNodeBase, Outcomes, Errors

(* What InsertChild does once nothing stopped it: n leaves its container   *)
(* and enters c.                                                           *)
LEMMA MoveKeepsTree ==
  ASSUME TreeInv, NEW c \in Containers, NEW n \in Nodes, NEW index \in 0..Len(children[c]),
         n \notin Roots, parent[n] # c, n \notin Forest!AncestorsOrSelf(c, parent),
         parent' = [parent EXCEPT ![n] = c],
         children' = [Detached(n) EXCEPT ![c] = InsertAt(@, index + 1, n)],
         outcome' = "nil"
  PROVE  TreeInv' /\ Forest!Next
<1> DEFINE s == children[c]
           t == InsertAt(s, index + 1, n)
<1>1. /\ Detached(n) \in [Containers -> Seq(Nodes)]
      /\ \A k \in Containers : /\ IsInjective(Detached(n)[k])
                               /\ ToSet(Detached(n)[k]) = ToSet(children[k]) \ {n}
                               /\ k # parent[n] => Detached(n)[k] = children[k]
  BY DetachedFacts DEF TreeInv
<1>2. s \in Seq(Nodes) /\ IsInjective(s) /\ n \notin ToSet(s)
  BY DEF TreeInv, TypeOK, WellLinked, NoDuplicates, LinksAgree
<1>3. Detached(n)[c] = s
  BY <1>1
<1>4. t \in Seq(Nodes) /\ IsInjective(t) /\ ToSet(t) = ToSet(s) \cup {n}
  <2> HIDE DEF s
  <2>1. index + 1 \in 1..Len(s) + 1
    BY <1>2, LenProperties DEF s
  <2>2. t \in Seq(Nodes)
    BY <1>2, <2>1, InsertAtElements
  <2>3. IsInjective(t) /\ ToSet(t) = ToSet(s) \cup {n}
    BY <1>2, <2>1, InsertAtInjective
  <2> QED BY <2>2, <2>3
<1>5. children' = [Detached(n) EXCEPT ![c] = t]
  BY <1>1, <1>3
<1> HIDE DEF t
<1>6. /\ children' \in [Containers -> Seq(Nodes)]
      /\ children'[c] = t
      /\ \A k \in Containers \ {c} : children'[k] = Detached(n)[k]
  BY <1>1, <1>4, <1>5
<1>7. /\ parent' \in [Nodes -> Containers \cup {NoNode}]
      /\ \A m \in Nodes : parent'[m] = IF m = n THEN c ELSE parent[m]
  BY DEF TreeInv, TypeOK
<1>8. TypeOK'
  BY <1>6, <1>7 DEF TypeOK, Outcomes
<1>9. NoDuplicates'
  <2> SUFFICES ASSUME NEW k \in Containers PROVE IsInjective(children'[k])
    BY DEF NoDuplicates
  <2>1. CASE k = c
    BY <1>4, <1>6, <2>1
  <2>2. CASE k # c
    BY <1>1, <1>6, <2>2
  <2> QED BY <2>1, <2>2
<1>10. LinksAgree'
  <2> SUFFICES ASSUME NEW k \in Containers, NEW m \in Nodes
               PROVE  parent'[m] = k <=> m \in ToSet(children'[k])
    BY DEF LinksAgree
  <2>1. parent[m] = k <=> m \in ToSet(children[k])
    BY DEF TreeInv, WellLinked, LinksAgree
  <2>2. CASE k = c
    BY <1>4, <1>6, <1>7, <2>1, <2>2
  <2>3. CASE k # c
    BY <1>1, <1>6, <1>7, <2>1, <2>3
  <2> QED BY <2>2, <2>3
<1>11. RootsDetached'
  BY <1>7, NodesFacts DEF TreeInv, RootsDetached
<1>12. Acyclic'
  BY ReparentKeepsForest DEF TreeInv, TypeOK, Acyclic
<1>13. Forest!Next
  BY <1>12, NodesFacts DEF Forest!Next, Forest!Move, Acyclic
<1> QED BY <1>8, <1>9, <1>10, <1>11, <1>12, <1>13 DEF TreeInv, WellLinked

(* InsertChild, under every name the program calls it by, keeps the tree   *)
(* well formed, and is a Move of the forest or leaves the parents alone.   *)
LEMMA InsertStep ==
  ASSUME TreeInv, NEW c \in Containers, NEW h \in Handles \cup {NilHandle}, NEW index,
         InsertChild(c, index, h)
  PROVE  TreeInv' /\ [Forest!Next]_parent
<1>1. CASE InsertError(c, index, h) # "insert"
  <2>1. outcome' = InsertError(c, index, h) /\ parent' = parent /\ children' = children
    BY <1>1 DEF InsertChild
  <2>2. outcome' \in Outcomes
    BY <1>1, <2>1, InsertErrorIsOutcome
  <2> QED BY <2>1, <2>2
          DEF TreeInv, TypeOK, WellLinked, LinksAgree, NoDuplicates, RootsDetached, Acyclic
<1>2. CASE InsertError(c, index, h) = "insert"
  <2>1. /\ parent' = [parent EXCEPT ![h.node] = c]
        /\ children' = [Detached(h.node) EXCEPT ![c] = InsertAt(@, index + 1, h.node)]
        /\ outcome' = "nil"
    BY <1>2 DEF InsertChild
  <2> QED BY <1>2, <2>1, InsertPreconditions, MoveKeepsTree
<1> QED BY <1>1, <1>2

(* What RemoveChild does once it has found the child.                      *)
LEMMA DetachKeepsTree ==
  ASSUME TreeInv, NEW c \in Containers, NEW n \in Nodes, parent[n] = c,
         children' = Without(c, n),
         parent' = [parent EXCEPT ![n] = NoNode],
         outcome' = "true"
  PROVE  TreeInv' /\ Forest!Next
<1>1. /\ children' \in [Containers -> Seq(Nodes)]
      /\ \A k \in Containers : /\ IsInjective(children'[k])
                               /\ ToSet(children'[k]) = ToSet(children[k]) \ {n}
  BY TakingOut DEF TreeInv
<1>2. /\ parent' \in [Nodes -> Containers \cup {NoNode}]
      /\ \A m \in Nodes : parent'[m] = IF m = n THEN NoNode ELSE parent[m]
  BY DEF TreeInv, TypeOK
<1>3. TypeOK' /\ NoDuplicates'
  BY <1>1, <1>2 DEF TypeOK, Outcomes, NoDuplicates
<1>4. LinksAgree'
  BY <1>1, <1>2, TreeAssumption DEF TreeInv, WellLinked, LinksAgree
<1>5. RootsDetached'
  BY <1>2, NodesFacts DEF TreeInv, RootsDetached
<1>6. Acyclic'
  BY DetachKeepsForest DEF TreeInv, TypeOK, Acyclic
<1>7. Forest!Next
  BY NodesFacts DEF Forest!Next, Forest!Detach
<1> QED BY <1>3, <1>4, <1>5, <1>6, <1>7 DEF TreeInv, WellLinked

(* RemoveChild keeps the tree well formed, and is a Detach of the forest.  *)
LEMMA RemoveStep ==
  ASSUME TreeInv, NEW c \in Containers, NEW h \in Handles \cup {NilHandle}, RemoveChild(c, h)
  PROVE  TreeInv' /\ [Forest!Next]_parent
<1>1. CASE IndexOf(c, h.node) = 0
  BY <1>1 DEF RemoveChild, Outcomes, TreeInv, TypeOK, WellLinked, LinksAgree, NoDuplicates,
              RootsDetached, Acyclic
<1>2. CASE IndexOf(c, h.node) # 0
  <2>1. h.node \in ToSet(children[c])
    BY <1>2, IndexOfIsPosition DEF TreeInv, WellLinked
  <2>2. h.node \in Nodes
    BY <2>1, LenProperties DEF TreeInv, TypeOK, ToSet
  <2>3. parent[h.node] = c
    BY <2>1, <2>2 DEF TreeInv, WellLinked, LinksAgree
  <2>4. /\ children' = Without(c, h.node)
        /\ parent' = [parent EXCEPT ![h.node] = NoNode]
        /\ outcome' = "true"
    BY <1>2 DEF RemoveChild
  <2> QED BY <2>2, <2>3, <2>4, DetachKeepsTree
<1> QED BY <1>1, <1>2

(* SetChildPosition changes the order of one children list and no link.    *)
LEMMA RepositionStep ==
  ASSUME TreeInv, NEW c \in Containers, NEW h \in Handles \cup {NilHandle}, NEW index \in Int,
         SetChildPosition(c, h, index)
  PROVE  TreeInv' /\ UNCHANGED parent
<1> DEFINE n == h.node
           s == children[c]
           i == IndexOf(c, n)
           rest == RemoveAt(s, i)
           at == IF index > Len(rest) THEN Len(rest) ELSE index
<1>1. CASE index < 0 \/ i = 0 \/ i - 1 = index
  BY <1>1 DEF SetChildPosition, Outcomes, TreeInv, TypeOK, WellLinked, LinksAgree, NoDuplicates,
              RootsDetached, Acyclic
<1>2. CASE ~(index < 0 \/ i = 0 \/ i - 1 = index)
  <2>1. /\ parent' = parent
        /\ children' = [children EXCEPT ![c] = Repositioned(s, i, index)]
        /\ outcome' = "true"
    BY <1>2 DEF SetChildPosition
  <2>2. n \in ToSet(s) /\ i \in 1..Len(s) /\ s[i] = n
    BY <1>2, IndexOfIsPosition DEF TreeInv, WellLinked
  <2>3. s \in Seq(Nodes) /\ IsInjective(s) /\ n \in Nodes
    BY <2>2, LenProperties DEF TreeInv, TypeOK, WellLinked, NoDuplicates, ToSet
  <2> HIDE DEF n, s, i
  <2> DEFINE t == InsertAt(rest, at + 1, n)
  <2>0. Repositioned(s, i, index) = t
    BY <2>2 DEF Repositioned
  <2> HIDE DEF t
  <2>4. /\ rest \in Seq(Nodes) /\ IsInjective(rest) /\ ToSet(rest) = ToSet(s) \ {n}
    BY <2>2, <2>3, RemoveAtElements, RemoveAtInjective
  <2> HIDE DEF rest
  <2>5. at + 1 \in 1..Len(rest) + 1
    BY <1>2, <2>4, LenProperties
  <2> HIDE DEF at
  <2>6. t \in Seq(Nodes) /\ IsInjective(t) /\ ToSet(t) = ToSet(s)
    <3>1. t \in Seq(Nodes)
      BY <2>3, <2>4, <2>5, InsertAtElements DEF t
    <3>2. IsInjective(t) /\ ToSet(t) = ToSet(rest) \cup {n}
      BY <2>3, <2>4, <2>5, InsertAtInjective DEF t
    <3> QED BY <2>2, <2>4, <3>1, <3>2
  <2>7. /\ children' \in [Containers -> Seq(Nodes)]
        /\ \A k \in Containers : /\ IsInjective(children'[k])
                                 /\ ToSet(children'[k]) = ToSet(children[k])
    <3>1. children' = [children EXCEPT ![c] = t]
      BY <2>1, <2>0
    <3> QED BY <2>6, <3>1 DEF s, TreeInv, TypeOK, WellLinked, NoDuplicates
  <2>8. TypeOK' /\ NoDuplicates'
    BY <2>1, <2>7 DEF TreeInv, TypeOK, Outcomes, NoDuplicates
  <2>9. LinksAgree'
    BY <2>1, <2>7 DEF TreeInv, WellLinked, LinksAgree
  <2> QED BY <2>1, <2>8, <2>9 DEF TreeInv, WellLinked, RootsDetached, Acyclic
<1> QED BY <1>1, <1>2

(***************************************************************************)
(* The theorems.                                                           *)
(***************************************************************************)
THEOREM TreeInit == Init => TreeInv /\ Forest!Init
<1> SUFFICES ASSUME Init PROVE TreeInv /\ Forest!Init
  OBVIOUS
<1>1. TypeOK
  BY DEF Init, TypeOK, Outcomes
<1>2. WellLinked
  BY TreeAssumption DEF Init, WellLinked, LinksAgree, NoDuplicates, ToSet, IsInjective
<1>3. RootsDetached
  BY NodesFacts DEF Init, RootsDetached
<1>4. Acyclic
  BY NodesFacts DEF Init, Acyclic, Forest!IsForest
<1>5. Forest!Init
  BY NodesFacts DEF Init, Forest!Init
<1> QED BY <1>1, <1>2, <1>3, <1>4, <1>5 DEF TreeInv

(* One call, whichever it is, keeps the tree well formed, and changes the  *)
(* parents as the abstract forest allows.                                  *)
THEOREM TreeStep == TreeInv /\ [TreeNext]_treeVars => TreeInv' /\ [Forest!Next]_parent
<1> SUFFICES ASSUME TreeInv, [TreeNext]_treeVars PROVE TreeInv' /\ [Forest!Next]_parent
  OBVIOUS
<1>1. CASE UNCHANGED treeVars
  BY <1>1 DEF treeVars, TreeInv, TypeOK, WellLinked, LinksAgree, NoDuplicates, RootsDetached,
              Acyclic
<1>2. CASE TreeNext
  <2>1. PICK c \in Containers, h \in Handles \cup {NilHandle} :
          \/ \E index \in Indices(c) : InsertChild(c, index, h)
          \/ AddChild(c, h)
          \/ \E reference \in Nodes \cup {NoNode} : AddChildAbove(c, h, reference)
          \/ \E reference \in Nodes \cup {NoNode} : AddChildBelow(c, h, reference)
          \/ RemoveChild(c, h)
          \/ \E index \in Indices(c) : SetChildPosition(c, h, index)
    BY <1>2 DEF TreeNext
  <2>2. CASE \E index \in Indices(c) : InsertChild(c, index, h)
    BY <2>2, InsertStep
  <2>3. CASE AddChild(c, h)
    BY <2>3, InsertStep DEF AddChild
  <2>4. CASE \E reference \in Nodes \cup {NoNode} : AddChildAbove(c, h, reference)
    BY <2>4, InsertStep DEF AddChildAbove
  <2>5. CASE \E reference \in Nodes \cup {NoNode} : AddChildBelow(c, h, reference)
    BY <2>5, InsertStep DEF AddChildBelow
  <2>6. CASE RemoveChild(c, h)
    BY <2>6, RemoveStep
  <2>7. CASE \E index \in Indices(c) : SetChildPosition(c, h, index)
    <3>1. PICK index \in Indices(c) : SetChildPosition(c, h, index)
      BY <2>7
    <3>2. index \in Int
      BY LenProperties DEF Indices, TreeInv, TypeOK
    <3> QED BY <3>1, <3>2, RepositionStep
  <2> QED BY <2>1, <2>2, <2>3, <2>4, <2>5, <2>6, <2>7
<1> QED BY <1>1, <1>2

(* For any containers, roots and leaves, and after any sequence of calls:  *)
(* the fields have their types.                                            *)
THEOREM TreeTypeCorrect == Spec => []TypeOK
<1>1. Init => TreeInv
  BY TreeInit
<1>2. TreeInv /\ [TreeNext]_treeVars => TreeInv'
  BY TreeStep
<1>3. TreeInv => TypeOK
  BY DEF TreeInv
<1> QED BY <1>1, <1>2, <1>3, PTL DEF Spec

(* The children slices and the parent pointers agree: a node is listed     *)
(* once, by its parent, and by nobody else.                                *)
THEOREM LinksAlwaysAgree == Spec => []WellLinked
<1>1. Init => TreeInv
  BY TreeInit
<1>2. TreeInv /\ [TreeNext]_treeVars => TreeInv'
  BY TreeStep
<1>3. TreeInv => WellLinked
  BY DEF TreeInv
<1> QED BY <1>1, <1>2, <1>3, PTL DEF Spec

(* No call makes a node its own ancestor, and no root gets a parent: the   *)
(* climbs and descents of the program end.                                 *)
THEOREM TreeStaysAcyclic == Spec => [](Acyclic /\ RootsDetached)
<1>1. Init => TreeInv
  BY TreeInit
<1>2. TreeInv /\ [TreeNext]_treeVars => TreeInv'
  BY TreeStep
<1>3. TreeInv => Acyclic /\ RootsDetached
  BY DEF TreeInv
<1> QED BY <1>1, <1>2, <1>3, PTL DEF Spec

(* The tree implements the abstract forest, whose only moves are a         *)
(* detachment and a move that closes no cycle.                             *)
THEOREM TreeImplementsForest == Spec => ImplementsForest
<1>1. Init => TreeInv /\ Forest!Init
  BY TreeInit
<1>2. TreeInv /\ [TreeNext]_treeVars => TreeInv' /\ [Forest!Next]_parent
  BY TreeStep
<1> QED BY <1>1, <1>2, PTL DEF Spec, ImplementsForest, Forest!Spec

(***************************************************************************)
(* Counting: least elements, and induction over the naturals.              *)
(***************************************************************************)
(* Every non-empty set of naturals has a least member.                     *)
LEMMA LeastNat ==
  ASSUME NEW T \in SUBSET Nat, T # {}
  PROVE  \E k \in T : \A j \in T : k <= j
<1>1. PICK R : R = OpToRel(<, Nat)
  OBVIOUS
<1>2. PICK k \in T : \A j \in T : <<j, k>> \notin R
  BY <1>1, NatLessThanWellFounded, WFMin
<1>3. ASSUME NEW j \in T PROVE k <= j
  <2>1. ~(j < k)
    BY <1>1, <1>2 DEF OpToRel
  <2> QED BY <2>1
<1> QED BY <1>3

(* A property of naturals, as the set of those that have it.               *)
LEMMA Induction ==
  ASSUME NEW S, 0 \in S, \A k \in Nat : k \in S => k + 1 \in S
  PROVE  Nat \subseteq S
<1> SUFFICES ASSUME Nat \ S # {} PROVE FALSE
  OBVIOUS
<1>1. PICK k \in Nat \ S : \A j \in Nat \ S : k <= j
  BY LeastNat
<1> QED BY <1>1

(* A container's ancestors are itself and those of its parent.             *)
LEMMA AncestorsUnfold ==
  ASSUME NEW up \in [Nodes -> Containers \cup {NoNode}], NEW c \in Containers
  PROVE  Forest!AncestorsOrSelf(c, up) =
           {c} \cup (IF up[c] = NoNode THEN {} ELSE Forest!AncestorsOrSelf(up[c], up))
<1> DEFINE A(n) == Forest!AncestorsOrSelf(n, up)
           R == {c} \cup (IF up[c] = NoNode THEN {} ELSE A(up[c]))
<1>0. up[c] \in Containers \cup {NoNode} /\ NoNode \notin Containers
  BY NodesFacts
<1>1. ASSUME NEW n \in R PROVE n \in A(c)
  BY <1>1, <1>0, NodesFacts DEF Forest!AncestorsOrSelf, Forest!ClosedUpwards
<1>2. ASSUME NEW n \in A(c) PROVE n \in R
  <2>1. CASE up[c] = NoNode
    <3>1. {c} \in SUBSET Containers /\ Forest!ClosedUpwards({c}, up)
      BY <2>1 DEF Forest!ClosedUpwards
    <3> QED BY <1>2, <2>1, <3>1 DEF Forest!AncestorsOrSelf
  <2>2. CASE up[c] # NoNode
    <3> SUFFICES ASSUME n # c, NEW S \in SUBSET Containers, up[c] \in S, Forest!ClosedUpwards(S, up)
                 PROVE  n \in S
      BY <2>2, <1>2 DEF Forest!AncestorsOrSelf
    <3>1. Forest!ClosedUpwards({c} \cup S, up)
      BY DEF Forest!ClosedUpwards
    <3> QED BY <3>1, <1>2 DEF Forest!AncestorsOrSelf
  <2> QED BY <2>1, <2>2
<1> QED BY <1>1, <1>2

(* The ancestors of an ancestor are ancestors.                             *)
LEMMA AncestorsTransitive ==
  ASSUME NEW up \in [Nodes -> Containers \cup {NoNode}], NEW c \in Containers,
         NEW n \in Forest!AncestorsOrSelf(c, up)
  PROVE  n \in Containers /\ Forest!AncestorsOrSelf(n, up) \subseteq Forest!AncestorsOrSelf(c, up)
<1>1. n \in Containers
  BY DEF Forest!AncestorsOrSelf
<1>2. ASSUME NEW m \in Forest!AncestorsOrSelf(n, up), NEW S \in SUBSET Containers,
             c \in S, Forest!ClosedUpwards(S, up)
      PROVE  m \in S
  BY <1>2 DEF Forest!AncestorsOrSelf
<1> QED BY <1>1, <1>2 DEF Forest!AncestorsOrSelf

(* In a forest the climb from a node's parent does not meet the node.      *)
LEMMA AncestorsAbove ==
  ASSUME NEW up \in [Nodes -> Containers \cup {NoNode}], Forest!IsForest(up),
         NEW n \in Nodes, up[n] # NoNode
  PROVE  n \notin Forest!AncestorsOrSelf(up[n], up)
<1> SUFFICES ASSUME n \in Forest!AncestorsOrSelf(up[n], up) PROVE FALSE
  OBVIOUS
<1> DEFINE p == up[n]
           A == Forest!AncestorsOrSelf(p, up)
           \* the nodes between p and n
           T == {m \in A : n \in Forest!AncestorsOrSelf(m, up)}
<1>1. p \in Containers /\ n \in Containers
  BY DEF Forest!AncestorsOrSelf
<1>2. p \in A
  BY <1>1, AncestorsUnfold
<1>3. T \in SUBSET Nodes /\ T # {}
  BY <1>2, NodesFacts DEF Forest!AncestorsOrSelf
<1>4. PICK m \in T : up[m] \notin T
  BY <1>3, NodesFacts DEF Forest!IsForest
<1>5. m \in Containers /\ m \in A /\ n \in Forest!AncestorsOrSelf(m, up)
  BY DEF Forest!AncestorsOrSelf
<1>6. CASE m = n
  <2>1. up[m] \in T
    BY <1>1, <1>2, <1>6
  <2> QED BY <1>4, <2>1
<1>7. CASE m # n
  <2>1. up[m] # NoNode /\ n \in Forest!AncestorsOrSelf(up[m], up)
    BY <1>5, <1>7, AncestorsUnfold
  <2>2. up[m] \in Containers
    BY <1>5, <2>1, NodesFacts
  <2>3. up[m] \in Forest!AncestorsOrSelf(m, up)
    BY <1>5, <2>1, <2>2, AncestorsUnfold
  <2>4. up[m] \in A
    BY <1>1, <1>5, <2>3, AncestorsTransitive
  <2> QED BY <1>4, <2>1, <2>4
<1> QED BY <1>6, <1>7

(* A run of the loop of ContainsRecursively exists, for any number of turns. *)
LEMMA ClimbDefined ==
  ASSUME TypeOK, NEW c \in Containers, NEW turns \in Nat
  PROVE  \E g : g = [k \in 0..turns |-> IF k = 0 THEN c
                       ELSE IF g[k-1] = NoNode THEN NoNode ELSE parent[g[k-1]]]
<1> DEFINE Climb(g, t) == g = [k \in 0..t |-> IF k = 0 THEN c
                       ELSE IF g[k-1] = NoNode THEN NoNode ELSE parent[g[k-1]]]
           S == {t \in Nat : \E g : Climb(g, t)}
<1>1. 0 \in S
  <2>1. Climb([k \in 0..0 |-> c], 0)
    OBVIOUS
  <2> HIDE DEF Climb
  <2> QED BY <2>1
<1>2. ASSUME NEW t \in Nat, t \in S PROVE t + 1 \in S
  <2>1. PICK g : Climb(g, t)
    BY <1>2
  <2> DEFINE h == [k \in 0..t+1 |-> IF k <= t THEN g[k]
                     ELSE IF g[t] = NoNode THEN NoNode ELSE parent[g[t]]]
  <2>2. ASSUME NEW k \in 0..t+1
        PROVE  h[k] = IF k = 0 THEN c ELSE IF h[k-1] = NoNode THEN NoNode ELSE parent[h[k-1]]
    <3>1. CASE k = 0
      BY <2>1, <3>1
    <3>2. CASE k \in 1..t
      <4>1. h[k] = g[k] /\ h[k-1] = g[k-1]
        BY <3>2
      <4>2. g[k] = IF g[k-1] = NoNode THEN NoNode ELSE parent[g[k-1]]
        BY <2>1, <3>2
      <4> QED BY <3>2, <4>1, <4>2
    <3>3. CASE k = t + 1
      BY <3>3
    <3> QED BY <3>1, <3>2, <3>3
  <2>3. Climb(h, t + 1)
    BY <2>2
  <2> HIDE DEF Climb, h
  <2> QED BY <2>3
<1>3. turns \in S
  <2> HIDE DEF S
  <2> QED BY <1>1, <1>2, Induction
<1> QED BY <1>3

(* What the k-th turn of the loop looks at, for as many turns as we like.  *)
LEMMA ClimbFacts ==
  ASSUME TypeOK, Acyclic, NEW c \in Containers, NEW turns \in Nat, NEW g,
         g = [k \in 0..turns |-> IF k = 0 THEN c
                ELSE IF g[k-1] = NoNode THEN NoNode ELSE parent[g[k-1]]]
  PROVE  /\ g \in [0..turns -> Containers \cup {NoNode}]
         /\ \A k \in 0..turns : g[k] # NoNode => g[k] \in Forest!AncestorsOrSelf(c, parent)
         /\ \A j, k \in 0..turns : j < k /\ g[k] # NoNode => g[j] # NoNode /\ g[j] # g[k]
<1>0. parent \in [Nodes -> Containers \cup {NoNode}] /\ Containers \subseteq Nodes
      /\ NoNode \notin Containers /\ Forest!IsForest(parent)
  BY NodesFacts DEF TypeOK, Acyclic
<1>1. g[0] = c
  OBVIOUS
<1>2. ASSUME NEW k \in Nat, k + 1 \in 0..turns
      PROVE  g[k+1] = IF g[k] = NoNode THEN NoNode ELSE parent[g[k]]
  <2>1. k + 1 # 0 /\ (k + 1) - 1 = k
    OBVIOUS
  <2> QED BY <1>2, <2>1
<1> DEFINE A(n) == Forest!AncestorsOrSelf(n, parent)
           S == {k \in Nat : k \in 0..turns =>
                   g[k] \in Containers \cup {NoNode} /\ (g[k] # NoNode => g[k] \in A(c))}
<1>3. 0 \in S
  BY <1>0, <1>1, AncestorsUnfold
<1>4. ASSUME NEW k \in Nat, k \in S PROVE k + 1 \in S
  <2> SUFFICES ASSUME k + 1 \in 0..turns, g[k] # NoNode
               PROVE  parent[g[k]] \in Containers \cup {NoNode}
                      /\ (parent[g[k]] # NoNode => parent[g[k]] \in A(c))
    BY <1>2
  <2>1. g[k] \in Containers /\ g[k] \in A(c)
    BY <1>4
  <2>2. ASSUME parent[g[k]] # NoNode PROVE parent[g[k]] \in A(c)
    <3>1. parent[g[k]] \in Containers
      BY <1>0, <2>1, <2>2
    <3>2. parent[g[k]] \in A(g[k])
      BY <1>0, <2>1, <2>2, <3>1, AncestorsUnfold
    <3> QED BY <1>0, <2>1, <3>2, AncestorsTransitive
  <2> QED BY <1>0, <2>1, <2>2
<1>5. \A k \in 0..turns : g[k] \in Containers \cup {NoNode} /\ (g[k] # NoNode => g[k] \in A(c))
  <2>1. Nat \subseteq S
    <3> HIDE DEF S
    <3> QED BY <1>3, <1>4, Induction
  <2>2. ASSUME NEW k \in 0..turns PROVE k \in S
    <3> HIDE DEF S
    <3> QED BY <2>1
  <2> QED BY <2>2
<1>6. ASSUME NEW j \in 0..turns, NEW k \in 0..turns, j < k, g[k] # NoNode
      PROVE  g[j] # NoNode /\ g[j] # g[k]
  <2> DEFINE U == {i \in Nat : j + 1 + i \in 0..turns /\ g[j+1+i] # NoNode
                     => g[j] # NoNode /\ parent[g[j]] # NoNode /\ g[j+1+i] \in A(parent[g[j]])}
  <2>1. 0 \in U
    <3> SUFFICES ASSUME j + 1 \in 0..turns, g[j+1] # NoNode
                 PROVE  g[j] # NoNode /\ parent[g[j]] # NoNode /\ g[j+1] \in A(parent[g[j]])
      OBVIOUS
    <3>1. g[j] # NoNode /\ g[j+1] = parent[g[j]] /\ g[j+1] \in Containers
      BY <1>2, <1>5
    <3> QED BY <1>0, <3>1, AncestorsUnfold
  <2>2. ASSUME NEW i \in Nat, i \in U PROVE i + 1 \in U
    <3> DEFINE m == j + 1 + i
    <3>5. j + 1 + (i + 1) = m + 1
      OBVIOUS
    <3> SUFFICES ASSUME m + 1 \in 0..turns, g[m+1] # NoNode
                 PROVE  g[j] # NoNode /\ parent[g[j]] # NoNode /\ g[m+1] \in A(parent[g[j]])
      BY <3>5
    <3>0. m \in Nat /\ m \in 0..turns
      OBVIOUS
    <3>1. g[m] # NoNode /\ g[m+1] = parent[g[m]] /\ g[m] \in Containers /\ g[m+1] \in Containers
      BY <1>2, <1>5, <3>0
    <3>2. g[j] # NoNode /\ parent[g[j]] # NoNode /\ g[m] \in A(parent[g[j]])
      BY <2>2, <3>0, <3>1
    <3>3. g[j] \in Containers /\ parent[g[j]] \in Containers
      BY <1>0, <1>5, <3>2
    <3>4. g[m+1] \in A(g[m])
      BY <1>0, <3>1, AncestorsUnfold
    <3> QED BY <1>0, <3>2, <3>3, <3>4, AncestorsTransitive
  <2>3. Nat \subseteq U
    <3> HIDE DEF U
    <3> QED BY <2>1, <2>2, Induction
  <2>4. k - (j + 1) \in U /\ j + 1 + (k - (j + 1)) = k
    <3> HIDE DEF U
    <3>1. k - (j + 1) \in Nat /\ j + 1 + (k - (j + 1)) = k
      BY <1>6
    <3> QED BY <2>3, <3>1
  <2>5. g[j] # NoNode /\ parent[g[j]] # NoNode /\ g[k] \in A(parent[g[j]])
    BY <1>6, <2>4
  <2> QED BY <1>0, <1>5, <2>5, AncestorsAbove
<1> QED BY <1>5, <1>6

(* After as many turns as there are containers the climb is above the root, *)
(* and it has looked at every ancestor.                                    *)
LEMMA ClimbHolds == TypeOK /\ Acyclic => ClimbEnds
<1> SUFFICES ASSUME TypeOK, Acyclic, NEW c \in Containers
             PROVE  LET turns == Cardinality(Containers)
                        Current[k \in 0..turns] ==
                          IF k = 0 THEN c
                          ELSE IF Current[k-1] = NoNode THEN NoNode ELSE parent[Current[k-1]]
                    IN  /\ Current[turns] = NoNode
                        /\ {Current[k] : k \in 0..turns} \ {NoNode} = Forest!AncestorsOrSelf(c, parent)
  BY DEF ClimbEnds
<1> DEFINE turns == Cardinality(Containers)
           Climb(g) == g = [k \in 0..turns |-> IF k = 0 THEN c
                              ELSE IF g[k-1] = NoNode THEN NoNode ELSE parent[g[k-1]]]
           Current == CHOOSE g : Climb(g)
<1>0. /\ parent \in [Nodes -> Containers \cup {NoNode}] /\ Containers \subseteq Nodes
      /\ NoNode \notin Containers
      /\ IsFiniteSet(Containers) /\ turns \in Nat
  BY NodesFacts, FinitelyManyNodes, FS_Subset, FS_CardinalityType DEF TypeOK
<1>1. Climb(Current)
  <2>1. \E g : Climb(g)
    <3> HIDE DEF turns
    <3> QED BY <1>0, ClimbDefined
  <2> HIDE DEF Climb
  <2> QED BY <2>1
<1> HIDE DEF Current
<1>2. /\ Current \in [0..turns -> Containers \cup {NoNode}]
      /\ \A k \in 0..turns : Current[k] # NoNode => Current[k] \in Forest!AncestorsOrSelf(c, parent)
      /\ \A j, k \in 0..turns : j < k /\ Current[k] # NoNode => Current[j] # NoNode /\ Current[j] # Current[k]
  <2> HIDE DEF turns
  <2> QED BY <1>0, <1>1, ClimbFacts
<1>3. Current[turns] = NoNode
  <2> SUFFICES ASSUME Current[turns] # NoNode PROVE FALSE
    OBVIOUS
  <2>1. Current \in [0..turns -> Containers]
    BY <1>0, <1>2
  <2>2. IsFiniteSet(0..turns) /\ Cardinality(0..turns) = turns + 1
    BY <1>0, FS_Interval
  <2>3. PICK j \in 0..turns, k \in 0..turns : j # k /\ Current[j] = Current[k]
    BY <1>0, <2>1, <2>2, FS_PigeonHole
  <2>4. Current[j] # NoNode /\ Current[k] # NoNode
    BY <1>0, <2>1
  <2> QED BY <1>0, <1>2, <2>3, <2>4
<1> DEFINE V == {Current[k] : k \in 0..turns} \ {NoNode}
<1>4. V \subseteq Forest!AncestorsOrSelf(c, parent)
  BY <1>2
<1>5. Forest!AncestorsOrSelf(c, parent) \subseteq V
  <2>1. V \in SUBSET Containers /\ c \in V
    BY <1>0, <1>1, <1>2
  <2>2. ASSUME NEW n \in V PROVE parent[n] \in V \cup {NoNode}
    <3>1. PICK k \in 0..turns : Current[k] = n
      BY <2>2
    <3>2. k + 1 \in 0..turns /\ k + 1 # 0 /\ (k + 1) - 1 = k
      BY <1>0, <1>3, <2>2, <3>1
    <3>3. Current[k+1] = parent[n]
      BY <1>1, <2>2, <3>1, <3>2
    <3> QED BY <3>2, <3>3
  <2> QED BY <2>1, <2>2 DEF Forest!AncestorsOrSelf, Forest!ClosedUpwards
<1>6. Current[turns] = NoNode /\ V = Forest!AncestorsOrSelf(c, parent)
  BY <1>3, <1>4, <1>5
<1> QED BY <1>6 DEF Current

(* However often the tree is edited, ContainsRecursively's climb ends and  *)
(* finds every ancestor: AddChild's check against cycles can be relied on. *)
THEOREM ClimbAlwaysEnds == Spec => []ClimbEnds
<1>1. Spec => []TypeOK
  BY TreeTypeCorrect
<1>2. Spec => [](Acyclic /\ RootsDetached)
  BY TreeStaysAcyclic
<1> QED BY <1>1, <1>2, ClimbHolds, PTL

(***************************************************************************)
(* Descendants: the fold over a container's children, and the recursion from *)
(* the children up, give every container a list.                           *)
(***************************************************************************)
(* ... and a non-empty set of naturals with a bound has a greatest one.    *)
LEMMA Greatest ==
  ASSUME NEW n \in Nat, NEW t \in SUBSET (1..n), t # {}
  PROVE  \E z \in t : \A y \in t : z >= y
<1> DEFINE T == {k \in Nat : n - k \in t}
<1>1. PICK i \in t : TRUE
  OBVIOUS
<1>2. n - i \in Nat /\ n - (n - i) = i
  OBVIOUS
<1>3. PICK k \in T : \A j \in T : k <= j
  BY <1>2, LeastNat
<1>4. ASSUME NEW y \in t PROVE n - k >= y
  <2>1. n - y \in Nat /\ n - (n - y) = y
    OBVIOUS
  <2>2. k <= n - y
    BY <1>3, <2>1
  <2> QED BY <2>1, <2>2
<1> QED BY <1>4

(* A set of nodes of a finite forest has a member none of whose children   *)
(* is in the set.                                                          *)
LEMMA LowestNode ==
  ASSUME NEW up \in [Nodes -> Containers \cup {NoNode}], Forest!IsForest(up),
         NEW S \in SUBSET Nodes, S # {}
  PROVE  \E n \in S : \A m \in S : up[m] # n
<1> SUFFICES ASSUME \A n \in S : \E m \in S : up[m] = n PROVE FALSE
  OBVIOUS
<1> DEFINE down == [n \in S |-> CHOOSE m \in S : up[m] = n]
<1>1. \A n \in S : down[n] \in S /\ up[down[n]] = n
  OBVIOUS
<1> HIDE DEF down
<1>2. down \in Injection(S, S)
  BY <1>1 DEF down, Injection, IsInjective
<1>3. down \in Surjection(S, S)
  BY <1>2, FinitelyManyNodes, FS_Subset, FS_Injection
<1>4. \A n \in S : \E m \in S : down[m] = n
  BY <1>3 DEF Surjection
<1>5. \A n \in S : up[n] \in S
  BY <1>1, <1>4
<1> QED BY <1>5, NodesFacts DEF Forest!IsForest

-----------------------------------------------------------------------------
(* What a child contributes: itself and, listed, what is below it.         *)
Piece(D, B, child) == <<child>> \o (IF child \in B THEN D[child] ELSE <<>>)

(* The rows of s, each with what D lists below it when it is in B.         *)
Listing(D, B, s) ==
  FoldLeft(LAMBDA out, child : out \o (<<child>> \o (IF child \in B THEN D[child] ELSE <<>>)), <<>>, s)

(* What D holds for the rows in B is a list of nodes.                      *)
Lists(D, B, s) == \A i \in 1..Len(s) : s[i] \in B => D[s[i]] \in Seq(Nodes)

(* acc is what the fold has gathered after each of its elements.           *)
Gathers(D, B, s, acc) ==
  /\ acc \in [0..Len(s) -> Seq(Nodes)]
  /\ acc[0] = <<>>
  /\ \A i \in 1..Len(s) : acc[i] = acc[i-1] \o Piece(D, B, s[i])
  /\ Listing(D, B, s) = acc[Len(s)]

(* Folding the rows gives what was gathered after the last of them.        *)
LEMMA FoldDefined ==
  ASSUME NEW f, NEW n \in Nat
  PROVE  \E h : h = [t \in SUBSET (1..n) |-> IF t = {} THEN <<>>
                       ELSE h[t \ {CHOOSE x \in t : \A y \in t : x >= y}]
                              \o f[CHOOSE x \in t : \A y \in t : x >= y]]
<1> DEFINE Top(t) == CHOOSE x \in t : \A y \in t : x >= y
           Body(h, t) == IF t = {} THEN <<>> ELSE h[t \ {Top(t)}] \o f[Top(t)]
           Folds(h, k) == h = [t \in SUBSET (1..k) |-> Body(h, t)]
           S == {k \in Nat : \E h : Folds(h, k)}
<1>1. 0 \in S
  <2>1. \A t \in SUBSET (1..0) : t = {}
    OBVIOUS
  <2>2. Folds([t \in SUBSET (1..0) |-> <<>>], 0)
    BY <2>1
  <2> HIDE DEF Folds
  <2> QED BY <2>2
<1>2. ASSUME NEW k \in Nat, k \in S PROVE k + 1 \in S
  <2>1. PICK h : Folds(h, k)
    BY <1>2
  <2> DEFINE g == [t \in SUBSET (1..k+1) |->
                     IF t \in SUBSET (1..k) THEN h[t] ELSE h[t \ {k+1}] \o f[k+1]]
  <2>2. ASSUME NEW t \in SUBSET (1..k+1) PROVE g[t] = Body(g, t)
    <3>1. CASE t = {}
      BY <2>1, <3>1
    <3>2. CASE t # {} /\ t \in SUBSET (1..k)
      <4>1. h[t] = h[t \ {Top(t)}] \o f[Top(t)]
        BY <2>1, <3>2
      <4>2. t \ {Top(t)} \in SUBSET (1..k) /\ t \ {Top(t)} \in SUBSET (1..k+1)
        BY <3>2
      <4>3. g[t] = h[t] /\ g[t \ {Top(t)}] = h[t \ {Top(t)}]
        BY <3>2, <4>2
      <4> QED BY <3>2, <4>1, <4>3
    <3>3. CASE t # {} /\ t \notin SUBSET (1..k)
      <4>1. k + 1 \in t /\ \A y \in t : k + 1 >= y
        BY <3>3
      <4>2. Top(t) = k + 1
        <5>1. Top(t) \in t /\ \A y \in t : Top(t) >= y
          BY <4>1
        <5> HIDE DEF Top
        <5>2. Top(t) \in 1..k+1 /\ Top(t) >= k + 1
          BY <4>1, <5>1
        <5> QED BY <5>2
      <4> HIDE DEF Top
      <4>3. t \ {k+1} \in SUBSET (1..k) /\ t \ {k+1} \in SUBSET (1..k+1)
        OBVIOUS
      <4>4. g[t] = h[t \ {k+1}] \o f[k+1] /\ g[t \ {k+1}] = h[t \ {k+1}]
        BY <3>3, <4>3
      <4> QED BY <3>3, <4>2, <4>4
    <3> QED BY <3>1, <3>2, <3>3
  <2>3. Folds(g, k + 1)
    <3> HIDE DEF Body
    <3>1. g = [t \in SUBSET (1..k+1) |-> g[t]]
      OBVIOUS
    <3> HIDE DEF g
    <3> QED BY <2>2, <3>1
  <2> HIDE DEF Folds, g
  <2> QED BY <2>3
<1>3. n \in S
  <2> HIDE DEF S
  <2> QED BY <1>1, <1>2, Induction
<1> QED BY <1>3

(* The fold as what it has gathered after each element.                    *)
LEMMA ListingSteps ==
  ASSUME NEW D, NEW B, NEW s \in Seq(Nodes),
         Lists(D, B, s)
  PROVE  \E acc : Gathers(D, B, s, acc)
<1> DEFINE n == Len(s)
           f == [i \in 1..n |-> Piece(D, B, s[i])]
           Top(t) == CHOOSE x \in t : \A y \in t : x >= y
           Folds(h) == h = [t \in SUBSET (1..n) |-> IF t = {} THEN <<>> ELSE h[t \ {Top(t)}] \o f[Top(t)]]
           Iterates(h) == h = [t \in SUBSET DOMAIN s |->
                                IF t = {} THEN <<>>
                                ELSE h[t \ {Top(t)}] \o (<<s[Top(t)]>> \o (IF s[Top(t)] \in B THEN D[s[Top(t)]] ELSE <<>>))]
           iter == CHOOSE h : Iterates(h)
<1>1. Listing(D, B, s) = iter[DOMAIN s]
  BY Zenon DEF Listing, FoldLeft, MapThenFoldSet, Max
<1>2. ASSUME NEW t \in SUBSET (1..n), t # {} PROVE Top(t) \in t /\ Top(t) \in 1..n
  <2>5. \E z \in t : \A y \in t : z >= y
    <3>1. n \in Nat
      OBVIOUS
    <3> HIDE DEF n
    <3> QED BY <1>2, <3>1, Greatest
  <2> QED BY <2>5
<1>3. ASSUME NEW i \in 1..n
      PROVE  1..i \in SUBSET (1..n) /\ 1..i # {} /\ Top(1..i) = i /\ (1..i) \ {i} = 1..(i-1)
  <2>1. i \in 1..i /\ \A y \in 1..i : i >= y
    OBVIOUS
  <2>2. Top(1..i) \in 1..i /\ \A y \in 1..i : Top(1..i) >= y
    BY <2>1
  <2> QED BY <2>1, <2>2
<1> HIDE DEF Top
<1>4. Iterates(iter)
  <2>1. \E h : Folds(h)
    <3>1. n \in Nat
      OBVIOUS
    <3> HIDE DEF f, n
    <3> QED BY <3>1, FoldDefined, Zenon DEF Top
  <2>2. ASSUME NEW h, Folds(h) PROVE Iterates(h)
    <3>1. DOMAIN s = 1..n
      OBVIOUS
    <3>2. \A t \in SUBSET (1..n) : t # {} => f[Top(t)] = <<s[Top(t)]>> \o (IF s[Top(t)] \in B THEN D[s[Top(t)]] ELSE <<>>)
      BY <1>2 DEF Piece
    <3> HIDE DEF f, n
    <3> QED BY <2>2, <3>1, <3>2
  <2>3. \E h : Iterates(h)
    <3> HIDE DEF Folds, Iterates
    <3> QED BY <2>1, <2>2
  <2> HIDE DEF Iterates
  <2> QED BY <2>3
<1> HIDE DEF iter
<1> DEFINE acc == [i \in 0..n |-> iter[1..i]]
<1>5. acc[0] = <<>> /\ DOMAIN s = 1..n
  <2>1. 1..0 = {} /\ DOMAIN s = 1..n
    OBVIOUS
  <2> QED BY <1>4, <2>1
<1>6. ASSUME NEW i \in 1..n PROVE acc[i] = acc[i-1] \o Piece(D, B, s[i])
  <2>1. iter[1..i] = iter[1..(i-1)] \o (<<s[i]>> \o (IF s[i] \in B THEN D[s[i]] ELSE <<>>))
    <3>1. iter[1..i] = IF 1..i = {} THEN <<>>
                       ELSE iter[(1..i) \ {Top(1..i)}] \o
                            (<<s[Top(1..i)]>> \o (IF s[Top(1..i)] \in B THEN D[s[Top(1..i)]] ELSE <<>>))
      <4>1. 1..i \in SUBSET DOMAIN s
        BY <1>3, <1>5
      <4> QED BY <1>4, <4>1
    <3> QED BY <1>3, <3>1
  <2>2. acc[i] = iter[1..i] /\ acc[i-1] = iter[1..(i-1)]
    OBVIOUS
  <2> QED BY <2>1, <2>2 DEF Piece
<1>7. acc \in [0..n -> Seq(Nodes)]
  <2> DEFINE S == {i \in Nat : i \in 0..n => acc[i] \in Seq(Nodes)}
  <2>1. 0 \in S
    BY <1>5
  <2>2. ASSUME NEW i \in Nat, i \in S PROVE i + 1 \in S
    <3> SUFFICES ASSUME i + 1 \in 0..n PROVE acc[i+1] \in Seq(Nodes)
      OBVIOUS
    <3> HIDE DEF acc
    <3>1. i + 1 \in 1..n /\ (i + 1) - 1 = i /\ i \in 0..n /\ s[i+1] \in Nodes
      OBVIOUS
    <3>2. Piece(D, B, s[i+1]) \in Seq(Nodes)
      BY <3>1 DEF Piece, Lists
    <3>3. acc[i+1] = acc[i] \o Piece(D, B, s[i+1]) /\ acc[i] \in Seq(Nodes)
      BY <1>6, <2>2, <3>1
    <3> QED BY <3>2, <3>3
  <2>3. \A i \in 0..n : i \in S
    <3> HIDE DEF S
    <3>1. Nat \subseteq S
      BY <2>1, <2>2, Induction
    <3> QED BY <3>1
  <2>4. \A i \in 0..n : acc[i] \in Seq(Nodes)
    BY <2>3
  <2> QED BY <2>4
<1>8. Listing(D, B, s) = acc[n]
  BY <1>1, <1>5
<1> HIDE DEF acc
<1> QED BY <1>5, <1>6, <1>7, <1>8 DEF Gathers

(* Two ways to list the same rows give the same listing.                   *)
LEMMA ListingDependsOn ==
  ASSUME NEW D, NEW B, NEW E, NEW C, NEW s \in Seq(Nodes), Lists(D, B, s),
         \A i \in 1..Len(s) : (s[i] \in B <=> s[i] \in C) /\ (s[i] \in B => E[s[i]] = D[s[i]])
  PROVE  Listing(D, B, s) = Listing(E, C, s) /\ Listing(D, B, s) \in Seq(Nodes)
<1> DEFINE n == Len(s)
<1>0. n \in Nat
  OBVIOUS
<1>1. PICK a : Gathers(D, B, s, a)
  BY ListingSteps
<1>2. PICK b : Gathers(E, C, s, b)
  <2>1. Lists(E, C, s)
    BY DEF Lists
  <2> QED BY <2>1, ListingSteps
<1>9. /\ a \in [0..n -> Seq(Nodes)] /\ a[0] = <<>> /\ Listing(D, B, s) = a[n]
      /\ b \in [0..n -> Seq(Nodes)] /\ b[0] = <<>> /\ Listing(E, C, s) = b[n]
      /\ \A i \in 1..n : a[i] = a[i-1] \o Piece(D, B, s[i])
      /\ \A i \in 1..n : b[i] = b[i-1] \o Piece(E, C, s[i])
  BY <1>1, <1>2 DEF Gathers
<1>3. \A i \in 1..n : Piece(D, B, s[i]) = Piece(E, C, s[i])
  BY DEF Piece
<1> HIDE DEF n
<1> DEFINE S == {i \in Nat : i \in 0..n => a[i] = b[i]}
<1>4. 0 \in S
  BY <1>9
<1>5. ASSUME NEW i \in Nat, i \in S PROVE i + 1 \in S
  <2> SUFFICES ASSUME i + 1 \in 0..n PROVE a[i+1] = b[i+1]
    OBVIOUS
  <2>1. i + 1 \in 1..n /\ (i + 1) - 1 = i /\ i \in 0..n
    BY <1>0
  <2>2. a[i] = b[i] /\ Piece(D, B, s[i+1]) = Piece(E, C, s[i+1])
    BY <1>3, <1>5, <2>1
  <2>3. \A j \in 1..n : a[j] = a[j-1] \o Piece(D, B, s[j]) /\ b[j] = b[j-1] \o Piece(E, C, s[j])
    BY <1>9
  <2>4. a[i+1] = a[i] \o Piece(D, B, s[i+1]) /\ b[i+1] = b[i] \o Piece(E, C, s[i+1])
    BY <2>1, <2>3
  <2> QED BY <2>2, <2>4
<1>6. n \in S
  <2> HIDE DEF S
  <2> QED BY <1>0, <1>4, <1>5, Induction
<1> QED BY <1>0, <1>6, <1>9

(* Listing what is below each container below it, from the children up.    *)
LEMMA ListingDefined ==
  ASSUME TreeInv, NEW B \in SUBSET Containers
  PROVE  \E h \in [Containers -> Seq(Nodes)] :
           \A c \in Containers : h[c] = Listing(h, B, children[c])
<1>0. /\ parent \in [Nodes -> Containers \cup {NoNode}] /\ Forest!IsForest(parent)
      /\ \A c \in Containers : children[c] \in Seq(Nodes)
      /\ \A c \in Containers : \A i \in 1..Len(children[c]) : parent[children[c][i]] = c
      /\ Containers \in SUBSET Nodes /\ NoNode \notin Containers
      /\ IsFiniteSet(Containers)
  <2>1. \A c \in Containers : \A i \in 1..Len(children[c]) : parent[children[c][i]] = c
    <3> SUFFICES ASSUME NEW c \in Containers, NEW i \in 1..Len(children[c])
                 PROVE  parent[children[c][i]] = c
      OBVIOUS
    <3>1. children[c] \in Seq(Nodes)
      BY DEF TreeInv, TypeOK
    <3>2. children[c][i] \in Nodes /\ children[c][i] \in ToSet(children[c])
      BY <3>1 DEF ToSet
    <3> QED BY <3>2 DEF TreeInv, WellLinked, LinksAgree
  <2> QED BY <2>1, NodesFacts, FinitelyManyNodes, FS_Subset DEF TreeInv, TypeOK, Acyclic
<1> DEFINE Solves(h, U) ==
             /\ U \in SUBSET Containers
             /\ h \in [Containers -> Seq(Nodes)]
             /\ \A c \in U : /\ h[c] = Listing(h, B, children[c])
                             /\ \A m \in Containers : parent[m] = c => m \in U
           Left == {k \in Nat : \E h, U : Solves(h, U) /\ k = Cardinality(Containers \ U)}
<1>1. Left # {}
  <2>1. Solves([c \in Containers |-> <<>>], {})
    OBVIOUS
  <2>2. Cardinality(Containers \ {}) \in Nat
    BY <1>0, FS_CardinalityType
  <2> HIDE DEF Solves
  <2> QED BY <2>1, <2>2
<1>2. PICK k \in Left : \A j \in Left : k <= j
  BY <1>1, LeastNat
<1>3. PICK h, U : Solves(h, U) /\ k = Cardinality(Containers \ U)
  OBVIOUS
<1>4. CASE U = Containers
  BY <1>3, <1>4
<1>5. CASE U # Containers
  <2>1. PICK c \in Containers \ U : \A m \in Containers \ U : parent[m] # c
    <3>1. Containers \ U # {} /\ Containers \ U \in SUBSET Nodes
      BY <1>0, <1>3, <1>5
    <3> QED BY <1>0, <3>1, LowestNode
  <2> DEFINE g == [h EXCEPT ![c] = Listing(h, B, children[c])]
             V == U \cup {c}
  <2>2. \A d \in V : \A i \in 1..Len(children[d]) :
          children[d][i] \in B => children[d][i] \in U
    <3> SUFFICES ASSUME NEW d \in V, NEW i \in 1..Len(children[d]), children[d][i] \in B
                 PROVE  children[d][i] \in U
      OBVIOUS
    <3>1. d \in Containers /\ parent[children[d][i]] = d /\ children[d][i] \in Containers
      BY <1>0, <1>3
    <3> QED BY <1>3, <2>1, <3>1
  <2>3. \A d \in V : Listing(h, B, children[d]) = Listing(g, B, children[d])
                     /\ Listing(h, B, children[d]) \in Seq(Nodes)
    <3> SUFFICES ASSUME NEW d \in V
                 PROVE  Listing(h, B, children[d]) = Listing(g, B, children[d])
                        /\ Listing(h, B, children[d]) \in Seq(Nodes)
      OBVIOUS
    <3>1. d \in Containers /\ children[d] \in Seq(Nodes)
      BY <1>0, <1>3
    <3>2. Lists(h, B, children[d])
          /\ \A i \in 1..Len(children[d]) : children[d][i] \in B =>
                                            g[children[d][i]] = h[children[d][i]]
      BY <1>3, <2>1, <2>2 DEF Lists
    <3> HIDE DEF g
    <3> QED BY <3>1, <3>2, ListingDependsOn
  <2>4. Solves(g, V)
    <3>1. c \in V /\ c \in Containers
      OBVIOUS
    <3>2. g \in [Containers -> Seq(Nodes)] /\ V \in SUBSET Containers
      BY <1>3, <2>3, <3>1
    <3>3. \A d \in V : g[d] = Listing(h, B, children[d])
      BY <1>3, <2>1
    <3>4. \A d \in V : \A m \in Containers : parent[m] = d => m \in V
      BY <1>3, <2>1
    <3> HIDE DEF g
    <3> QED BY <2>3, <3>2, <3>3, <3>4
  <2>5. Cardinality(Containers \ V) = k - 1 /\ Cardinality(Containers \ V) \in Nat
    <3>1. Containers \ V = (Containers \ U) \ {c} /\ c \in Containers \ U
      OBVIOUS
    <3>2. IsFiniteSet(Containers \ U) /\ IsFiniteSet(Containers \ V)
      BY <1>0, FS_Subset
    <3>3. PICK W : W = Containers \ U
      OBVIOUS
    <3>4. Cardinality(W \ {c}) = Cardinality(W) - 1
      BY <3>1, <3>2, <3>3, FS_RemoveElement
    <3>5. Cardinality(Containers \ V) \in Nat
      BY <3>2, FS_CardinalityType
    <3> HIDE DEF V
    <3> QED BY <1>3, <3>1, <3>3, <3>4, <3>5
  <2>6. k - 1 \in Left
    <3> HIDE DEF Solves, g, V
    <3> QED BY <2>4, <2>5
  <2>7. k \in Nat
    OBVIOUS
  <2> HIDE DEF Left
  <2>8. k <= k - 1
    BY <1>2, <2>6
  <2> QED BY <2>7, <2>8
<1> QED BY <1>4, <1>5

-----------------------------------------------------------------------------
(* A child stands in its parent's list.                                    *)
LEMMA ChildrenFacts ==
  ASSUME TreeInv
  PROVE  /\ parent \in [Nodes -> Containers \cup {NoNode}] /\ Forest!IsForest(parent)
         /\ \A c \in Containers : children[c] \in Seq(Nodes)
         /\ \A c \in Containers : \A i \in 1..Len(children[c]) :
              children[c][i] \in Nodes /\ parent[children[c][i]] = c
         /\ \A n \in Nodes : parent[n] # NoNode =>
              parent[n] \in Containers
              /\ \E i \in 1..Len(children[parent[n]]) : children[parent[n]][i] = n
<1>0. parent \in [Nodes -> Containers \cup {NoNode}] /\ Forest!IsForest(parent)
      /\ \A c \in Containers : children[c] \in Seq(Nodes)
  BY DEF TreeInv, TypeOK, Acyclic
<1>1. ASSUME NEW c \in Containers, NEW i \in 1..Len(children[c])
      PROVE  children[c][i] \in Nodes /\ parent[children[c][i]] = c
  <2>1. children[c][i] \in Nodes /\ children[c][i] \in ToSet(children[c])
    BY <1>0 DEF ToSet
  <2> QED BY <2>1 DEF TreeInv, WellLinked, LinksAgree
<1>2. ASSUME NEW n \in Nodes, parent[n] # NoNode
      PROVE  parent[n] \in Containers
             /\ \E i \in 1..Len(children[parent[n]]) : children[parent[n]][i] = n
  <2>1. parent[n] \in Containers
    BY <1>0, <1>2
  <2>2. n \in ToSet(children[parent[n]])
    BY <2>1 DEF TreeInv, WellLinked, LinksAgree
  <2> QED BY <1>0, <2>1, <2>2 DEF ToSet
<1> QED BY <1>0, <1>1, <1>2

(* Descendants satisfies the equation it is defined by.                    *)
LEMMA DescendantsUnfold ==
  ASSUME TreeInv
  PROVE  /\ Descendants \in [Containers -> Seq(Nodes)]
         /\ \A c \in Containers : Descendants[c] = Listing(Descendants, Containers, children[c])
<1> DEFINE Solves(h) == h = [c \in Containers |-> Listing(h, Containers, children[c])]
<1>1. Descendants = CHOOSE h : Solves(h)
  BY Zenon DEF Descendants, Listing, ListedFirst
<1>2. PICK h \in [Containers -> Seq(Nodes)] :
        \A c \in Containers : h[c] = Listing(h, Containers, children[c])
  BY ListingDefined
<1>3. Solves(h)
  BY <1>2
<1>4. Solves(Descendants)
  <2> HIDE DEF Solves
  <2> QED BY <1>1, <1>3
<1>5. /\ Descendants = [c \in Containers |-> Descendants[c]]
      /\ \A c \in Containers : Descendants[c] = Listing(Descendants, Containers, children[c])
  BY <1>4
<1> DEFINE bad == {c \in Containers : Descendants[c] \notin Seq(Nodes)}
<1>6. bad = {}
  <2> SUFFICES ASSUME bad # {} PROVE FALSE
    OBVIOUS
  <2>1. PICK c \in bad : \A m \in bad : parent[m] # c
    <3>1. bad \in SUBSET Nodes /\ bad # {}
      BY NodesFacts
    <3>2. parent \in [Nodes -> Containers \cup {NoNode}] /\ Forest!IsForest(parent)
      BY ChildrenFacts
    <3> HIDE DEF bad
    <3> QED BY <3>1, <3>2, LowestNode
  <2>2. Lists(Descendants, Containers, children[c])
    BY <2>1, ChildrenFacts DEF Lists
  <2>3. Listing(Descendants, Containers, children[c]) \in Seq(Nodes)
    BY <2>2, ChildrenFacts, ListingDependsOn
  <2> QED BY <1>5, <2>3
<1> QED BY <1>5, <1>6

(***************************************************************************)
(* The list of a container holds the nodes below it, each once and each    *)
(* subtree in one piece.                                                   *)
(***************************************************************************)
(* What stands in a concatenation stands in one of its two parts.          *)
LEMMA ConcatElements ==
  ASSUME NEW S, NEW a \in Seq(S), NEW b \in Seq(S)
  PROVE  ToSet(a \o b) = ToSet(a) \cup ToSet(b)
<1> DEFINE s == a \o b
<1>1. /\ Len(a) \in Nat /\ Len(b) \in Nat /\ Len(s) = Len(a) + Len(b)
      /\ DOMAIN s = 1..Len(s) /\ DOMAIN a = 1..Len(a) /\ DOMAIN b = 1..Len(b)
      /\ \A i \in 1..Len(s) : s[i] = IF i <= Len(a) THEN a[i] ELSE b[i - Len(a)]
  OBVIOUS
<1> HIDE DEF s
<1>2. ASSUME NEW x \in ToSet(s) PROVE x \in ToSet(a) \cup ToSet(b)
  <2>1. PICK i \in 1..Len(s) : s[i] = x
    BY <1>1, <1>2 DEF ToSet
  <2>2. CASE i <= Len(a)
    <3>1. i \in 1..Len(a) /\ a[i] = x
      BY <1>1, <2>1, <2>2
    <3> QED BY <1>1, <3>1 DEF ToSet
  <2>3. CASE ~(i <= Len(a))
    <3>1. i - Len(a) \in 1..Len(b) /\ b[i - Len(a)] = x
      BY <1>1, <2>1, <2>3
    <3> QED BY <1>1, <3>1 DEF ToSet
  <2> QED BY <2>2, <2>3
<1>3. ASSUME NEW x \in ToSet(a) PROVE x \in ToSet(s)
  <2>1. PICK i \in 1..Len(a) : a[i] = x
    BY <1>1, <1>3 DEF ToSet
  <2>2. i \in 1..Len(s) /\ s[i] = x
    BY <1>1, <2>1
  <2> QED BY <1>1, <2>2 DEF ToSet
<1>4. ASSUME NEW x \in ToSet(b) PROVE x \in ToSet(s)
  <2>1. PICK i \in 1..Len(b) : b[i] = x
    BY <1>1, <1>4 DEF ToSet
  <2>2. Len(a) + i \in 1..Len(s) /\ s[Len(a) + i] = b[(Len(a) + i) - Len(a)]
    BY <1>1, <2>1
  <2> QED BY <1>1, <2>1, <2>2 DEF ToSet
<1> QED BY <1>2, <1>3, <1>4 DEF s

(* A row's piece holds the row and what is listed below it.                *)
LEMMA PieceElements ==
  ASSUME NEW D, NEW B, NEW n \in Nodes, n \in B => D[n] \in Seq(Nodes)
  PROVE  /\ Piece(D, B, n) \in Seq(Nodes)
         /\ ToSet(Piece(D, B, n)) = {n} \cup (IF n \in B THEN ToSet(D[n]) ELSE {})
<1>1. ToSet(<<n>>) = {n} /\ <<n>> \in Seq(Nodes)
  BY DEF ToSet
<1>3. CASE n \in B
  <2>1. Piece(D, B, n) = <<n>> \o D[n] /\ D[n] \in Seq(Nodes)
    BY <1>3 DEF Piece
  <2>2. ToSet(<<n>> \o D[n]) = ToSet(<<n>>) \cup ToSet(D[n])
    <3>1. PICK a \in Seq(Nodes), b \in Seq(Nodes) : a = <<n>> /\ b = D[n]
      BY <1>1, <2>1
    <3>2. ToSet(a \o b) = ToSet(a) \cup ToSet(b)
      BY ConcatElements
    <3> QED BY <3>1, <3>2, Zenon
  <2>3. ToSet(Piece(D, B, n)) = {n} \cup ToSet(D[n]) /\ Piece(D, B, n) \in Seq(Nodes)
    BY <1>1, <2>1, <2>2
  <2> QED BY <1>3, <2>3
<1>4. CASE n \notin B
  <2>1. Piece(D, B, n) = <<n>>
    BY <1>4 DEF Piece
  <2> QED BY <1>1, <1>4, <2>1
<1> QED BY <1>3, <1>4

(* What stands in a listing stands in one of its pieces.                   *)
LEMMA ListingElements ==
  ASSUME NEW D, NEW B, NEW s \in Seq(Nodes), Lists(D, B, s)
  PROVE  \A x : x \in ToSet(Listing(D, B, s)) <=>
           \E j \in 1..Len(s) : x = s[j] \/ (s[j] \in B /\ x \in ToSet(D[s[j]]))
<1> DEFINE n == Len(s)
<1>0. n \in Nat
  OBVIOUS
<1>1. PICK acc : Gathers(D, B, s, acc)
  BY ListingSteps
<1>2. /\ acc \in [0..n -> Seq(Nodes)] /\ acc[0] = <<>> /\ Listing(D, B, s) = acc[n]
      /\ \A i \in 1..n : acc[i] = acc[i-1] \o Piece(D, B, s[i])
  BY <1>1 DEF Gathers
<1>3. ASSUME NEW i \in 1..n
      PROVE  /\ Piece(D, B, s[i]) \in Seq(Nodes)
             /\ \A x : x \in ToSet(Piece(D, B, s[i])) <=> x = s[i] \/ (s[i] \in B /\ x \in ToSet(D[s[i]]))
  <2>1. s[i] \in Nodes /\ (s[i] \in B => D[s[i]] \in Seq(Nodes))
    BY <1>3 DEF Lists
  <2> QED BY <2>1, PieceElements
<1> HIDE DEF n
<1> DEFINE In(x, j) == x = s[j] \/ (s[j] \in B /\ x \in ToSet(D[s[j]]))
           S == {i \in Nat : i \in 0..n => \A x : x \in ToSet(acc[i]) <=> \E j \in 1..i : In(x, j)}
<1>4. 0 \in S
  BY <1>2 DEF ToSet
<1>5. ASSUME NEW i \in Nat, i \in S PROVE i + 1 \in S
  <2> SUFFICES ASSUME i + 1 \in 0..n, NEW x
               PROVE  x \in ToSet(acc[i+1]) <=> \E j \in 1..i+1 : In(x, j)
    OBVIOUS
  <2>1. i + 1 \in 1..n /\ (i + 1) - 1 = i /\ i \in 0..n
    BY <1>0
  <2>2. acc[i] \in Seq(Nodes) /\ acc[i+1] = acc[i] \o Piece(D, B, s[i+1])
    BY <1>2, <2>1
  <2>3. x \in ToSet(acc[i]) <=> \E j \in 1..i : In(x, j)
    BY <1>5, <2>1
  <2>4. x \in ToSet(Piece(D, B, s[i+1])) <=> In(x, i + 1)
    BY <1>3, <2>1
  <2>5. ToSet(acc[i+1]) = ToSet(acc[i]) \cup ToSet(Piece(D, B, s[i+1]))
    BY <1>3, <2>1, <2>2, ConcatElements
  <2> HIDE DEF In
  <2>6. (\E j \in 1..i+1 : In(x, j)) <=> (\E j \in 1..i : In(x, j)) \/ In(x, i + 1)
    OBVIOUS
  <2> QED BY <2>3, <2>4, <2>5, <2>6
<1>6. n \in S
  <2> HIDE DEF S
  <2> QED BY <1>0, <1>4, <1>5, Induction
<1>7. \A x : x \in ToSet(acc[n]) <=> \E j \in 1..n : In(x, j)
  BY <1>0, <1>6
<1> QED BY <1>2, <1>7 DEF n

-----------------------------------------------------------------------------
(* Below a container are its children and what is below them.              *)
LEMMA BelowUnfold ==
  ASSUME TreeInv, NEW c \in Containers, NEW m \in Nodes
  PROVE  m \in Below(c) <=> \/ parent[m] = c
                            \/ \E k \in Containers : parent[k] = c /\ m \in Below(k)
<1> DEFINE A(n) == Forest!AncestorsOrSelf(n, parent)
<1>0. /\ parent \in [Nodes -> Containers \cup {NoNode}] /\ Forest!IsForest(parent)
      /\ NoNode \notin Nodes /\ Containers \subseteq Nodes
  BY NodesFacts DEF TreeInv, TypeOK, Acyclic
<1>1. ASSUME parent[m] = c PROVE m \in Below(c)
  <2>1. c # NoNode /\ c \in A(c)
    BY <1>0, AncestorsUnfold
  <2>2. m # c
    BY <1>0, <1>1, <2>1, AncestorsAbove
  <2> QED BY <1>1, <2>1, <2>2 DEF Below
<1>2. ASSUME NEW k \in Containers, parent[k] = c, m \in Below(k) PROVE m \in Below(c)
  <2>1. parent[m] \in Containers /\ k \in A(parent[m]) /\ c # NoNode
    BY <1>0, <1>2 DEF Below
  <2>2. c \in A(k)
    BY <1>0, <1>2, <2>1, AncestorsUnfold
  <2>3. c \in A(parent[m])
    BY <1>0, <2>1, <2>2, AncestorsTransitive
  <2>4. m # c
    BY <1>0, <2>1, <2>3, AncestorsAbove
  <2> QED BY <1>0, <2>1, <2>3, <2>4 DEF Below
<1>3. ASSUME m \in Below(c), parent[m] # c
      PROVE  \E k \in Containers : parent[k] = c /\ m \in Below(k)
  <2> DEFINE p == parent[m]
             T == {q \in A(p) : q # c /\ c \in A(q)}
  <2>1. p \in Containers /\ c \in A(p) /\ p # NoNode
    BY <1>0, <1>3 DEF Below
  <2>2. p \in T
    BY <1>0, <1>3, <2>1, AncestorsUnfold
  <2>3. T \in SUBSET Nodes
    BY <1>0 DEF Forest!AncestorsOrSelf
  <2>4. PICK k \in T : parent[k] \notin T
    BY <1>0, <2>2, <2>3, NodesFacts DEF Forest!IsForest
  <2>5. k \in Containers /\ k \in A(p) /\ k # c /\ c \in A(k)
    BY DEF Forest!AncestorsOrSelf
  <2>6. parent[k] # NoNode /\ c \in A(parent[k]) /\ parent[k] \in Containers
    BY <1>0, <2>5, AncestorsUnfold
  <2>7. parent[k] \in A(p)
    <3>1. parent[k] \in A(k)
      BY <1>0, <2>5, <2>6, AncestorsUnfold
    <3> QED BY <1>0, <2>1, <2>5, <3>1, AncestorsTransitive
  <2>8. parent[k] = c
    BY <2>4, <2>6, <2>7
  <2>9. m # k
    BY <1>0, <2>1, <2>5, AncestorsAbove
  <2> QED BY <2>1, <2>5, <2>8, <2>9 DEF Below
<1> QED BY <1>1, <1>2, <1>3

(* What is below a child is below its parent.                              *)
LEMMA BelowParent ==
  ASSUME TreeInv, NEW r \in Containers, NEW c \in Below(r) \cap Containers, NEW k \in Nodes,
         parent[k] = c
  PROVE  k \in Below(r)
<1>1. /\ parent \in [Nodes -> Containers \cup {NoNode}] /\ Forest!IsForest(parent)
      /\ NoNode \notin Containers
  BY NodesFacts DEF TreeInv, TypeOK, Acyclic
<1>2. r \in Forest!AncestorsOrSelf(c, parent)
  BY <1>1, AncestorsUnfold DEF Below
<1>3. k # r
  BY <1>1, <1>2, AncestorsAbove
<1> QED BY <1>1, <1>2, <1>3 DEF Below

(* Descendants lists the nodes below c and no others.                      *)
LEMMA DescendantsAreBelow ==
  ASSUME TreeInv, NEW c \in Containers
  PROVE  ToSet(Descendants[c]) = Below(c)
<1> DEFINE bad == {d \in Containers : ToSet(Descendants[d]) # Below(d)}
<1> SUFFICES ASSUME bad # {} PROVE FALSE
  OBVIOUS
<1>1. /\ parent \in [Nodes -> Containers \cup {NoNode}] /\ Forest!IsForest(parent)
      /\ Containers \subseteq Nodes /\ NoNode \notin Containers
  BY ChildrenFacts, NodesFacts
<1>2. PICK d \in Containers : d \in bad /\ \A m \in bad : parent[m] # d
  <2>1. bad \in SUBSET Nodes /\ bad # {}
    BY <1>1
  <2> HIDE DEF bad
  <2>2. \E d \in bad : \A m \in bad : parent[m] # d
    BY <1>1, <2>1, LowestNode
  <2> QED BY <2>2 DEF bad
<1> DEFINE s == children[d]
<1>3. s \in Seq(Nodes) /\ Len(s) \in Nat /\ \A i \in 1..Len(s) : s[i] \in Nodes /\ parent[s[i]] = d
  BY ChildrenFacts
<1>4. \A m \in Nodes : parent[m] = d => \E i \in 1..Len(s) : s[i] = m
  BY <1>1, ChildrenFacts
<1>5. Descendants[d] = Listing(Descendants, Containers, s) /\ Lists(Descendants, Containers, s)
      /\ Descendants[d] \in Seq(Nodes)
  BY <1>3, DescendantsUnfold DEF Lists
<1>6. \A k \in Containers : parent[k] = d => ToSet(Descendants[k]) = Below(k)
  BY <1>2
<1> HIDE DEF s
<1>7. \A x : x \in ToSet(Descendants[d]) <=>
        \E j \in 1..Len(s) : x = s[j] \/ (s[j] \in Containers /\ x \in ToSet(Descendants[s[j]]))
  BY <1>3, <1>5, ListingElements
<1>8. ASSUME NEW x \in ToSet(Descendants[d]) PROVE x \in Below(d)
  <2>1. PICK j \in 1..Len(s) : x = s[j] \/ (s[j] \in Containers /\ x \in ToSet(Descendants[s[j]]))
    BY <1>7, <1>8
  <2>2. CASE x = s[j]
    BY <1>3, <2>2, BelowUnfold
  <2>3. CASE s[j] \in Containers /\ x \in ToSet(Descendants[s[j]])
    <3>1. x \in Below(s[j]) /\ x \in Nodes
      BY <1>3, <1>6, <2>3 DEF Below
    <3> QED BY <1>3, <2>3, <3>1, BelowUnfold
  <2> QED BY <2>1, <2>2, <2>3
<1>9. ASSUME NEW x \in Below(d) PROVE x \in ToSet(Descendants[d])
  <2>0. x \in Nodes
    BY DEF Below
  <2>1. CASE parent[x] = d
    BY <1>4, <1>7, <2>0, <2>1
  <2>2. ASSUME NEW k \in Containers, parent[k] = d, x \in Below(k) PROVE x \in ToSet(Descendants[d])
    <3>1. PICK j \in 1..Len(s) : s[j] = k
      BY <1>1, <1>4, <2>2
    <3> QED BY <1>6, <1>7, <2>2, <3>1
  <2> QED BY <1>9, <2>0, <2>1, <2>2, BelowUnfold
<1> QED BY <1>2, <1>8, <1>9

(* t stands in s right behind n.                                           *)
StandsBehind(t, n, s) ==
  \E i \in 1..Len(s) :
    s[i] = n /\ i + Len(t) <= Len(s) /\ \A j \in 1..Len(t) : s[i+j] = t[j]

(* The elements of a concatenation, part by part.                          *)
LEMMA ConcatFacts ==
  ASSUME NEW a \in Seq(Nodes), NEW b \in Seq(Nodes)
  PROVE  /\ a \o b \in Seq(Nodes)
         /\ Len(a) \in Nat /\ Len(b) \in Nat /\ Len(a \o b) = Len(a) + Len(b)
         /\ \A i \in 1..Len(a) : (a \o b)[i] = a[i]
         /\ \A i \in 1..Len(b) : (a \o b)[Len(a) + i] = b[i]
<1>1. ASSUME NEW i \in 1..Len(b) PROVE (a \o b)[Len(a) + i] = b[i]
  <2>1. Len(a) + i \in 1..Len(a) + Len(b) /\ ~(Len(a) + i <= Len(a)) /\ (Len(a) + i) - Len(a) = i
    OBVIOUS
  <2> QED BY <2>1
<1> QED BY <1>1

(* What stands right behind its parent in a part does so in the whole.     *)
LEMMA StandsBehindConcat ==
  ASSUME NEW a \in Seq(Nodes), NEW b \in Seq(Nodes), NEW n, NEW t \in Seq(Nodes)
  PROVE  /\ StandsBehind(t, n, a) => StandsBehind(t, n, a \o b)
         /\ StandsBehind(t, n, b) => StandsBehind(t, n, a \o b)
<1> DEFINE s == a \o b
<1>1. /\ s \in Seq(Nodes) /\ Len(a) \in Nat /\ Len(b) \in Nat /\ Len(s) = Len(a) + Len(b)
      /\ Len(t) \in Nat
      /\ \A i \in 1..Len(a) : s[i] = a[i]
      /\ \A i \in 1..Len(b) : s[Len(a) + i] = b[i]
  BY ConcatFacts
<1> HIDE DEF s
<1>2. ASSUME StandsBehind(t, n, a) PROVE StandsBehind(t, n, s)
  <2>1. PICK i \in 1..Len(a) :
          a[i] = n /\ i + Len(t) <= Len(a) /\ \A j \in 1..Len(t) : a[i+j] = t[j]
    BY <1>2 DEF StandsBehind
  <2>2. i \in 1..Len(s) /\ s[i] = n /\ i + Len(t) <= Len(s)
    BY <1>1, <2>1
  <2>3. ASSUME NEW j \in 1..Len(t) PROVE s[i+j] = t[j]
    <3>1. i + j \in 1..Len(a)
      BY <1>1, <2>1
    <3> QED BY <1>1, <2>1, <3>1
  <2> QED BY <2>2, <2>3 DEF StandsBehind
<1>3. ASSUME StandsBehind(t, n, b) PROVE StandsBehind(t, n, s)
  <2>1. PICK i \in 1..Len(b) :
          b[i] = n /\ i + Len(t) <= Len(b) /\ \A j \in 1..Len(t) : b[i+j] = t[j]
    BY <1>3 DEF StandsBehind
  <2> DEFINE k == Len(a) + i
  <2>2. k \in 1..Len(s) /\ s[k] = n /\ k + Len(t) <= Len(s)
    BY <1>1, <2>1
  <2>3. ASSUME NEW j \in 1..Len(t) PROVE s[k+j] = t[j]
    <3>1. i + j \in 1..Len(b) /\ k + j = Len(a) + (i + j)
      BY <1>1, <2>1
    <3> HIDE DEF k
    <3> QED BY <1>1, <2>1, <3>1
  <2> HIDE DEF k
  <2> QED BY <2>2, <2>3 DEF StandsBehind
<1> QED BY <1>2, <1>3 DEF s

(* Two lists without repeats and with nothing in common make one of them.  *)
LEMMA ConcatInjective ==
  ASSUME NEW a \in Seq(Nodes), NEW b \in Seq(Nodes),
         IsInjective(a), IsInjective(b), ToSet(a) \cap ToSet(b) = {}
  PROVE  IsInjective(a \o b)
<1> DEFINE s == a \o b
<1>1. /\ Len(a) \in Nat /\ Len(b) \in Nat /\ Len(s) = Len(a) + Len(b)
      /\ \A i \in 1..Len(a) : s[i] = a[i]
      /\ \A i \in 1..Len(b) : s[Len(a) + i] = b[i]
      /\ DOMAIN s = 1..Len(s) /\ DOMAIN a = 1..Len(a) /\ DOMAIN b = 1..Len(b)
  BY ConcatFacts
<1> HIDE DEF s
<1>2. \A i \in 1..Len(a), j \in 1..Len(b) : a[i] # b[j]
  BY <1>1 DEF ToSet
<1>3. ASSUME NEW i \in 1..Len(s)
      PROVE  \/ i \in 1..Len(a) /\ s[i] = a[i]
             \/ /\ i - Len(a) \in 1..Len(b) /\ s[i] = b[i - Len(a)]
  <2>1. CASE i <= Len(a)
    BY <1>1, <2>1
  <2>2. CASE ~(i <= Len(a))
    <3>1. i - Len(a) \in 1..Len(b) /\ Len(a) + (i - Len(a)) = i
      BY <1>1, <2>2
    <3> QED BY <1>1, <3>1
  <2> QED BY <2>1, <2>2
<1>4. ASSUME NEW i \in 1..Len(s), NEW j \in 1..Len(s), s[i] = s[j] PROVE i = j
  <2>1. CASE i \in 1..Len(a) /\ s[i] = a[i]
    <3>1. j \in 1..Len(a) /\ s[j] = a[j]
      BY <1>2, <1>3, <1>4, <2>1
    <3> QED BY <1>1, <1>4, <2>1, <3>1 DEF IsInjective
  <2>2. CASE i - Len(a) \in 1..Len(b) /\ s[i] = b[i - Len(a)]
    <3>1. j - Len(a) \in 1..Len(b) /\ s[j] = b[j - Len(a)]
      BY <1>2, <1>3, <1>4, <2>2
    <3>2. i - Len(a) = j - Len(a)
      BY <1>1, <1>4, <2>2, <3>1 DEF IsInjective
    <3> QED BY <1>1, <3>2
  <2> QED BY <1>3, <2>1, <2>2
<1> QED BY <1>1, <1>4 DEF IsInjective, s

(* No node is below two siblings.                                          *)
LEMMA SiblingsApart ==
  ASSUME TreeInv, NEW k \in Nodes, NEW m \in Nodes, k # m,
         parent[k] = parent[m], parent[k] # NoNode
  PROVE  ({k} \cup Below(k)) \cap ({m} \cup Below(m)) = {}
<1> DEFINE A(n) == Forest!AncestorsOrSelf(n, parent)
           T == ({k} \cup Below(k)) \cap ({m} \cup Below(m))
<1>1. /\ parent \in [Nodes -> Containers \cup {NoNode}] /\ Forest!IsForest(parent)
      /\ NoNode \notin Containers /\ Containers \subseteq Nodes
  BY NodesFacts DEF TreeInv, TypeOK, Acyclic
<1> SUFFICES ASSUME T # {} PROVE FALSE
  OBVIOUS
<1>2. PICK x \in Nodes : x \in T /\ parent[x] \notin T
  BY NodesFacts, <1>1 DEF Forest!IsForest, Below
<1>3. x # k /\ x # m
  <2>1. k \notin A(parent[m]) /\ m \notin A(parent[k])
    BY <1>1, AncestorsAbove
  <2> QED BY <1>2, <2>1 DEF Below
<1>4. /\ parent[x] \in Containers
      /\ k \in A(parent[x]) /\ m \in A(parent[x])
  BY <1>1, <1>2, <1>3 DEF Below
<1>5. \A q \in {k, m} : parent[x] \in {q} \cup Below(q)
  <2> SUFFICES ASSUME NEW q \in {k, m}, parent[x] # q PROVE parent[x] \in Below(q)
    OBVIOUS
  <2>1. q \in A(parent[x])
    BY <1>4
  <2>2. parent[parent[x]] # NoNode /\ q \in A(parent[parent[x]])
    BY <1>1, <1>4, <2>1, AncestorsUnfold
  <2> QED BY <1>1, <1>4, <2>2 DEF Below
<1> QED BY <1>2, <1>5

-----------------------------------------------------------------------------
(* A subtree is listed in one piece, its container first.                  *)
InOnePiece(s) ==
  /\ IsInjective(s)
  /\ \A n \in ToSet(s) \cap Containers : StandsBehind(Descendants[n], n, s)

(* A row before the listing of its subtree is a listing in one piece.      *)
LEMMA PieceInOnePiece ==
  ASSUME TreeInv, NEW k \in Nodes, k \in Containers => InOnePiece(Descendants[k])
  PROVE  /\ Piece(Descendants, Containers, k) \in Seq(Nodes)
         /\ InOnePiece(Piece(Descendants, Containers, k))
         /\ ToSet(Piece(Descendants, Containers, k)) = {k} \cup Below(k)
<1> DEFINE p == Piece(Descendants, Containers, k)
           one == <<k>>
<1>0. /\ k \in Containers => Descendants[k] \in Seq(Nodes) /\ ToSet(Descendants[k]) = Below(k)
      /\ one \in Seq(Nodes) /\ Len(one) = 1 /\ one[1] = k /\ IsInjective(one) /\ ToSet(one) = {k}
  BY DescendantsUnfold, DescendantsAreBelow DEF ToSet, IsInjective
<1>1. CASE k \in Containers
  <2> DEFINE d == Descendants[k]
  <2>1. d \in Seq(Nodes) /\ ToSet(d) = Below(k) /\ InOnePiece(d)
    BY <1>0, <1>1
  <2>2. p = one \o d
    BY <1>1 DEF Piece
  <2> HIDE DEF one, p, d
  <2>3. ToSet(p) = {k} \cup Below(k) /\ p \in Seq(Nodes)
    BY <1>0, <2>1, <2>2, ConcatElements, ConcatFacts
  <2>4. IsInjective(p)
    <3>1. k \notin Below(k)
      BY DEF Below
    <3> QED BY <1>0, <2>1, <2>2, <3>1, ConcatInjective DEF InOnePiece
  <2>5. StandsBehind(d, k, p)
    <3>1. /\ Len(d) \in Nat /\ Len(p) = 1 + Len(d) /\ p[1] = k
          /\ \A j \in 1..Len(d) : p[1 + j] = d[j]
      <4>1. /\ Len(d) \in Nat /\ Len(p) = Len(one) + Len(d)
            /\ \A j \in 1..Len(one) : p[j] = one[j]
            /\ \A j \in 1..Len(d) : p[Len(one) + j] = d[j]
        BY <1>0, <2>1, <2>2, ConcatFacts
      <4> QED BY <1>0, <4>1
    <3>2. 1 \in 1..Len(p) /\ 1 + Len(d) <= Len(p)
      BY <3>1
    <3> QED BY <3>1, <3>2 DEF StandsBehind
  <2>6. ASSUME NEW n \in Below(k) \cap Containers PROVE StandsBehind(Descendants[n], n, p)
    <3>1. StandsBehind(Descendants[n], n, d) /\ Descendants[n] \in Seq(Nodes)
      BY <2>1, DescendantsUnfold DEF InOnePiece
    <3> QED BY <1>0, <2>1, <2>2, <3>1, StandsBehindConcat
  <2> QED BY <2>3, <2>4, <2>5, <2>6 DEF InOnePiece, d, p
<1>2. CASE k \notin Containers
  <2>1. p = one
    BY <1>2 DEF Piece
  <2>2. Below(k) = {}
    BY <1>2 DEF Below, Forest!AncestorsOrSelf
  <2> HIDE DEF one, p
  <2> QED BY <1>0, <1>2, <2>1, <2>2 DEF InOnePiece, p
<1> QED BY <1>1, <1>2

(* Every container's listing has each subtree in one piece, without repeats. *)
LEMMA DescendantsInOnePiece ==
  ASSUME TreeInv, NEW c \in Containers
  PROVE  InOnePiece(Descendants[c])
<1> DEFINE bad == {d \in Containers : ~InOnePiece(Descendants[d])}
<1> SUFFICES ASSUME bad # {} PROVE FALSE
  OBVIOUS
<1>1. /\ parent \in [Nodes -> Containers \cup {NoNode}] /\ Forest!IsForest(parent)
      /\ Containers \subseteq Nodes /\ NoNode \notin Containers
  BY ChildrenFacts, NodesFacts
<1>2. PICK d \in Containers : d \in bad /\ \A m \in bad : parent[m] # d
  <2>1. bad \in SUBSET Nodes /\ bad # {}
    BY <1>1
  <2> HIDE DEF bad
  <2>2. \E d \in bad : \A m \in bad : parent[m] # d
    BY <1>1, <2>1, LowestNode
  <2> QED BY <2>2 DEF bad
<1> DEFINE s == children[d]
           n == Len(s)
           p(i) == Piece(Descendants, Containers, s[i])
<1>3. s \in Seq(Nodes) /\ n \in Nat /\ \A i \in 1..n : s[i] \in Nodes /\ parent[s[i]] = d
  BY ChildrenFacts
<1>4. \A i, j \in 1..n : i # j => s[i] # s[j]
  <2>1. IsInjective(s) /\ DOMAIN s = 1..n
    BY <1>3 DEF TreeInv, WellLinked, NoDuplicates
  <2> QED BY <2>1 DEF IsInjective
<1>5. \A k \in Containers : parent[k] = d => InOnePiece(Descendants[k])
  BY <1>2
<1> HIDE DEF s
<1>6. ASSUME NEW i \in 1..n
      PROVE  p(i) \in Seq(Nodes) /\ InOnePiece(p(i)) /\ ToSet(p(i)) = {s[i]} \cup Below(s[i])
  BY <1>3, <1>5, PieceInOnePiece
<1>7. PICK acc : /\ acc \in [0..n -> Seq(Nodes)] /\ acc[0] = <<>> /\ Descendants[d] = acc[n]
                 /\ \A i \in 1..n : acc[i] = acc[i-1] \o p(i)
  <2>1. Descendants[d] = Listing(Descendants, Containers, s) /\ Lists(Descendants, Containers, s)
    BY <1>3, DescendantsUnfold DEF Lists, s
  <2>2. PICK acc : Gathers(Descendants, Containers, s, acc)
    BY <1>3, <2>1, ListingSteps
  <2> QED BY <2>1, <2>2 DEF Gathers
<1> HIDE DEF n, p
<1> DEFINE S == {i \in Nat : i \in 0..n =>
                   /\ InOnePiece(acc[i])
                   /\ \A x \in ToSet(acc[i]) : \E j \in 1..i : x \in {s[j]} \cup Below(s[j])}
<1>8. 0 \in S
  BY <1>7 DEF InOnePiece, IsInjective, ToSet
<1>9. ASSUME NEW i \in Nat, i \in S PROVE i + 1 \in S
  <2> DEFINE a == acc[i]
             q == p(i+1)
  <2> SUFFICES ASSUME i + 1 \in 0..n
               PROVE  /\ InOnePiece(acc[i+1])
                      /\ \A x \in ToSet(acc[i+1]) : \E j \in 1..i+1 : x \in {s[j]} \cup Below(s[j])
    OBVIOUS
  <2>1. i + 1 \in 1..n /\ (i + 1) - 1 = i /\ i \in 0..n /\ 1..i \subseteq 1..n /\ i + 1 \notin 1..i
    BY <1>3
  <2>2. /\ a \in Seq(Nodes) /\ q \in Seq(Nodes) /\ acc[i+1] = a \o q
        /\ InOnePiece(a) /\ InOnePiece(q)
        /\ ToSet(q) = {s[i+1]} \cup Below(s[i+1])
    BY <1>6, <1>7, <1>9, <2>1
  <2>3. \A x \in ToSet(a) : \E j \in 1..i : x \in {s[j]} \cup Below(s[j])
    BY <1>9, <2>1
  <2> HIDE DEF a, q
  <2>4. ToSet(acc[i+1]) = ToSet(a) \cup ToSet(q)
    BY <2>2, ConcatElements
  <2>5. ASSUME NEW x \in ToSet(a), x \in ToSet(q) PROVE FALSE
    <3>1. PICK j \in 1..i : x \in {s[j]} \cup Below(s[j])
      BY <2>3
    <3>2. s[j] # s[i+1] /\ s[j] \in Nodes /\ s[i+1] \in Nodes
          /\ parent[s[j]] = parent[s[i+1]] /\ parent[s[j]] # NoNode
      BY <1>1, <1>3, <1>4, <2>1
    <3> QED BY <2>2, <2>5, <3>1, <3>2, SiblingsApart
  <2>6. IsInjective(acc[i+1])
    BY <2>2, <2>5, ConcatInjective DEF InOnePiece
  <2>7. ASSUME NEW m \in ToSet(acc[i+1]) \cap Containers
        PROVE  StandsBehind(Descendants[m], m, acc[i+1])
    <3>1. Descendants[m] \in Seq(Nodes)
      BY DescendantsUnfold
    <3>2. StandsBehind(Descendants[m], m, a) \/ StandsBehind(Descendants[m], m, q)
      BY <2>2, <2>4 DEF InOnePiece
    <3> QED BY <2>2, <3>1, <3>2, StandsBehindConcat
  <2>8. \A x \in ToSet(acc[i+1]) : \E j \in 1..i+1 : x \in {s[j]} \cup Below(s[j])
    <3>1. 1..i \subseteq 1..i+1 /\ i + 1 \in 1..i+1
      OBVIOUS
    <3> QED BY <2>2, <2>3, <2>4, <3>1
  <2> QED BY <2>6, <2>7, <2>8 DEF InOnePiece
<1>10. n \in S
  <2> HIDE DEF S
  <2> QED BY <1>3, <1>8, <1>9, Induction
<1>11. InOnePiece(acc[n])
  BY <1>3, <1>10
<1> QED BY <1>2, <1>7, <1>11

(* The members of an injective sequence, and where they stand.             *)
LEMMA InjectiveCounts ==
  ASSUME NEW s \in Seq(Nodes), IsInjective(s)
  PROVE  /\ Len(s) \in Nat /\ Cardinality(ToSet(s)) = Len(s)
         /\ \A i \in 1..Len(s) : SelectInSeq(s, LAMBDA m : m = s[i]) = i
<1>1. Len(s) \in Nat /\ DOMAIN s = 1..Len(s) /\ s \in [1..Len(s) -> Nodes]
  OBVIOUS
<1>2. s \in Bijection(1..Len(s), ToSet(s))
  <2>1. s \in [1..Len(s) -> ToSet(s)]
    BY <1>1 DEF ToSet
  <2> QED BY <1>1, <2>1 DEF Bijection, Injection, Surjection, ToSet
<1>3. Cardinality(ToSet(s)) = Len(s)
  BY <1>1, <1>2, FS_CountingElements DEF ExistsBijection
<1>4. ASSUME NEW i \in 1..Len(s) PROVE SelectInSeq(s, LAMBDA m : m = s[i]) = i
  <2> DEFINE I == {j \in 1..Len(s) : s[j] = s[i]}
  <2>1. SelectInSeq(s, LAMBDA m : m = s[i]) = IF I # {} THEN Min(I) ELSE 0
    BY DEF SelectInSeq
  <2>2. I = {i}
    BY <1>1 DEF IsInjective
  <2>3. Min({i}) = i
    BY <1>1 DEF Min
  <2> QED BY <2>1, <2>2, <2>3
<1> QED BY <1>1, <1>3, <1>4

(* Descendants is such a list: whoever holds TreeInv has DescendantsOnce.  *)
LEMMA DescendantsHold == TreeInv => DescendantsOnce
<1> SUFFICES ASSUME TreeInv, NEW c \in Containers
             PROVE  LET s == Descendants[c]
                        At(n) == SelectInSeq(s, LAMBDA m : m = n)
                    IN  /\ Len(s) = Cardinality(Below(c))
                        /\ ToSet(s) = Below(c)
                        /\ \A n \in Below(c) :
                             {At(m) : m \in Below(n)} = At(n)+1 .. At(n)+Cardinality(Below(n))
  BY DEF DescendantsOnce
<1> DEFINE s == Descendants[c]
           At(n) == SelectInSeq(s, LAMBDA m : m = n)
<1>1. /\ s \in Seq(Nodes) /\ IsInjective(s) /\ ToSet(s) = Below(c)
      /\ \A n \in Below(c) \cap Containers : StandsBehind(Descendants[n], n, s)
  BY DescendantsUnfold, DescendantsAreBelow, DescendantsInOnePiece DEF InOnePiece
<1> HIDE DEF s
<1>2. Len(s) \in Nat /\ Len(s) = Cardinality(Below(c)) /\ \A i \in 1..Len(s) : At(s[i]) = i
  BY <1>1, InjectiveCounts
<1>3. ASSUME NEW n \in Below(c)
      PROVE  {At(m) : m \in Below(n)} = At(n)+1 .. At(n)+Cardinality(Below(n))
  <2>1. CASE n \in Containers
    <3> DEFINE t == Descendants[n]
    <3>1. t \in Seq(Nodes) /\ IsInjective(t) /\ ToSet(t) = Below(n) /\ StandsBehind(t, n, s)
      BY <1>1, <2>1, DescendantsUnfold, DescendantsAreBelow, DescendantsInOnePiece DEF InOnePiece
    <3> HIDE DEF t
    <3>2. Len(t) \in Nat /\ Cardinality(Below(n)) = Len(t)
      BY <3>1, InjectiveCounts
    <3>3. PICK i \in 1..Len(s) :
            s[i] = n /\ i + Len(t) <= Len(s) /\ \A j \in 1..Len(t) : s[i+j] = t[j]
      BY <3>1 DEF StandsBehind
    <3>4. At(n) = i
      <4> HIDE DEF At
      <4> QED BY <1>2, <3>3
    <3>5. \A j \in 1..Len(t) : At(t[j]) = i + j
      <4> SUFFICES ASSUME NEW j \in 1..Len(t) PROVE At(t[j]) = i + j
        OBVIOUS
      <4>1. i + j \in 1..Len(s) /\ s[i+j] = t[j]
        BY <1>2, <3>2, <3>3
      <4>2. At(s[i+j]) = i + j
        BY <1>2, <4>1
      <4> QED BY <4>1, <4>2
    <3> HIDE DEF At
    <3>6. Below(n) = {t[j] : j \in 1..Len(t)}
      BY <3>1 DEF ToSet
    <3>7. {At(m) : m \in Below(n)} = {i + j : j \in 1..Len(t)}
      BY <3>5, <3>6
    <3>8. {i + j : j \in 1..Len(t)} = i+1 .. i+Len(t)
      <4>1. ASSUME NEW x \in i+1 .. i+Len(t) PROVE x \in {i + j : j \in 1..Len(t)}
        <5>1. x - i \in 1..Len(t) /\ i + (x - i) = x
          BY <3>2, <4>1
        <5> QED BY <5>1
      <4>2. ASSUME NEW j \in 1..Len(t) PROVE i + j \in i+1 .. i+Len(t)
        BY <3>2
      <4> QED BY <4>1, <4>2
    <3> QED BY <3>2, <3>4, <3>7, <3>8
  <2>2. CASE n \notin Containers
    <3>1. Below(n) = {}
      BY <2>2 DEF Below, Forest!AncestorsOrSelf
    <3>2. Cardinality(Below(n)) = 0
      BY <3>1, FS_EmptySet
    <3>3. At(n) \in Nat
      <4>1. PICK i \in 1..Len(s) : s[i] = n
        BY <1>1 DEF ToSet
      <4>2. At(s[i]) = i
        BY <1>2
      <4> QED BY <4>1, <4>2
    <3> HIDE DEF At
    <3>4. At(n)+1 .. At(n)+0 = {}
      BY <3>3
    <3> QED BY <3>1, <3>2, <3>4
  <2> QED BY <2>1, <2>2
<1> QED BY <1>1, <1>2, <1>3 DEF s

(* Descendants lists every node below a container exactly once, each parent *)
(* before its children and each subtree in one piece, in any reachable tree. *)
THEOREM DescendantsAlwaysOnce == Spec => []DescendantsOnce
<1>1. Init => TreeInv
  BY TreeInit
<1>2. TreeInv /\ [TreeNext]_treeVars => TreeInv'
  BY TreeStep
<1> QED BY <1>1, <1>2, DescendantsHold, PTL DEF Spec

(***************************************************************************)
(* One call, one node.                                                     *)
(***************************************************************************)
(* Leaving one node out of a list without repeats.                         *)
LEMMA OthersFacts ==
  ASSUME NEW s \in Seq(Nodes), IsInjective(s), NEW n
  PROVE  /\ n \notin ToSet(s) => Others(s, n) = s
         /\ \A i \in 1..Len(s) : s[i] = n => Others(s, n) = RemoveAt(s, i)
<1>1. Len(s) \in Nat /\ DOMAIN s = 1..Len(s)
  OBVIOUS
<1>2. ASSUME n \notin ToSet(s) PROVE Others(s, n) = s
  <2>1. ~ \E i \in 1..Len(s) : s[i] = n
    BY <1>1, <1>2 DEF ToSet
  <2> QED BY <2>1 DEF Others, RemoveFirst
<1>3. ASSUME NEW i \in 1..Len(s), s[i] = n PROVE Others(s, n) = RemoveAt(s, i)
  <2> DEFINE at == SelectInSeq(s, LAMBDA v : v = n)
             I == {j \in 1..Len(s) : s[j] = n}
  <2>1. at = IF I # {} THEN Min(I) ELSE 0
    BY DEF SelectInSeq
  <2>2. I = {i}
    BY <1>1, <1>3 DEF IsInjective
  <2>3. Min({i}) = i
    BY <1>1 DEF Min
  <2>4. at = i
    BY <2>1, <2>2, <2>3
  <2>5. Others(s, n) = RemoveAt(s, at)
    BY <1>3 DEF Others, RemoveFirst
  <2> HIDE DEF at
  <2> QED BY <2>4, <2>5
<1> QED BY <1>2, <1>3

(* Removing a node and then leaving it out is leaving it out.              *)
LEMMA OthersAfterRemoveAt ==
  ASSUME NEW s \in Seq(Nodes), IsInjective(s), NEW i \in 1..Len(s)
  PROVE  Others(RemoveAt(s, i), s[i]) = RemoveAt(s, i) /\ Others(s, s[i]) = RemoveAt(s, i)
<1>1. /\ RemoveAt(s, i) \in Seq(Nodes) /\ IsInjective(RemoveAt(s, i))
      /\ s[i] \notin ToSet(RemoveAt(s, i))
  BY RemoveAtElements, RemoveAtInjective
<1> QED BY <1>1, OthersFacts

(* Inserting a node and then leaving it out gives the list there was.      *)
LEMMA OthersAfterInsertAt ==
  ASSUME NEW s \in Seq(Nodes), IsInjective(s), NEW n \in Nodes, n \notin ToSet(s),
         NEW i \in 1..Len(s) + 1
  PROVE  Others(InsertAt(s, i, n), n) = s
<1> DEFINE t == InsertAt(s, i, n)
<1>1. /\ t \in Seq(Nodes) /\ IsInjective(t) /\ Len(t) = Len(s) + 1
      /\ \A j \in 1..Len(s) + 1 : t[j] = IF j < i THEN s[j] ELSE IF j = i THEN n ELSE s[j-1]
  BY InsertAtElements, InsertAtInjective
<1> HIDE DEF t
<1>2. i \in 1..Len(t) /\ t[i] = n /\ Len(s) \in Nat
  BY <1>1
<1>3. Others(t, n) = RemoveAt(t, i)
  BY <1>1, <1>2, OthersFacts
<1>4. /\ RemoveAt(t, i) \in Seq(Nodes) /\ Len(RemoveAt(t, i)) = Len(s)
      /\ \A j \in 1..Len(s) : RemoveAt(t, i)[j] = IF j < i THEN t[j] ELSE t[j+1]
  <2>1. Len(t) - 1 = Len(s)
    BY <1>1, <1>2
  <2> QED BY <1>1, <1>2, <2>1, RemoveAtElements
<1>5. \A j \in 1..Len(s) : RemoveAt(t, i)[j] = s[j]
  <2> SUFFICES ASSUME NEW j \in 1..Len(s) PROVE RemoveAt(t, i)[j] = s[j]
    OBVIOUS
  <2>1. j \in 1..Len(s) + 1 /\ j + 1 \in 1..Len(s) + 1 /\ (j + 1) - 1 = j /\ i \in Nat
    BY <1>2
  <2>2. CASE j < i
    BY <1>1, <1>4, <2>1, <2>2
  <2>3. CASE ~(j < i)
    <3>1. ~(j + 1 < i) /\ j + 1 # i
      BY <2>1, <2>3
    <3>2. RemoveAt(t, i)[j] = t[j+1]
      BY <1>4, <2>3
    <3>3. t[j+1] = s[(j+1)-1]
      BY <1>1, <2>1, <3>1
    <3> QED BY <2>1, <3>2, <3>3
  <2> QED BY <2>2, <2>3
<1>6. RemoveAt(t, i) = s
  BY <1>2, <1>4, <1>5
<1> QED BY <1>3, <1>6 DEF t

-----------------------------------------------------------------------------
(* What the step did to one node at most.                                  *)
MovesOnly(n) ==
  /\ \A c \in Containers : Others(children[c], n) = Others(children'[c], n)
  /\ \A m \in Nodes \ {n} : parent'[m] = parent[m]

(* Detaching a node changes no sibling list but by that node.              *)
LEMMA DetachedOthers ==
  ASSUME TypeOK, WellLinked, NEW n \in Nodes, NEW c \in Containers
  PROVE  Others(Detached(n)[c], n) = Others(children[c], n)
<1> DEFINE s == children[c]
           i == IndexOf(c, n)
<1>1. s \in Seq(Nodes) /\ IsInjective(s)
  BY DEF TypeOK, WellLinked, NoDuplicates
<1>2. CASE parent[n] = c
  <2>1. i \in 1..Len(s) /\ s[i] = n
    BY <1>2, IndexOfIsPosition DEF WellLinked, LinksAgree
  <2>2. Detached(n)[c] = RemoveAt(s, i)
    BY <1>2, NodesFacts DEF Detached, Without, TypeOK
  <2> HIDE DEF s, i
  <2> QED BY <1>1, <2>1, <2>2, OthersAfterRemoveAt DEF s
<1>3. CASE parent[n] # c
  <2>1. Detached(n)[c] = s
    BY <1>3 DEF Detached, Without, TypeOK
  <2> QED BY <2>1
<1> QED BY <1>2, <1>3

(* InsertChildAt moves the child and nothing else.                         *)
LEMMA InsertMovesOne ==
  ASSUME TreeInv, NEW c \in Containers, NEW h \in Handles \cup {NilHandle}, NEW index,
         InsertChild(c, index, h)
  PROVE  \E n \in Nodes : MovesOnly(n)
<1>1. CASE InsertError(c, index, h) # "insert"
  <2>1. c \in Nodes /\ parent' = parent /\ children' = children
    BY <1>1, NodesFacts DEF InsertChild
  <2> QED BY <2>1 DEF MovesOnly
<1>2. CASE InsertError(c, index, h) = "insert"
  <2> DEFINE n == h.node
             s == children[c]
  <2>1. index \in 0..Len(s) /\ n \in Nodes /\ parent[n] # c
    BY <1>2, InsertPreconditions
  <2>2. /\ parent' = [parent EXCEPT ![n] = c]
        /\ children' = [Detached(n) EXCEPT ![c] = InsertAt(@, index + 1, n)]
    BY <1>2 DEF InsertChild
  <2> HIDE DEF n
  <2>3. /\ Detached(n) \in [Containers -> Seq(Nodes)] /\ Detached(n)[c] = s
        /\ s \in Seq(Nodes) /\ IsInjective(s) /\ n \notin ToSet(s)
    BY <2>1, DetachedFacts DEF TreeInv, TypeOK, WellLinked, NoDuplicates, LinksAgree
  <2>4. Others(children'[c], n) = Others(s, n)
    <3>1. children'[c] = InsertAt(s, index + 1, n)
      BY <2>2, <2>3
    <3>2. index + 1 \in 1..Len(s) + 1
      BY <2>1, <2>3
    <3> HIDE DEF s
    <3> QED BY <2>1, <2>3, <3>1, <3>2, OthersAfterInsertAt, OthersFacts
  <2>5. ASSUME NEW k \in Containers, k # c PROVE Others(children'[k], n) = Others(children[k], n)
    <3>1. children'[k] = Detached(n)[k]
      BY <2>2, <2>3, <2>5
    <3> QED BY <2>1, <3>1, DetachedOthers DEF TreeInv
  <2>6. \A m \in Nodes \ {n} : parent'[m] = parent[m]
    BY <2>2 DEF TreeInv, TypeOK
  <2> QED BY <2>1, <2>4, <2>5, <2>6 DEF MovesOnly
<1> QED BY <1>1, <1>2

(* RemoveChild moves the child and nothing else.                           *)
LEMMA RemoveMovesOne ==
  ASSUME TreeInv, NEW c \in Containers, NEW h \in Handles \cup {NilHandle}, RemoveChild(c, h)
  PROVE  \E n \in Nodes : MovesOnly(n)
<1> DEFINE n == h.node
<1>1. CASE IndexOf(c, n) = 0
  <2>1. c \in Nodes /\ parent' = parent /\ children' = children
    BY <1>1, NodesFacts DEF RemoveChild
  <2> QED BY <2>1 DEF MovesOnly
<1>2. CASE IndexOf(c, n) # 0
  <2>1. n \in ToSet(children[c])
    BY <1>2, IndexOfIsPosition DEF TreeInv, WellLinked
  <2>2. n \in Nodes
    BY <2>1 DEF TreeInv, TypeOK, ToSet
  <2>3. parent[n] = c
    BY <2>1, <2>2 DEF TreeInv, WellLinked, LinksAgree
  <2>4. /\ children' = Without(c, n)
        /\ parent' = [parent EXCEPT ![n] = NoNode]
    BY <1>2 DEF RemoveChild
  <2> HIDE DEF n
  <2>5. children' = Detached(n)
    BY <2>2, <2>3, <2>4, NodesFacts DEF Detached
  <2>6. \A k \in Containers : Others(children'[k], n) = Others(children[k], n)
    BY <2>2, <2>5, DetachedOthers DEF TreeInv
  <2>7. \A m \in Nodes \ {n} : parent'[m] = parent[m]
    BY <2>4 DEF TreeInv, TypeOK
  <2> QED BY <2>2, <2>6, <2>7 DEF MovesOnly
<1> QED BY <1>1, <1>2

(* A sibling call moves the one sibling and nothing else.                  *)
LEMMA RepositionMovesOne ==
  ASSUME TreeInv, NEW c \in Containers, NEW h \in Handles \cup {NilHandle}, NEW index \in Int,
         SetChildPosition(c, h, index)
  PROVE  \E n \in Nodes : MovesOnly(n)
<1> DEFINE n == h.node
           s == children[c]
           i == IndexOf(c, n)
           rest == RemoveAt(s, i)
           at == IF index > Len(rest) THEN Len(rest) ELSE index
<1>1. CASE index < 0 \/ i = 0 \/ i - 1 = index
  <2>1. c \in Nodes /\ parent' = parent /\ children' = children
    BY <1>1, NodesFacts DEF SetChildPosition
  <2> QED BY <2>1 DEF MovesOnly
<1>2. CASE ~(index < 0 \/ i = 0 \/ i - 1 = index)
  <2>1. /\ parent' = parent
        /\ children' = [children EXCEPT ![c] = Repositioned(s, i, index)]
    BY <1>2 DEF SetChildPosition
  <2>2. n \in ToSet(s) /\ i \in 1..Len(s) /\ s[i] = n
    BY <1>2, IndexOfIsPosition DEF TreeInv, WellLinked
  <2>3. s \in Seq(Nodes) /\ IsInjective(s) /\ n \in Nodes
    BY <2>2 DEF TreeInv, TypeOK, WellLinked, NoDuplicates, ToSet
  <2>4. \A k \in Containers \ {c} : children'[k] = children[k]
    BY <2>1 DEF TreeInv, TypeOK
  <2>5. children'[c] = Repositioned(s, i, index)
    BY <2>1 DEF TreeInv, TypeOK
  <2> HIDE DEF n, s, i
  <2>6. Repositioned(s, i, index) = InsertAt(rest, at + 1, n)
    BY <2>2 DEF Repositioned
  <2>7. /\ rest \in Seq(Nodes) /\ IsInjective(rest) /\ n \notin ToSet(rest)
        /\ Others(s, n) = rest
    BY <2>2, <2>3, RemoveAtElements, RemoveAtInjective, OthersAfterRemoveAt
  <2> HIDE DEF rest
  <2>8. at + 1 \in 1..Len(rest) + 1
    BY <1>2, <2>7
  <2> HIDE DEF at
  <2>9. Others(children'[c], n) = Others(s, n)
    BY <2>3, <2>5, <2>6, <2>7, <2>8, OthersAfterInsertAt
  <2> QED BY <2>1, <2>3, <2>4, <2>9 DEF MovesOnly, s
<1> QED BY <1>1, <1>2

(* Each operation of the tree moves one node at most.                      *)
LEMMA StepMovesOne == TreeInv /\ TreeNext => \E n \in Nodes : MovesOnly(n)
<1> SUFFICES ASSUME TreeInv, TreeNext PROVE \E n \in Nodes : MovesOnly(n)
  OBVIOUS
<1>1. PICK c \in Containers, h \in Handles \cup {NilHandle} :
        \/ \E index \in Indices(c) : InsertChild(c, index, h)
        \/ AddChild(c, h)
        \/ \E reference \in Nodes \cup {NoNode} : AddChildAbove(c, h, reference)
        \/ \E reference \in Nodes \cup {NoNode} : AddChildBelow(c, h, reference)
        \/ RemoveChild(c, h)
        \/ \E index \in Indices(c) : SetChildPosition(c, h, index)
  BY DEF TreeNext
<1>2. CASE \E index : InsertChild(c, index, h)
  BY <1>2, InsertMovesOne
<1>3. CASE RemoveChild(c, h)
  BY <1>3, RemoveMovesOne
<1>4. CASE \E index \in Indices(c) : SetChildPosition(c, h, index)
  <2>1. PICK index \in Indices(c) : SetChildPosition(c, h, index)
    BY <1>4
  <2>2. index \in Int
    BY DEF Indices, TreeInv, TypeOK
  <2> QED BY <2>1, <2>2, RepositionMovesOne
<1> QED BY <1>1, <1>2, <1>3, <1>4 DEF AddChild, AddChildAbove, AddChildBelow

(* No call moves, adds or drops any node but the one it is given: the other *)
(* nodes keep their parents and their order among their siblings.          *)
THEOREM OnlyOneNodeMoves == Spec => OneNodeMoves
<1>1. Init => TreeInv
  BY TreeInit
<1>2. TreeInv /\ [TreeNext]_treeVars => TreeInv'
  BY TreeStep
<1>3. TreeInv /\ [TreeNext]_treeVars
        => [\E n \in Nodes :
              /\ \A c \in Containers : Others(children[c], n) = Others(children'[c], n)
              /\ \A m \in Nodes \ {n} : parent'[m] = parent[m]]_treeVars
  BY StepMovesOne DEF MovesOnly
<1> QED BY <1>1, <1>2, <1>3, PTL DEF Spec, OneNodeMoves
=============================================================================
