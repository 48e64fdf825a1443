--------------------------- MODULE ConnectionTree ---------------------------
(***************************************************************************)
(* internal/connection/tree.go: the homogeneous tree of connections and    *)
(* containers.  A ContainerInfo keeps an ordered slice of children, and    *)
(* every ConnectionInfo a back pointer to its parent; the operations below *)
(* are the only code that writes either, so they must keep the two in      *)
(* agreement.  `outcome' is what the last call returned.                   *)
(***************************************************************************)
EXTENDS Integers, Sequences, FiniteSets, SequencesExt

CONSTANTS Containers, Roots, Leaves, NoNode

VARIABLES parent,     \* ConnectionInfo.parent
          children,   \* ContainerInfo.children
          outcome     \* the last call's result

treeVars == <<parent, children, outcome>>

Forest == INSTANCE Forest

ASSUME TreeAssumption ==
  /\ Roots \subseteq Containers
  /\ Containers \cap Leaves = {}
  /\ NoNode \notin Containers \cup Leaves

Nodes == Containers \cup Leaves

(* A program's memory holds finitely many nodes.                           *)
ASSUME FinitelyManyNodes == IsFiniteSet(Nodes)

(* The values a Node interface can hold: nil, a node itself, or the leaf   *)
(* *ConnectionInfo inside a container (what container.Base() returns).     *)
Handles == [node : Containers, viaBase : BOOLEAN] \cup [node : Leaves, viaBase : {TRUE}]
NilHandle == [node |-> NoNode, viaBase |-> FALSE]

Errors == {"ErrInvalidIndex", "ErrNilNode", "ErrNodeAlias", "ErrRootChild", "ErrCycle"}
Outcomes == Errors \cup {"nil", "true", "false"}

Init ==
  /\ parent = [n \in Nodes |-> NoNode]
  /\ children = [c \in Containers |-> <<>>]
  /\ outcome = "nil"

-----------------------------------------------------------------------------
(* Position of n among c's children, 0 when it is not one of them.         *)
IndexOf(c, n) == SelectInSeq(children[c], LAMBDA m : m = n)

(* MUTANT: only a node put into itself is noticed, not into its subtree.   *)
WouldContainItself(c, n) == n = c

(* The loop of wouldCreateCycle visits c and its ancestors.                *)
WouldCreateCycle(c, n) == n \in Forest!AncestorsOrSelf(c, parent)

(* MUTANT: the check that only a non-root moves below a container is gone. *)
ValidatedNodeOrRoot(h) ==
  IF h = NilHandle THEN "ErrNilNode"
  ELSE IF h.node \in Containers /\ h.viaBase THEN "ErrNodeAlias" ELSE "nil"

ValidatedNodeBase(h) ==
  IF h = NilHandle THEN "ErrNilNode"
  ELSE IF h.node \in Containers /\ h.viaBase THEN "ErrNodeAlias"
  ELSE IF h.node \in Roots THEN "ErrRootChild" ELSE "nil"

(* The early returns of InsertChild, in the order of the code.             *)
InsertError(c, index, h) ==
  IF index \notin 0..Len(children[c]) THEN "ErrInvalidIndex"
  ELSE IF ValidatedNodeBase(h) # "nil" THEN ValidatedNodeBase(h)
  ELSE IF parent[h.node] = c THEN "nil"
  ELSE IF WouldCreateCycle(c, h.node) THEN "ErrCycle" ELSE "insert"

(* MUTANT: the slot of the removed child is cleared, the rest not shifted. *)
Cleared(c, n) ==
  IF IndexOf(c, n) = 0 THEN children ELSE [children EXCEPT ![c][IndexOf(c, n)] = NoNode]

(* The children of every container once removeChild has taken n out of c   *)
(* (RemoveAt(s, 0) is s).                                                  *)
Without(c, n) == [children EXCEPT ![c] = RemoveAt(@, IndexOf(c, n))]

(* MUTANT: InsertChild forgets to take the child out of its former parent. *)
StillAttached(n) == children

(* ... and once n has left its parent, if it had one.                      *)
Detached(n) == IF parent[n] = NoNode THEN children ELSE Without(parent[n], n)

InsertChild(c, index, h) ==
  LET error == InsertError(c, index, h)
  IN  IF error # "insert"
      THEN outcome' = error /\ UNCHANGED <<parent, children>>
      ELSE /\ parent' = [parent EXCEPT ![h.node] = c]
           /\ children' = [Detached(h.node) EXCEPT ![c] = InsertAt(@, index + 1, h.node)]
           /\ outcome' = "nil"

AddChild(c, h) == InsertChild(c, Len(children[c]), h)

AddChildAbove(c, h, reference) ==
  LET i == IndexOf(c, reference)
  IN  InsertChild(c, IF i = 0 THEN Len(children[c]) ELSE i - 1, h)

AddChildBelow(c, h, reference) ==
  LET i == IndexOf(c, reference)
  IN  InsertChild(c, IF i = 0 THEN Len(children[c]) ELSE i, h)

RemoveChild(c, h) ==
  IF IndexOf(c, h.node) = 0
  THEN outcome' = "false" /\ UNCHANGED <<parent, children>>
  ELSE /\ children' = Without(c, h.node)
       /\ parent' = [parent EXCEPT ![h.node] = NoNode]
       /\ outcome' = "true"

(* MUTANT: the child and the one at the new position trade places.         *)
Swapped(s, i, newIndex) ==
  LET at == IF newIndex >= Len(s) THEN Len(s) ELSE newIndex + 1
  IN  [s EXCEPT ![i] = s[at], ![at] = s[i]]

(* The element at i moved to the zero-based newIndex, which is clamped     *)
(* once the element has been taken out.                                    *)
Repositioned(s, i, newIndex) ==
  LET rest == RemoveAt(s, i)
      at == IF newIndex > Len(rest) THEN Len(rest) ELSE newIndex
  IN  InsertAt(rest, at + 1, s[i])

SetChildPosition(c, h, newIndex) ==
  LET i == IndexOf(c, h.node)
  IN  /\ UNCHANGED parent
      /\ IF newIndex < 0 \/ i = 0 \/ i - 1 = newIndex
         THEN outcome' = "false" /\ UNCHANGED children
         ELSE /\ children' = [children EXCEPT ![c] = Repositioned(@, i, newIndex)]
              /\ outcome' = "true"

(* MUTANT: postorder.                                                      *)
ListedLast(child, below) == below \o <<child>>

ListedFirst(child, below) == <<child>> \o below

(* The preorder of Descendants, as the recursion of the code builds it.    *)
Descendants[c \in Containers] ==
  FoldLeft(LAMBDA out, child : out \o ListedFirst(child,
                                 IF child \in Containers THEN Descendants[child] ELSE <<>>),
           <<>>, children[c])

(* Indices a caller can pass: one beyond either end of the children.       *)
Indices(c) == -1 .. Len(children[c]) + 1

TreeNext ==
  \E c \in Containers, h \in Handles \cup {NilHandle} :
    \/ \E index \in Indices(c) : InsertChild(c, index, h)
    \/ AddChild(c, h)
    \/ \E reference \in Nodes \cup {NoNode} : AddChildAbove(c, h, reference)
    \/ \E reference \in Nodes \cup {NoNode} : AddChildBelow(c, h, reference)
    \/ RemoveChild(c, h)
    \/ \E index \in Indices(c) : SetChildPosition(c, h, index)

Spec == Init /\ [][TreeNext]_treeVars

-----------------------------------------------------------------------------
(* The state has the types of the fields of ConnectionInfo/ContainerInfo.  *)
TypeOK ==
  /\ parent \in [Nodes -> Containers \cup {NoNode}]
  /\ children \in [Containers -> Seq(Nodes)]
  /\ outcome \in Outcomes

(* A node's back pointer names exactly the container that lists it, and no *)
(* container lists a node twice.                                           *)
LinksAgree ==
  \A c \in Containers, n \in Nodes : parent[n] = c <=> n \in ToSet(children[c])

NoDuplicates == \A c \in Containers : IsInjective(children[c])

WellLinked == LinksAgree /\ NoDuplicates

RootsDetached == \A r \in Roots : parent[r] = NoNode

(* No node is its own ancestor.                                            *)
Acyclic == Forest!IsForest(parent)

(* What every operation relies on and keeps.                               *)
TreeInv == TypeOK /\ WellLinked /\ RootsDetached /\ Acyclic

Below(n) == {m \in Nodes : m # n /\ parent[m] # NoNode
                            /\ n \in Forest!AncestorsOrSelf(parent[m], parent)}

Others(s, n) == RemoveFirst(s, n)

(* The loop of wouldCreateCycle, `current = current.Parent()', ends within *)
(* as many turns as there are containers, whatever calls came before, and  *)
(* visits exactly the ancestors the cycle check is about.                  *)
ClimbEnds ==
  \A c \in Containers :
    LET turns == Cardinality(Containers)
        Current[k \in 0..turns] ==
          IF k = 0 THEN c
          ELSE IF Current[k-1] = NoNode THEN NoNode ELSE parent[Current[k-1]]
    IN  /\ Current[turns] = NoNode
        /\ {Current[k] : k \in 0..turns} \ {NoNode} = Forest!AncestorsOrSelf(c, parent)

(* Descendants (and Walk, which adds the start) lists every node below c   *)
(* exactly once, each one after its container and before whatever follows  *)
(* that container's subtree.                                               *)
DescendantsOnce ==
  \A c \in Containers :
    LET s == Descendants[c]
        At(n) == SelectInSeq(s, LAMBDA m : m = n)
    IN  /\ Len(s) = Cardinality(Below(c))
        /\ ToSet(s) = Below(c)
        /\ \A n \in Below(c) : {At(m) : m \in Below(n)} = At(n)+1 .. At(n)+Cardinality(Below(n))

(* A call moves at most one node: every sibling list, without that node,   *)
(* keeps its members and their order.                                      *)
OneNodeMoves ==
  [][\E n \in Nodes :
       /\ \A c \in Containers : Others(children[c], n) = Others(children'[c], n)
       /\ \A m \in Nodes \ {n} : parent'[m] = parent[m]]_treeVars

(* The tree implements the abstract forest: every call moves one node      *)
(* where no cycle arises, detaches one, or leaves the parents alone.       *)
ImplementsForest == Forest!Spec
=============================================================================
