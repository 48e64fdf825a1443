------------------------------- MODULE Forest -------------------------------
(***************************************************************************)
(* What the connection tree promises its users (the UI, the serializers    *)
(* and the inheritance resolver): nodes hang below containers, the tree    *)
(* links never form a cycle, a root hangs below nothing, and one operation *)
(* moves or detaches one node together with everything below it.           *)
(*                                                                         *)
(* ConnectionTree is shown to implement this specification.                *)
(***************************************************************************)
EXTENDS Naturals

CONSTANTS Containers,   \* every ContainerInfo, the roots included
          Roots,        \* the containers built by NewRootInfo
          Leaves,       \* the connections that are not containers
          NoNode        \* Go's nil

Nodes == Containers \cup Leaves

VARIABLE parent   \* [Nodes -> Containers \cup {NoNode}]

(* No cycle: in every non-empty set of nodes, some node's parent lies      *)
(* outside the set.                                                        *)
IsForest(up) == \A S \in SUBSET Nodes : S # {} => \E n \in S : up[n] \notin S

(* A set that contains the parent of each of its members.                  *)
ClosedUpwards(S, up) == \A n \in S : up[n] \in S \cup {NoNode}

(* The least set that contains c and the parent of each of its members:    *)
(* c, c.Parent(), c.Parent().Parent(), ...                                 *)
AncestorsOrSelf(c, up) ==
  {n \in Containers : \A S \in SUBSET Containers :
                        c \in S /\ ClosedUpwards(S, up) => n \in S}

Init == parent = [n \in Nodes |-> NoNode]

(* A node (never a root) moves below c, unless that would close a cycle.   *)
Move(n, c) ==
  /\ n \notin Roots
  /\ parent' = [parent EXCEPT ![n] = c]
  /\ IsForest(parent')

Detach(n) == parent' = [parent EXCEPT ![n] = NoNode]

Next == \E n \in Nodes : Detach(n) \/ \E c \in Containers : Move(n, c)

Spec == Init /\ [][Next]_parent
=============================================================================
