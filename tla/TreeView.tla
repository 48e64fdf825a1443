------------------------------ MODULE TreeView ------------------------------
(***************************************************************************)
(* internal/ui/tree.go: the tree widget's view of a root.  It keeps an     *)
(* index of the nodes it found when it was last loaded, hears nothing of   *)
(* the tree's later changes, and answers the widget's questions from the   *)
(* index and the live children.  A node stands for its ID.                 *)
(***************************************************************************)
EXTENDS ConnectionTree

VARIABLES viewRoot,    \* ConnectionTree.root
          nodes        \* the keys of ConnectionTree.nodes

viewVars == <<viewRoot, nodes>>
treeViewVars == <<treeVars, viewVars>>

(* A new view of a new root, which has no children.                        *)
ViewInit == Init /\ viewRoot \in Roots /\ nodes = {}

-----------------------------------------------------------------------------
(* MUTANT: the subtrees of containers are left out of the index.           *)
IndexNode(n) == {n}

IndexSubtree(n) == {n} \cup (IF n \in Containers THEN ToSet(Descendants[n]) ELSE {})

Reload ==
  /\ nodes' = UNION {IndexSubtree(n) : n \in ToSet(children[viewRoot])}
  /\ UNCHANGED <<treeVars, viewRoot>>

SetRoot(root) ==
  /\ viewRoot' = root
  /\ nodes' = UNION {IndexSubtree(n) : n \in ToSet(children[root])}
  /\ UNCHANGED treeVars

IsBranch(uid) == uid \in nodes \cap Containers

(* MUTANT: only the children in the index are listed.                      *)
IndexedChildUIDs(container) == SelectSeq(children[container], LAMBDA n : n \in nodes)

(* The children are read from the container as they are now; NoNode stands *)
(* for the empty ID, the root.                                             *)
ChildUIDs(container) == children[container]

(* The widget's rows below a container, every branch opened.               *)
Rows[container \in Containers] ==
  FoldLeft(LAMBDA out, child : out \o (<<child>> \o (IF IsBranch(child) THEN Rows[child] ELSE <<>>)),
           <<>>, ChildUIDs(container))

(* OnSelected: the node that is passed on, if any.                         *)
Selected(uid) == IF uid \in nodes THEN uid ELSE NoNode

ViewNext ==
  \/ TreeNext /\ UNCHANGED viewVars
  \/ Reload
  \/ \E root \in Roots : SetRoot(root)

ViewSpec == ViewInit /\ [][ViewNext]_treeViewVars

-----------------------------------------------------------------------------
(* Moves, additions and removals need no Reload as long as every container *)
(* below the root is in the index: the rows are the tree, in its order     *)
(* (tree.go:50-61).                                                        *)
ViewFollowsTree ==
  Below(viewRoot) \cap Containers \subseteq nodes => Rows[viewRoot] = Descendants[viewRoot]

(* After Reload and SetRoot every row can be selected and opened, and what *)
(* has been taken out of the tree cannot be selected any more.             *)
ReloadCatchesUp ==
  [][viewVars' # viewVars => \A n \in Nodes : (Selected(n) # NoNode)' <=> n \in Below(viewRoot)']_treeViewVars
=============================================================================
