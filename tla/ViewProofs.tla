----------------------------- MODULE ViewProofs -----------------------------
(***************************************************************************)
(* Theorems about the two widgets over the tree: TreeView, for any tree    *)
(* and any number of roots, and PropertiesPanel, for any tree, fields and  *)
(* values.                                                                 *)
(***************************************************************************)
EXTENDS TreeView, PropertiesPanel, InheritanceProofs

(***************************************************************************)
(* TreeView.                                                               *)
(***************************************************************************)
(* The types of what the tree widget keeps.                                *)
ViewTypeOK == viewRoot \in Roots /\ nodes \subseteq Nodes

(* A step of the view is a step of the tree or leaves it alone.            *)
LEMMA ViewUsesTree == [ViewNext]_treeViewVars => [TreeNext]_treeVars
BY DEF ViewNext, Reload, SetRoot, treeViewVars, treeVars

(* Reloading and changing the root move no node, so what is proved of the  *)
(* tree holds of the tree under a view.                                    *)
THEOREM ViewRefinesTree == ViewSpec => Spec
<1>1. ViewInit => Init
  BY DEF ViewInit
<1> QED BY <1>1, ViewUsesTree, PTL DEF ViewSpec, Spec

-----------------------------------------------------------------------------
(* The subtrees below a container's children are what is below it.         *)
LEMMA IndexIsBelow ==
  ASSUME TreeInv, NEW r \in Containers
  PROVE  UNION {IndexSubtree(n) : n \in ToSet(children[r])} = Below(r)
<1> DEFINE index == UNION {IndexSubtree(n) : n \in ToSet(children[r])}
<1>1. ASSUME NEW n \in Nodes PROVE n \in ToSet(children[r]) <=> parent[n] = r
  BY DEF TreeInv, WellLinked, LinksAgree
<1>2. ToSet(children[r]) \subseteq Nodes
  BY DEF TreeInv, TypeOK, ToSet
<1>3. ASSUME NEW m \in index PROVE m \in Below(r)
  <2>1. PICK n \in ToSet(children[r]) : m \in IndexSubtree(n)
    OBVIOUS
  <2>2. n \in Nodes /\ parent[n] = r
    BY <1>1, <1>2
  <2>3. CASE m = n
    BY <2>2, <2>3, BelowUnfold
  <2>4. CASE n \in Containers /\ m \in ToSet(Descendants[n])
    <3>1. m \in Below(n) /\ m \in Nodes
      BY <2>4, DescendantsAreBelow DEF Below
    <3> QED BY <2>2, <2>4, <3>1, BelowUnfold
  <2> QED BY <2>1, <2>3, <2>4 DEF IndexSubtree
<1>4. ASSUME NEW m \in Below(r) PROVE m \in index
  <2>1. m \in Nodes
    BY DEF Below
  <2>2. CASE parent[m] = r
    BY <1>1, <2>1, <2>2 DEF IndexSubtree
  <2>3. ASSUME NEW k \in Containers, parent[k] = r, m \in Below(k) PROVE m \in index
    <3>1. k \in ToSet(children[r])
      BY <1>1, <2>3, NodesFacts
    <3>2. m \in IndexSubtree(k)
      BY <2>3, DescendantsAreBelow DEF IndexSubtree
    <3> QED BY <3>1, <3>2
  <2> QED BY <1>4, <2>1, <2>2, <2>3, BelowUnfold
<1> QED BY <1>3, <1>4

(* The index holds nodes and the view shows a root, at first ...           *)
LEMMA ViewTypeInit == ViewInit => ViewTypeOK
BY DEF ViewInit, ViewTypeOK

(* ... and after each step.                                                *)
LEMMA ViewTypeStep == TreeInv /\ ViewTypeOK /\ [ViewNext]_treeViewVars => ViewTypeOK'
<1> SUFFICES ASSUME TreeInv, ViewTypeOK, [ViewNext]_treeViewVars PROVE ViewTypeOK'
  OBVIOUS
<1>1. ASSUME NEW r \in Roots, nodes' = UNION {IndexSubtree(n) : n \in ToSet(children[r])}
      PROVE  nodes' \subseteq Nodes
  <2>1. r \in Containers
    BY TreeAssumption
  <2> QED BY <1>1, <2>1, IndexIsBelow DEF Below
<1>2. CASE viewVars' = viewVars
  BY <1>2 DEF viewVars, ViewTypeOK
<1>3. CASE Reload
  BY <1>1, <1>3 DEF Reload, ViewTypeOK
<1>4. CASE \E root \in Roots : SetRoot(root)
  BY <1>1, <1>4 DEF SetRoot, ViewTypeOK
<1> QED BY <1>2, <1>3, <1>4 DEF ViewNext, treeViewVars

(* The invariant of the tree holds under a view.                           *)
LEMMA ViewInvariant == ViewSpec => [](TreeInv /\ ViewTypeOK)
<1>1. ViewInit => TreeInv /\ ViewTypeOK
  BY ViewTypeInit, TreeInit DEF ViewInit
<1>2. TreeInv /\ ViewTypeOK /\ [ViewNext]_treeViewVars => (TreeInv /\ ViewTypeOK)'
  BY ViewTypeStep, ViewUsesTree, TreeStep
<1> QED BY <1>1, <1>2, PTL DEF ViewSpec

(* After every Reload and SetRoot exactly the nodes below the root can be  *)
(* selected.                                                               *)
THEOREM ReloadAlwaysCatchesUp == ViewSpec => ReloadCatchesUp
<1>1. TreeInv /\ ViewTypeOK /\ [ViewNext]_treeViewVars
        => [viewVars' # viewVars =>
              \A n \in Nodes : (Selected(n) # NoNode)' <=> n \in Below(viewRoot)']_treeViewVars
  <2> SUFFICES ASSUME TreeInv, ViewTypeOK, ViewNext, viewVars' # viewVars, NEW n \in Nodes
               PROVE  (Selected(n) # NoNode)' <=> n \in Below(viewRoot)'
    BY DEF treeViewVars
  <2>1. PICK r \in Roots :
          /\ viewRoot' = r /\ parent' = parent
          /\ nodes' = UNION {IndexSubtree(m) : m \in ToSet(children[r])}
    <3>1. CASE Reload
      BY <3>1 DEF Reload, treeVars, ViewTypeOK
    <3>2. CASE \E root \in Roots : SetRoot(root)
      BY <3>2 DEF SetRoot, treeVars
    <3> QED BY <3>1, <3>2 DEF ViewNext
  <2>2. nodes' = Below(r)
    BY <2>1, TreeAssumption, IndexIsBelow
  <2>3. Below(viewRoot)' = Below(r)
    BY <2>1 DEF Below
  <2>4. (Selected(n) # NoNode)' <=> n \in nodes'
    BY NodesFacts DEF Selected
  <2> QED BY <2>2, <2>3, <2>4
<1> QED BY <1>1, ViewInvariant, PTL DEF ViewSpec, ReloadCatchesUp

-----------------------------------------------------------------------------
(* Rows satisfies the equation it is defined by.                           *)
LEMMA RowsUnfold ==
  ASSUME TreeInv, NEW c \in Containers
  PROVE  Rows[c] = Listing(Rows, nodes \cap Containers, children[c])
<1> DEFINE branches == nodes \cap Containers
           Solves(h) == h = [k \in Containers |-> Listing(h, branches, children[k])]
<1>1. Rows = CHOOSE h : Solves(h)
  BY Zenon DEF Rows, Listing, IsBranch, ChildUIDs
<1>2. PICK h \in [Containers -> Seq(Nodes)] :
        \A k \in Containers : h[k] = Listing(h, branches, children[k])
  BY ListingDefined
<1> HIDE DEF branches
<1>3. Solves(h)
  BY <1>2
<1>4. Solves(Rows)
  <2> HIDE DEF Solves
  <2> QED BY <1>1, <1>3
<1> QED BY <1>4 DEF branches

(* Rows and Descendants solve one equation while the index is complete.    *)
LEMMA ViewFollows == TreeInv /\ ViewTypeOK => ViewFollowsTree
<1> SUFFICES ASSUME TreeInv, viewRoot \in Roots, Below(viewRoot) \cap Containers \subseteq nodes
             PROVE  Rows[viewRoot] = Descendants[viewRoot]
  BY DEF ViewTypeOK, ViewFollowsTree
<1> DEFINE bad == {c \in Containers : c \in {viewRoot} \cup Below(viewRoot) /\ Rows[c] # Descendants[c]}
<1>0. viewRoot \in Containers
  BY TreeAssumption
<1> SUFFICES ASSUME bad # {} PROVE FALSE
  BY <1>0
<1>1. /\ parent \in [Nodes -> Containers \cup {NoNode}] /\ Forest!IsForest(parent)
      /\ Containers \subseteq Nodes
  BY ChildrenFacts, NodesFacts
<1>2. PICK c \in Containers : c \in bad /\ \A m \in bad : parent[m] # c
  <2>1. bad \in SUBSET Nodes /\ bad # {}
    BY <1>1
  <2> HIDE DEF bad
  <2>2. \E c \in bad : \A m \in bad : parent[m] # c
    BY <1>1, <2>1, LowestNode
  <2> QED BY <2>2 DEF bad
<1>3. ASSUME NEW k \in Containers, parent[k] = c
      PROVE  k \in nodes /\ Rows[k] = Descendants[k]
  <2>1. k \in Below(viewRoot)
    <3>1. CASE c = viewRoot
      BY <1>0, <1>1, <1>3, <3>1, BelowUnfold
    <3>2. CASE c \in Below(viewRoot)
      BY <1>0, <1>1, <1>3, <3>2, BelowParent
    <3> QED BY <1>2, <3>1, <3>2
  <2> QED BY <1>2, <1>3, <2>1
<1> DEFINE s == children[c]
<1>4. s \in Seq(Nodes) /\ \A i \in 1..Len(s) : parent[s[i]] = c
  BY ChildrenFacts
<1> HIDE DEF s
<1>5. Lists(Descendants, Containers, s)
  BY DescendantsUnfold DEF Lists
<1>6. \A i \in 1..Len(s) : /\ s[i] \in Containers <=> s[i] \in nodes \cap Containers
                           /\ s[i] \in Containers => Rows[s[i]] = Descendants[s[i]]
  BY <1>3, <1>4
<1>7. Listing(Descendants, Containers, s) = Listing(Rows, nodes \cap Containers, s)
  BY <1>4, <1>5, <1>6, ListingDependsOn
<1>8. Rows[c] = Descendants[c]
  BY <1>7, RowsUnfold, DescendantsUnfold DEF s
<1> QED BY <1>2, <1>8

(* However the tree was edited since the last Reload, the widget's rows are *)
(* the tree below the root, in its order, while every container below the  *)
(* root is in the index.                                                   *)
THEOREM ViewAlwaysFollows == ViewSpec => []ViewFollowsTree
BY ViewInvariant, ViewFollows, PTL

(***************************************************************************)
(* PropertiesPanel.                                                        *)
(***************************************************************************)
(* What makes TickingKeepsLocalValue inductive: the boxes show the flags   *)
(* of the target, and the row of a field that is not inherited shows the   *)
(* target's own value, or text that will not be stored.  (What the row of  *)
(* an inherited field shows does not matter to it.)                        *)
LocalRowsShowRaw ==
  /\ raw = [n \in Nodes |-> [f \in Fields |-> raw[n][f]]]
  /\ inherit \in [Nodes -> SUBSET Fields]
  /\ target \in Nodes \cup {NoNode}
  /\ shown = [f \in Fields |-> shown[f]]
  /\ target # NoNode =>
       /\ ticked = inherit[target]
       /\ \A f \in Fields \ ticked :
            shown[f] = raw[target][f] \/ (shown[f] = Malformed /\ f \in Numeric)

(* It holds of the empty panel ...                                         *)
LEMMA LocalRowsInit == ASSUME NEW chain, PanelInit(chain) PROVE LocalRowsShowRaw
  BY DEF PanelInit, LocalRowsShowRaw, Blank

(* After a refresh every row that is not inherited shows the raw value.    *)
LEMMA RefreshShowsRaw ==
  ASSUME NEW n \in Nodes \cup {NoNode}, target' = n, Refresh(n),
         raw' = [m \in Nodes |-> [f \in Fields |-> raw'[m][f]]],
         inherit' \in [Nodes -> SUBSET Fields]
  PROVE  LocalRowsShowRaw'
<1>1. shown' = IF n = NoNode THEN Blank
               ELSE [f \in Fields |-> IF f \in inherit'[n] THEN Effective'[n][f] ELSE raw'[n][f]]
  BY DEF Refresh, Displayed, Blank
<1>2. ticked' = IF n = NoNode THEN {} ELSE inherit'[n]
  BY DEF Refresh
<1> QED BY <1>1, <1>2 DEF LocalRowsShowRaw, Blank

(* A commit in a row f that ticks or unticks at most f's own box.          *)
LEMMA CommitShowsRaw ==
  ASSUME LocalRowsShowRaw, target # NoNode, NEW f \in Fields, NEW text, NEW box,
         box \in {ticked, ticked \ {f}, ticked \cup {f}}, Commit(f, text, box)
  PROVE  LocalRowsShowRaw'
<1>1. /\ target \in Nodes /\ target' = target
      /\ inherit' = [inherit EXCEPT ![target] = (@ \ {f}) \cup (box \cap {f})]
  BY DEF Commit, LocalRowsShowRaw
<1>2. inherit' \in [Nodes -> SUBSET Fields]
  BY <1>1 DEF LocalRowsShowRaw
<1>3. CASE Parses(f, text)
  <2>1. raw' = [raw EXCEPT ![target][f] = text] /\ Refresh(target)
    BY <1>3 DEF Commit
  <2>2. raw' = [m \in Nodes |-> [g \in Fields |-> raw'[m][g]]]
    BY <2>1 DEF LocalRowsShowRaw
  <2> QED BY <1>1, <1>2, <2>1, <2>2, RefreshShowsRaw
<1>4. CASE ~Parses(f, text)
  <2>1. f \in Numeric /\ text = Malformed
    BY <1>4 DEF Parses
  <2>2. shown' = [shown EXCEPT ![f] = text] /\ ticked' = box /\ raw' = raw
    BY <1>4 DEF Commit
  <2>3. inherit'[target] = box
    BY <1>1 DEF LocalRowsShowRaw
  <2>4. \A g \in Fields \ {f} : g \in box <=> g \in ticked
    OBVIOUS
  <2> QED BY <1>1, <1>2, <2>1, <2>2, <2>3, <2>4 DEF LocalRowsShowRaw
<1> QED BY <1>3, <1>4

(* ... and after every event.                                              *)
LEMMA LocalRowsStep == LocalRowsShowRaw /\ [PanelNext]_allVars => LocalRowsShowRaw'
<1> SUFFICES ASSUME LocalRowsShowRaw, [PanelNext]_allVars PROVE LocalRowsShowRaw'
  OBVIOUS
<1>1. ASSUME NEW n \in Nodes \cup {NoNode}, SetTarget(n) PROVE LocalRowsShowRaw'
  <2>1. raw' = raw /\ inherit' = inherit /\ target' = n /\ Refresh(n)
    BY <1>1 DEF SetTarget, inheritanceVars, nodeVars
  <2>2. raw' = [m \in Nodes |-> [f \in Fields |-> raw'[m][f]]] /\ inherit' \in [Nodes -> SUBSET Fields]
    BY <2>1 DEF LocalRowsShowRaw
  <2> QED BY <2>1, <2>2, RefreshShowsRaw
<1>2. ASSUME NEW f \in Fields, NEW text \in Values \cup {Malformed}, Type(f, text)
      PROVE  LocalRowsShowRaw'
  BY <1>2, CommitShowsRaw DEF Type
<1>3. ASSUME NEW f \in Inheritable, ClickInherit(f) PROVE LocalRowsShowRaw'
  <2>1. f \in Fields
    BY InheritanceAssumption
  <2>2. CASE f \in ticked
    BY <1>3, <2>1, <2>2, CommitShowsRaw DEF ClickInherit
  <2>3. CASE f \notin ticked
    BY <1>3, <2>1, <2>3, CommitShowsRaw DEF ClickInherit
  <2> QED BY <2>2, <2>3
<1>4. CASE UNCHANGED allVars
  BY <1>4 DEF allVars, panelVars, inheritanceVars, nodeVars, LocalRowsShowRaw
<1> QED BY <1>1, <1>2, <1>3, <1>4 DEF PanelNext

-----------------------------------------------------------------------------
(* Ticking Inherit never touches the value underneath: the commit it       *)
(* causes writes back what the row shows, which is that value.             *)
THEOREM TickingKeepsValues ==
  ASSUME NEW chain
  PROVE  PanelInit(chain) /\ [][PanelNext]_allVars => TickingKeepsLocalValue
<1>1. LocalRowsShowRaw /\ [PanelNext]_allVars
        => [\A n \in Nodes, f \in Fields :
              f \in inherit'[n] \ inherit[n] => raw'[n][f] = raw[n][f]]_allVars
  <2> SUFFICES ASSUME LocalRowsShowRaw, PanelNext, NEW n \in Nodes, NEW f \in Fields,
                      f \in inherit'[n], f \notin inherit[n]
               PROVE  raw'[n][f] = raw[n][f]
    BY DEF allVars
  <2> USE DEF LocalRowsShowRaw
  <2>1. ASSUME NEW m \in Nodes \cup {NoNode}, SetTarget(m) PROVE FALSE
    BY <2>1 DEF SetTarget, inheritanceVars, nodeVars
  <2>2. ASSUME NEW g \in Fields, NEW text, Type(g, text) PROVE FALSE
    BY <2>2 DEF Type, Commit
  <2>3. ASSUME NEW g \in Inheritable, ClickInherit(g) PROVE raw'[n][f] = raw[n][f]
    <3>1. target \in Nodes /\ g \in Fields
      BY <2>3, InheritanceAssumption DEF ClickInherit
    <3>2. n = target /\ f = g /\ g \notin ticked
      BY <2>3, <3>1 DEF ClickInherit, Commit
    <3>3. raw' = raw \/ (Parses(g, shown[g]) /\ raw' = [raw EXCEPT ![target][g] = shown[g]])
      BY <2>3 DEF ClickInherit, Commit
    <3>4. Parses(g, shown[g]) => shown[g] = raw[target][g]
      BY <2>3, <3>1, <3>2 DEF Parses, ClickInherit
    <3> QED BY <3>1, <3>2, <3>3, <3>4
  <2> QED BY <2>1, <2>2, <2>3 DEF PanelNext
<1>2. PanelInit(chain) => LocalRowsShowRaw
  BY LocalRowsInit
<1> QED BY <1>1, <1>2, LocalRowsStep, PTL DEF TickingKeepsLocalValue

(* The chains the panel may start from: a path down from a container.      *)
IsPath(chain) ==
  /\ chain \in Seq(Nodes)
  /\ IsInjective(chain)
  /\ \A i \in 1..Len(chain)-1 : chain[i] \in Containers
  /\ \A i \in 2..Len(chain) : chain[i] \notin Roots

(* The tree the panel starts from is one the program can build.            *)
LEMMA PathIsTree == ASSUME NEW chain, IsPath(chain), PanelInit(chain) PROVE TreeInv
<1> DEFINE last == Len(chain)
<1>0. /\ last \in Nat /\ 1..last = DOMAIN chain
      /\ \A i \in 1..last : chain[i] \in Nodes
      /\ \A i, j \in 1..last : chain[i] = chain[j] => i = j
      /\ \A i \in 1..last-1 : chain[i] \in Containers
      /\ \A i \in 2..last : chain[i] \notin Roots
  BY DEF IsPath, IsInjective
<1> HIDE DEF last
<1>a. ASSUME NEW i \in 1..last-1
      PROVE  i \in 1..last /\ i + 1 \in 1..last /\ i + 1 \in 2..last /\ (i + 1) - 1 = i
  BY <1>0
<1>b. ASSUME NEW i \in 2..last
      PROVE  i - 1 \in 1..last-1 /\ (i - 1) + 1 = i /\ i \in 1..last
  BY <1>0
<1>1. /\ \A n \in Nodes : (~ \E i \in 2..last : chain[i] = n) => parent[n] = NoNode
      /\ \A i \in 1..last-1 : parent[chain[i+1]] = chain[i]
      /\ parent \in [Nodes -> Containers \cup {NoNode}]
  <2> DEFINE up == [n \in Nodes |-> IF \E i \in 2..last : chain[i] = n
                               THEN chain[CHOOSE i \in 1..last-1 : chain[i+1] = n]
                               ELSE NoNode]
  <2>1. parent = up
    BY DEF PanelInit, last
  <2>2. ASSUME NEW i \in 1..last-1 PROVE up[chain[i+1]] = chain[i]
    <3>1. chain[i+1] \in Nodes /\ \E j \in 2..last : chain[j] = chain[i+1]
      BY <1>0, <1>a
    <3>2. \A j \in 1..last-1 : chain[j+1] = chain[i+1] => j = i
      BY <1>0, <1>a
    <3>3. (CHOOSE j \in 1..last-1 : chain[j+1] = chain[i+1]) = i
      BY <3>2
    <3> QED BY <3>1, <3>3
  <2>3. \A n \in Nodes : (~ \E i \in 2..last : chain[i] = n) => up[n] = NoNode
    OBVIOUS
  <2>4. ASSUME NEW n \in Nodes PROVE up[n] \in Containers \cup {NoNode}
    <3>1. CASE \E i \in 2..last : chain[i] = n
      <4>1. PICK i \in 2..last : chain[i] = n
        BY <3>1
      <4>2. i - 1 \in 1..last-1 /\ chain[(i-1)+1] = n /\ chain[i-1] \in Containers
        BY <1>0, <1>b, <4>1
      <4>3. up[n] = chain[i-1]
        <5> HIDE DEF up
        <5> QED BY <2>2, <4>2
      <4> HIDE DEF up
      <4> QED BY <4>2, <4>3
    <3> QED BY <3>1
  <2> QED BY <2>1, <2>2, <2>3, <2>4
<1>2. /\ \A c \in Containers : (~ \E i \in 1..last-1 : chain[i] = c) => children[c] = <<>>
      /\ \A i \in 1..last-1 : children[chain[i]] = <<chain[i+1]>>
      /\ children \in [Containers -> Seq(Nodes)]
  <2> DEFINE down == [c \in Containers |-> IF \E i \in 1..last-1 : chain[i] = c
                                      THEN <<chain[1 + CHOOSE i \in 1..last-1 : chain[i] = c]>>
                                      ELSE <<>>]
  <2>1. children = down
    BY DEF PanelInit, last
  <2>2. ASSUME NEW i \in 1..last-1 PROVE down[chain[i]] = <<chain[i+1]>> /\ <<chain[i+1]>> \in Seq(Nodes)
    <3>1. chain[i] \in Containers /\ \E j \in 1..last-1 : chain[j] = chain[i]
      BY <1>0
    <3>2. \A j \in 1..last-1 : chain[j] = chain[i] => j = i
      BY <1>0, <1>a
    <3>3. (CHOOSE j \in 1..last-1 : chain[j] = chain[i]) = i
      BY <3>2
    <3>4. 1 + i = i + 1 /\ chain[i+1] \in Nodes
      BY <1>0, <1>a
    <3>5. down[chain[i]] = <<chain[1 + CHOOSE j \in 1..last-1 : chain[j] = chain[i]]>>
      BY <3>1
    <3>6. down[chain[i]] = <<chain[i+1]>>
      BY <3>3, <3>4, <3>5
    <3> HIDE DEF down
    <3> QED BY <3>4, <3>6
  <2>3. \A c \in Containers : (~ \E i \in 1..last-1 : chain[i] = c) => down[c] = <<>>
    OBVIOUS
  <2>4. ASSUME NEW c \in Containers PROVE down[c] \in Seq(Nodes)
    <3>1. CASE \E i \in 1..last-1 : chain[i] = c
      <4>1. PICK i \in 1..last-1 : chain[i] = c
        BY <3>1
      <4> HIDE DEF down
      <4> QED BY <2>2, <4>1
    <3> QED BY <3>1
  <2>5. down \in [Containers -> Seq(Nodes)]
    BY <2>4
  <2> HIDE DEF down
  <2> QED BY <2>1, <2>2, <2>3, <2>5
<1>3. TypeOK
  BY <1>1, <1>2 DEF PanelInit, TypeOK, Outcomes
<1>4. LinksAgree
  <2> SUFFICES ASSUME NEW c \in Containers, NEW n \in Nodes
               PROVE  parent[n] = c <=> n \in ToSet(children[c])
    BY DEF LinksAgree
  <2>0. c # NoNode
    BY TreeAssumption
  <2>1. ASSUME parent[n] = c PROVE n \in ToSet(children[c])
    <3>1. PICK i \in 2..last : chain[i] = n
      BY <1>1, <2>0, <2>1
    <3>2. parent[n] = chain[i-1] /\ children[chain[i-1]] = <<n>>
      BY <1>1, <1>2, <1>b, <3>1
    <3> QED BY <2>1, <3>2 DEF ToSet
  <2>2. ASSUME n \in ToSet(children[c]) PROVE parent[n] = c
    <3>1. children[c] # <<>>
      BY <2>2 DEF ToSet
    <3>2. PICK i \in 1..last-1 : chain[i] = c
      BY <1>2, <3>1
    <3>3. n = chain[i+1]
      BY <1>2, <2>2, <3>2 DEF ToSet
    <3> QED BY <1>1, <3>2, <3>3
  <2> QED BY <2>1, <2>2
<1>5. NoDuplicates
  <2> SUFFICES ASSUME NEW c \in Containers PROVE IsInjective(children[c])
    BY DEF NoDuplicates
  <2>1. children[c] = <<>> \/ \E n \in Nodes : children[c] = <<n>>
    BY <1>0, <1>2, <1>a
  <2> QED BY <2>1 DEF IsInjective
<1>6. RootsDetached
  BY <1>0, <1>1, NodesFacts DEF RootsDetached
<1>7. Acyclic
  <2> SUFFICES ASSUME NEW S \in SUBSET Nodes, S # {} PROVE \E n \in S : parent[n] \notin S
    BY NodesFacts DEF Acyclic, Forest!IsForest
  <2>1. CASE \E n \in S : ~ \E i \in 2..last : chain[i] = n
    BY <1>1, <2>1, NodesFacts
  <2>2. CASE \A n \in S : \E i \in 2..last : chain[i] = n
    <3> DEFINE places == {i \in 2..last : chain[i] \in S}
    <3>1. places \in SUBSET Nat /\ places # {}
      BY <1>0, <2>2
    <3>2. PICK i \in places : \A j \in places : i <= j
      <4> HIDE DEF places
      <4> QED BY <3>1, LeastNat
    <3>3. parent[chain[i]] = chain[i-1] /\ i - 1 \in 1..last
      BY <1>1, <1>a, <1>b
    <3>4. chain[i-1] \notin S
      <4> SUFFICES ASSUME chain[i-1] \in S PROVE FALSE
        OBVIOUS
      <4>1. PICK j \in 2..last : chain[j] = chain[i-1]
        BY <2>2
      <4>2. j = i - 1
        BY <1>0, <1>b, <3>3, <4>1
      <4>3. j \in places /\ ~(i <= j)
        BY <4>1, <4>2, <1>0
      <4> QED BY <3>2, <4>3
    <3> QED BY <3>3, <3>4
  <2> QED BY <2>1, <2>2
<1> QED BY <1>3, <1>4, <1>5, <1>6, <1>7 DEF TreeInv, WellLinked

-----------------------------------------------------------------------------
(* The panel on such a tree.                                               *)
PathSpec(chain) == PanelInit(chain) /\ [][PanelNext]_allVars

(* What the panel keeps: the rows hold values or text that does not parse. *)
PanelTypes ==
  /\ target \in Nodes \cup {NoNode}
  /\ shown \in [Fields -> Values \cup {Malformed}]
  /\ target # NoNode => \A f \in Fields \ Numeric : shown[f] \in Values
  /\ ticked \in SUBSET Inheritable
  /\ editable \in SUBSET Fields

(* What is true of Effective in any state is true of it after a step.      *)
LEMMA EffectiveTypeNext ==
  (InheritanceInv => Effective \in [Nodes -> [Fields -> Values]] /\ EffectiveSolves)'
<1>1. InheritanceInv => Effective \in [Nodes -> [Fields -> Values]] /\ EffectiveSolves
  BY EffectiveType, EffectiveUnfold DEF InheritanceInv, EffectiveSolves
<1> QED BY <1>1, PTL

(* An edit leaves the tree alone and the values and flags well typed.      *)
LEMMA PanelModelStep ==
  ASSUME InheritanceInv, PanelTypes, [PanelNext]_allVars
  PROVE  InheritanceInv' /\ UNCHANGED treeVars
<1>1. UNCHANGED treeVars
  <2>1. ASSUME NEW n \in Nodes \cup {NoNode}, SetTarget(n) PROVE UNCHANGED treeVars
    BY <2>1 DEF SetTarget, inheritanceVars
  <2>2. ASSUME NEW f, NEW text, NEW box, Commit(f, text, box) PROVE UNCHANGED treeVars
    BY <2>2 DEF Commit
  <2>3. CASE UNCHANGED allVars
    BY <2>3 DEF allVars, inheritanceVars
  <2> QED BY <2>1, <2>2, <2>3 DEF PanelNext, Type, ClickInherit
<1>2. TreeInv'
  BY <1>1 DEF InheritanceInv, TreeInv, treeVars, TypeOK, WellLinked, LinksAgree, NoDuplicates,
              RootsDetached, Acyclic
<1>3. ASSUME NEW f \in Fields, NEW text, NEW box, Commit(f, text, box), box \subseteq Inheritable,
             target # NoNode, Parses(f, text) => text \in Values
      PROVE  NodeTypeOK'
  <2>1. target \in Nodes
    BY <1>3 DEF PanelTypes
  <2>2. inherit' \in [Nodes -> SUBSET Inheritable]
    <3>1. inherit' = [inherit EXCEPT ![target] = (@ \ {f}) \cup (box \cap {f})]
      BY <1>3 DEF Commit
    <3>2. inherit \in [Nodes -> SUBSET Inheritable]
      BY DEF InheritanceInv, NodeTypeOK
    <3> QED BY <1>3, <2>1, <3>1, <3>2
  <2>3. raw' \in [Nodes -> [Fields -> Values]]
    <3>1. raw' = raw \/ (text \in Values /\ raw' = [raw EXCEPT ![target][f] = text])
      BY <1>3 DEF Commit
    <3>2. raw \in [Nodes -> [Fields -> Values]]
      BY DEF InheritanceInv, NodeTypeOK
    <3> QED BY <1>3, <2>1, <3>1, <3>2
  <2> QED BY <2>2, <2>3 DEF NodeTypeOK
<1>4. NodeTypeOK'
  <2>1. ASSUME NEW n \in Nodes \cup {NoNode}, SetTarget(n) PROVE NodeTypeOK'
    BY <2>1 DEF SetTarget, inheritanceVars, nodeVars, InheritanceInv, NodeTypeOK
  <2>2. ASSUME NEW f \in Fields, NEW text \in Values \cup {Malformed}, Type(f, text)
        PROVE  NodeTypeOK'
    <3>1. Parses(f, text) => text \in Values
      BY <2>2 DEF Type, Parses
    <3> QED BY <2>2, <1>3, <3>1 DEF Type, PanelTypes
  <2>3. ASSUME NEW f \in Inheritable, ClickInherit(f) PROVE NodeTypeOK'
    <3> DEFINE box == IF f \in ticked THEN ticked \ {f} ELSE ticked \cup {f}
    <3>1. f \in Fields /\ box \subseteq Inheritable
      BY InheritanceAssumption DEF PanelTypes
    <3>2. Parses(f, shown[f]) => shown[f] \in Values
      BY <2>3, <3>1 DEF ClickInherit, Parses, PanelTypes
    <3>3. target # NoNode /\ Commit(f, shown[f], box)
      BY <2>3 DEF ClickInherit
    <3> HIDE DEF box
    <3> QED BY <1>3, <3>1, <3>2, <3>3
  <2>4. CASE UNCHANGED allVars
    BY <2>4 DEF allVars, inheritanceVars, nodeVars, InheritanceInv, NodeTypeOK
  <2> QED BY <2>1, <2>2, <2>3, <2>4 DEF PanelNext
<1> QED BY <1>1, <1>2, <1>4 DEF InheritanceInv

(* After a refresh the rows show values, whatever the target.              *)
LEMMA RefreshTypes ==
  ASSUME InheritanceInv', NEW n \in Nodes \cup {NoNode}, Refresh(n)
  PROVE  /\ n # NoNode => shown' \in [Fields -> Values]
         /\ n = NoNode => shown' = Blank
         /\ ticked' \in SUBSET Inheritable
         /\ editable' \in SUBSET Fields
<1>1. shown' = IF n = NoNode THEN Blank
               ELSE [f \in Fields |-> IF f \in inherit'[n] THEN Effective'[n][f] ELSE raw'[n][f]]
  BY DEF Refresh, Displayed, Blank
<1>2. Effective' \in [Nodes -> [Fields -> Values]]
  BY EffectiveTypeNext
<1>3. raw' \in [Nodes -> [Fields -> Values]] /\ inherit' \in [Nodes -> SUBSET Inheritable]
  BY DEF InheritanceInv, NodeTypeOK
<1>4. n # NoNode => shown' \in [Fields -> Values]
  BY <1>1, <1>2, <1>3
<1>5. ticked' \in SUBSET Inheritable /\ editable' \in SUBSET Fields
  BY <1>3, InheritanceAssumption DEF Refresh
<1> QED BY <1>1, <1>4, <1>5

(* Every event leaves values in the rows, or text in a numeric one.        *)
LEMMA PanelTypesStep ==
  ASSUME InheritanceInv, InheritanceInv', PanelTypes, [PanelNext]_allVars
  PROVE  PanelTypes'
<1>1. ASSUME NEW n \in Nodes \cup {NoNode}, SetTarget(n) PROVE PanelTypes'
  <2>1. target' = n /\ Refresh(n)
    BY <1>1 DEF SetTarget
  <2> QED BY <2>1, RefreshTypes DEF PanelTypes, Blank
<1>2. ASSUME NEW f \in Fields, NEW text, NEW box, Commit(f, text, box), box \subseteq Inheritable,
             target # NoNode
      PROVE  PanelTypes'
  <2>1. target' = target /\ target \in Nodes
    BY <1>2 DEF Commit, PanelTypes
  <2>2. CASE Parses(f, text)
    <3>1. Refresh(target)
      BY <1>2, <2>2 DEF Commit
    <3>2. ASSUME NEW n \in Nodes, n = target PROVE PanelTypes'
      <4>1. Refresh(n)
        BY <2>1, <3>1, <3>2 DEF Refresh, Displayed, Blank
      <4> QED BY <2>1, <3>2, <4>1, RefreshTypes, NodesFacts DEF PanelTypes
    <3> QED BY <2>1, <3>2
  <2>3. CASE ~Parses(f, text)
    <3>1. shown' = [shown EXCEPT ![f] = Malformed] /\ ticked' = box /\ editable' = editable /\ f \in Numeric
      BY <1>2, <2>3 DEF Commit, Parses
    <3> QED BY <1>2, <2>1, <3>1 DEF PanelTypes
  <2> QED BY <2>2, <2>3
<1>3. ASSUME NEW f \in Fields, NEW text \in Values \cup {Malformed}, Type(f, text)
      PROVE  PanelTypes'
  BY <1>2, <1>3 DEF Type, PanelTypes
<1>4. ASSUME NEW f \in Inheritable, ClickInherit(f) PROVE PanelTypes'
  <2> DEFINE box == IF f \in ticked THEN ticked \ {f} ELSE ticked \cup {f}
  <2>1. f \in Fields /\ box \subseteq Inheritable
    BY InheritanceAssumption DEF PanelTypes
  <2>2. target # NoNode /\ Commit(f, shown[f], box)
    BY <1>4 DEF ClickInherit
  <2> HIDE DEF box
  <2> QED BY <1>2, <2>1, <2>2
<1>5. CASE UNCHANGED allVars
  BY <1>5 DEF allVars, panelVars, PanelTypes
<1> QED BY <1>1, <1>3, <1>4, <1>5 DEF PanelNext

(* Both hold whatever the user does.                                       *)
LEMMA PanelInvariant ==
  ASSUME NEW chain, IsPath(chain)
  PROVE  PathSpec(chain) => [](InheritanceInv /\ PanelTypes)
<1>1. PanelInit(chain) => InheritanceInv /\ PanelTypes
  <2> SUFFICES ASSUME PanelInit(chain) PROVE InheritanceInv /\ PanelTypes
    OBVIOUS
  <2>1. TreeInv
    BY PathIsTree
  <2>2. NodeTypeOK /\ PanelTypes
    BY InheritanceAssumption DEF PanelInit, NodeTypeOK, PanelTypes, Blank
  <2> QED BY <2>1, <2>2 DEF InheritanceInv
<1>2. InheritanceInv /\ PanelTypes /\ [PanelNext]_allVars => InheritanceInv' /\ PanelTypes'
  BY PanelModelStep, PanelTypesStep
<1> QED BY <1>1, <1>2, PTL DEF PathSpec

(* Whatever is typed and clicked, in any order, the model keeps values of the *)
(* right type and only fields with a flag are ever ticked.                 *)
THEOREM PanelTypeCorrect ==
  ASSUME NEW chain, IsPath(chain)
  PROVE  PathSpec(chain) => []PanelTypeOK
<1>1. InheritanceInv /\ PanelTypes => PanelTypeOK
  BY DEF InheritanceInv, TreeInv, NodeTypeOK, InheritanceTypeOK, PanelTypes, PanelTypeOK
<1> QED BY <1>1, PanelInvariant, PTL

-----------------------------------------------------------------------------
(* A step that touches nothing of field g but the target's own flag and    *)
(* value leaves every effective value of g as it was.                      *)
LEMMA OtherFieldsKeepEffective ==
  ASSUME InheritanceInv, EffectiveSolves, EffectiveSolves', NEW g \in Fields,
         parent' = parent,
         \A n \in Nodes : raw'[n][g] = raw[n][g] /\ (g \in inherit'[n] <=> g \in inherit[n])
  PROVE  \A n \in Nodes : Effective'[n][g] = Effective[n][g]
<1> DEFINE bad == {n \in Nodes : Effective'[n][g] # Effective[n][g]}
<1> SUFFICES ASSUME bad # {} PROVE FALSE
  OBVIOUS
<1>1. PICK n \in bad : parent[n] \notin bad
  BY NodesFacts DEF InheritanceInv, TreeInv, Acyclic, Forest!IsForest
<1>2. Effective[n] = Resolved(n, Effective) /\ Effective'[n] = Resolved(n, Effective)'
  BY DEF EffectiveSolves
<1>3. CASE ~InheritanceActive(n) \/ parent[n] = NoNode
  <2>1. Effective[n] = raw[n] /\ Effective'[n] = raw'[n]
    BY <1>2, <1>3 DEF Resolved, InheritanceActive
  <2> QED BY <1>1, <2>1
<1>4. CASE InheritanceActive(n) /\ parent[n] # NoNode
  <2>1. parent[n] \in Nodes
    BY <1>4, ChainUnfold DEF InheritanceInv
  <2>2. Effective'[parent[n]][g] = Effective[parent[n]][g]
    BY <1>1, <2>1
  <2>3. Effective'[n] = Apply(inherit'[n], raw'[n], Effective'[parent[n]])
    BY <1>2, <1>4 DEF Resolved, InheritanceActive, Apply
  <2>4. Effective[n] = Apply(inherit[n], raw[n], Effective[parent[n]])
    BY <1>2, <1>4 DEF Resolved
  <2> QED BY <1>1, <2>2, <2>3, <2>4 DEF Apply
<1> QED BY <1>3, <1>4

(* A refresh shows the model, and where a commit ends before the refresh the *)
(* text stays in its own row and no other row has anything new to show.    *)
LEMMA DisplayStep ==
  ASSUME InheritanceInv, InheritanceInv', PanelTypes, PanelTypes', EffectiveSolves, EffectiveSolves',
         DisplayFollowsModel, [PanelNext]_allVars
  PROVE  DisplayFollowsModel'
<1>0. Displayed(target)' = IF target' = NoNode THEN Blank
        ELSE [f \in Fields |-> IF f \in inherit'[target'] THEN Effective'[target'][f] ELSE raw'[target'][f]]
  BY DEF Displayed, Blank
<1>1. ASSUME NEW n \in Nodes \cup {NoNode}, target' = n, Refresh(n) PROVE DisplayFollowsModel'
  <2>1. shown' = IF n = NoNode THEN Blank
                 ELSE [f \in Fields |-> IF f \in inherit'[n] THEN Effective'[n][f] ELSE raw'[n][f]]
    BY <1>1 DEF Refresh, Displayed, Blank
  <2>2. n # NoNode => ticked' = inherit'[n]
    BY <1>1 DEF Refresh
  <2> QED BY <1>0, <1>1, <2>1, <2>2 DEF DisplayFollowsModel
<1>2. ASSUME NEW f \in Fields, NEW text, NEW box, Commit(f, text, box), target # NoNode,
             box \in {ticked, ticked \ {f}, ticked \cup {f}}
      PROVE  DisplayFollowsModel'
  <2>1. target' = target /\ target \in Nodes /\ parent' = parent
    BY <1>2 DEF Commit, PanelTypes, treeVars
  <2>2. CASE Parses(f, text)
    <3>1. Refresh(target)
      BY <1>2, <2>2 DEF Commit
    <3>2. ASSUME NEW n \in Nodes, n = target PROVE DisplayFollowsModel'
      <4>1. Refresh(n)
        BY <2>1, <3>1, <3>2 DEF Refresh, Displayed, Blank
      <4> QED BY <1>1, <2>1, <3>2, <4>1
    <3> QED BY <2>1, <3>2
  <2>3. CASE ~Parses(f, text)
    <3>1. /\ shown' = [shown EXCEPT ![f] = Malformed] /\ ticked' = box /\ raw' = raw
          /\ inherit' = [inherit EXCEPT ![target] = (@ \ {f}) \cup (box \cap {f})]
      BY <1>2, <2>3 DEF Commit, Parses
    <3>2. inherit'[target] = box
      BY <1>2, <2>1, <3>1 DEF DisplayFollowsModel, InheritanceInv, NodeTypeOK
    <3>3. ASSUME NEW g \in Fields, g # f, shown'[g] # Malformed
          PROVE  shown'[g] = Displayed(target)'[g]
      <4>1. shown'[g] = shown[g] /\ shown[g] = Displayed(target)[g]
        BY <1>2, <3>1, <3>3 DEF PanelTypes, DisplayFollowsModel
      <4>2. \A n \in Nodes : raw'[n][g] = raw[n][g] /\ (g \in inherit'[n] <=> g \in inherit[n])
        BY <2>1, <3>1, <3>3 DEF InheritanceInv, NodeTypeOK
      <4>3. Effective'[target][g] = Effective[target][g]
        BY <2>1, <4>2, OtherFieldsKeepEffective
      <4>4. Displayed(target)[g] = IF g \in inherit[target] THEN Effective[target][g] ELSE raw[target][g]
        BY <1>2 DEF Displayed
      <4>5. Displayed(target)'[g] = IF g \in inherit'[target] THEN Effective'[target][g] ELSE raw'[target][g]
        BY <1>0, <1>2, <2>1
      <4> QED BY <2>1, <4>1, <4>2, <4>3, <4>4, <4>5
    <3>4. shown'[f] = Malformed
      BY <3>1 DEF PanelTypes
    <3> QED BY <2>1, <3>1, <3>2, <3>3, <3>4 DEF DisplayFollowsModel
  <2> QED BY <2>2, <2>3
<1>3. ASSUME NEW n \in Nodes \cup {NoNode}, SetTarget(n) PROVE DisplayFollowsModel'
  BY <1>1, <1>3 DEF SetTarget
<1>4. ASSUME NEW f \in Fields, NEW text, Type(f, text) PROVE DisplayFollowsModel'
  BY <1>2, <1>4 DEF Type
<1>5. ASSUME NEW f \in Inheritable, ClickInherit(f) PROVE DisplayFollowsModel'
  <2> DEFINE box == IF f \in ticked THEN ticked \ {f} ELSE ticked \cup {f}
  <2>1. f \in Fields /\ box \in {ticked, ticked \ {f}, ticked \cup {f}}
    BY InheritanceAssumption
  <2>2. target # NoNode /\ Commit(f, shown[f], box)
    BY <1>5 DEF ClickInherit
  <2> HIDE DEF box
  <2> QED BY <1>2, <2>1, <2>2
<1>6. CASE UNCHANGED allVars
  <2>1. /\ target' = target /\ shown' = shown /\ ticked' = ticked
        /\ raw' = raw /\ inherit' = inherit /\ parent' = parent
    BY <1>6 DEF allVars, panelVars, inheritanceVars, nodeVars, treeVars
  <2> SUFFICES ASSUME target # NoNode, NEW f \in Fields, shown[f] # Malformed
               PROVE  ticked = inherit[target] /\ shown[f] = Displayed(target)'[f]
    BY <2>1 DEF DisplayFollowsModel
  <2>2. target \in Nodes
    BY DEF PanelTypes
  <2>3. Effective'[target][f] = Effective[target][f]
    BY <2>1, <2>2, OtherFieldsKeepEffective
  <2> QED BY <1>0, <2>1, <2>3 DEF DisplayFollowsModel, Displayed
<1> QED BY <1>3, <1>4, <1>5, <1>6 DEF PanelNext

(* However the user edits, every row shows what the model holds for the    *)
(* target, inherited values included, except text that does not parse.     *)
THEOREM DisplayAlwaysFollowsModel ==
  ASSUME NEW chain, IsPath(chain)
  PROVE  PathSpec(chain) => []DisplayFollowsModel
<1>1. PanelInit(chain) => DisplayFollowsModel
  BY DEF PanelInit, DisplayFollowsModel
<1>2. InheritanceInv => EffectiveSolves
  BY EffectiveUnfold DEF InheritanceInv, EffectiveSolves
<1>3. /\ InheritanceInv /\ PanelTypes /\ EffectiveSolves
      /\ (InheritanceInv /\ PanelTypes /\ EffectiveSolves)'
      /\ DisplayFollowsModel /\ [PanelNext]_allVars
      => DisplayFollowsModel'
  BY DisplayStep
<1> QED BY <1>1, <1>2, <1>3, PanelInvariant, PTL DEF PathSpec
=============================================================================
