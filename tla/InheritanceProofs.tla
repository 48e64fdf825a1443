-------------------------- MODULE InheritanceProofs --------------------------
(***************************************************************************)
(* Theorems about Inheritance, for any tree, fields and values.            *)
(***************************************************************************)
EXTENDS Inheritance, ConnectionTreeProofs

(* A step of the nodes' values and flags is a step of the tree or leaves it *)
(* alone.                                                                  *)
LEMMA InheritanceUsesTree == [InheritanceNext]_inheritanceVars => [TreeNext]_treeVars
<1>1. MoveNode => TreeNext
  BY DEF MoveNode, TreeNext
<1>2. ASSUME NEW n \in Nodes, NEW f, NEW v, SetRaw(n, f, v) PROVE UNCHANGED treeVars
  BY <1>2 DEF SetRaw
<1>3. ASSUME NEW n \in Nodes, NEW f, NEW on \in BOOLEAN, SetAll(n, on) \/ SetFlag(n, f, on)
      PROVE  UNCHANGED treeVars
  BY <1>3 DEF SetAll, SetFlag
<1>4. ASSUME NEW c \in Containers, ApplyInheritanceToChildren(c) PROVE UNCHANGED treeVars
  BY <1>4 DEF ApplyInheritanceToChildren
<1>5. UNCHANGED inheritanceVars => UNCHANGED treeVars
  BY DEF inheritanceVars
<1> QED BY <1>1, <1>2, <1>3, <1>4, <1>5 DEF InheritanceNext

(* Editing values and flags moves no node, so what is proved of the tree   *)
(* holds of a tree whose nodes inherit.                                    *)
THEOREM InheritanceRefinesTree == InheritanceSpec => Spec
<1>1. InheritanceInit => Init
  BY DEF InheritanceInit
<1> QED BY <1>1, InheritanceUsesTree, PTL DEF InheritanceSpec, Spec

(* The climb to a parent's values never comes back to where it started.    *)
THEOREM InheritanceClimbsAForest == InheritanceSpec => [](Acyclic /\ RootsDetached)
  BY InheritanceRefinesTree, TreeStaysAcyclic, PTL

-----------------------------------------------------------------------------
(* The types of the fields a single node has.                              *)
NodeTypeOK ==
  /\ raw \in [Nodes -> [Fields -> Values]]
  /\ inherit \in [Nodes -> SUBSET Inheritable]

(* Values and flags have their types at first ...                          *)
LEMMA NodeTypeInit == InheritanceInit => NodeTypeOK
  BY InheritanceAssumption DEF InheritanceInit, NodeTypeOK

(* ... and after each step.                                                *)
LEMMA NodeTypeStep == NodeTypeOK /\ [InheritanceNext]_inheritanceVars => NodeTypeOK'
<1> SUFFICES ASSUME NodeTypeOK, [InheritanceNext]_inheritanceVars PROVE NodeTypeOK'
  OBVIOUS
<1> USE DEF NodeTypeOK
<1>1. CASE MoveNode
  BY <1>1 DEF MoveNode, nodeVars
<1>2. ASSUME NEW n \in Nodes, NEW f \in Fields, NEW v \in Values, SetRaw(n, f, v)
      PROVE  NodeTypeOK'
  BY <1>2 DEF SetRaw
<1>3. ASSUME NEW n \in Nodes, NEW on \in BOOLEAN, SetAll(n, on) PROVE NodeTypeOK'
  BY <1>3 DEF SetAll
<1>4. ASSUME NEW n \in Nodes, NEW on \in BOOLEAN, NEW f \in Inheritable, SetFlag(n, f, on)
      PROVE  NodeTypeOK'
  <2>1. CASE on
    BY <1>4, <2>1 DEF SetFlag
  <2>2. CASE ~on
    BY <1>4, <2>2 DEF SetFlag
  <2> QED BY <2>1, <2>2
<1>5. ASSUME NEW c \in Containers, ApplyInheritanceToChildren(c) PROVE NodeTypeOK'
  <2>1. c \in Nodes
    BY DEF Nodes
  <2> QED BY <1>5, <2>1 DEF ApplyInheritanceToChildren
<1>6. CASE UNCHANGED inheritanceVars
  BY <1>6 DEF inheritanceVars, nodeVars
<1> QED BY <1>1, <1>2, <1>3, <1>4, <1>5, <1>6 DEF InheritanceNext

(* Values stay values, and no node gets a flag for a field that has none.  *)
THEOREM InheritanceTypeCorrect == InheritanceSpec => []InheritanceTypeOK
<1>1. InheritanceSpec => []TypeOK
  BY InheritanceRefinesTree, TreeTypeCorrect, PTL
<1>2. TypeOK /\ NodeTypeOK => InheritanceTypeOK
  BY DEF NodeTypeOK, InheritanceTypeOK
<1> QED BY <1>1, <1>2, NodeTypeInit, NodeTypeStep, PTL DEF InheritanceSpec

(***************************************************************************)
(* Effective: where the climb for a field ends, and the equation.          *)
(***************************************************************************)
(* The nodes whose raw value a field of n can come from (there is one).    *)
Sources(n, f) ==
  {s \in Chain(n) : KeepsLocal(s, f) /\ \A m \in Chain(n) : KeepsLocal(m, f) => m \in Chain(s)}

(* The chain of a node is the node and the chain of its parent.            *)
LEMMA ChainUnfold ==
  ASSUME TreeInv, NEW n \in Nodes
  PROVE  /\ parent[n] = NoNode => Chain(n) = {n}
         /\ parent[n] # NoNode => parent[n] \in Nodes /\ Chain(n) = {n} \cup Chain(parent[n])
<1>1. parent \in [Nodes -> Containers \cup {NoNode}] /\ Containers \subseteq Nodes
  BY NodesFacts DEF TreeInv, TypeOK
<1>2. ASSUME parent[n] # NoNode PROVE Chain(parent[n]) = Forest!AncestorsOrSelf(parent[n], parent)
  BY <1>1, <1>2, AncestorsUnfold DEF Chain
<1> QED BY <1>1, <1>2 DEF Chain

(* Two nodes in each other's chain are one node.                           *)
LEMMA ChainAntisymmetric ==
  ASSUME TreeInv, NEW n \in Nodes, NEW s \in Chain(n), n \in Chain(s)
  PROVE  s = n
<1> SUFFICES ASSUME s # n PROVE FALSE
  OBVIOUS
<1>1. /\ parent \in [Nodes -> Containers \cup {NoNode}] /\ Forest!IsForest(parent)
  BY DEF TreeInv, TypeOK, Acyclic
<1>2. parent[n] # NoNode /\ parent[n] \in Containers /\ s \in Forest!AncestorsOrSelf(parent[n], parent)
  BY <1>1 DEF Chain
<1>3. s \in Containers /\ Forest!AncestorsOrSelf(s, parent) \subseteq Forest!AncestorsOrSelf(parent[n], parent)
  BY <1>1, <1>2, AncestorsTransitive
<1>4. n \in Forest!AncestorsOrSelf(s, parent)
  BY <1>1, <1>3, AncestorsUnfold DEF Chain
<1> QED BY <1>1, <1>2, <1>3, <1>4, AncestorsAbove

(* A field comes from the node itself, or from where its parent has it from. *)
LEMMA SourcesUnfold ==
  ASSUME TreeInv, NEW n \in Nodes, NEW f
  PROVE  /\ KeepsLocal(n, f) => Sources(n, f) = {n}
         /\ ~KeepsLocal(n, f) => parent[n] \in Nodes /\ Sources(n, f) = Sources(parent[n], f)
<1>1. n \in Chain(n)
  BY DEF Chain
<1>2. ASSUME KeepsLocal(n, f) PROVE Sources(n, f) = {n}
  BY <1>1, <1>2, ChainAntisymmetric DEF Sources
<1>3. ASSUME ~KeepsLocal(n, f)
      PROVE  parent[n] \in Nodes /\ Sources(n, f) = Sources(parent[n], f)
  <2>1. parent[n] # NoNode
    BY <1>3 DEF KeepsLocal
  <2>2. parent[n] \in Nodes /\ Chain(n) = {n} \cup Chain(parent[n])
    BY <2>1, ChainUnfold
  <2> QED BY <1>3, <2>2 DEF Sources
<1> QED BY <1>2, <1>3

(* What Effective[n] is in terms of Effective[parent[n]].                  *)
Resolved(n, effective) ==
  IF ~InheritanceActive(n) \/ parent[n] = NoNode
  THEN raw[n]
  ELSE Apply(inherit[n], raw[n], effective[parent[n]])

(* Effective satisfies the equation it is defined by.                      *)
LEMMA EffectiveUnfold ==
  ASSUME TreeInv, NodeTypeOK
  PROVE  Effective = [n \in Nodes |-> Resolved(n, Effective)]
<1> DEFINE Solves(g) == g = [n \in Nodes |-> IF ~InheritanceActive(n) \/ parent[n] = NoNode
                                             THEN raw[n]
                                             ELSE Apply(inherit[n], raw[n], g[parent[n]])]
           Source(n, f) == CHOOSE s : s \in Sources(n, f)
           h == [n \in Nodes |-> [f \in Fields |-> raw[Source(n, f)][f]]]
<1>1. Effective = CHOOSE g : Solves(g)
  BY Zenon DEF Effective
<1>2. ASSUME NEW n \in Nodes, NEW f \in Fields
      PROVE  /\ KeepsLocal(n, f) => Source(n, f) = n
             /\ ~KeepsLocal(n, f) => parent[n] \in Nodes /\ Source(n, f) = Source(parent[n], f)
  BY SourcesUnfold
<1> HIDE DEF Source
<1>3. ASSUME NEW n \in Nodes
      PROVE  h[n] = IF ~InheritanceActive(n) \/ parent[n] = NoNode
                    THEN raw[n]
                    ELSE Apply(inherit[n], raw[n], h[parent[n]])
  <2>1. CASE ~InheritanceActive(n) \/ parent[n] = NoNode
    <3>1. \A f \in Fields : Source(n, f) = n
      BY <1>2, <2>1 DEF KeepsLocal, InheritanceActive
    <3>2. h[n] = [f \in Fields |-> raw[n][f]]
      BY <3>1
    <3>3. raw[n] = [f \in Fields |-> raw[n][f]]
      BY DEF NodeTypeOK
    <3> QED BY <2>1, <3>2, <3>3
  <2>2. CASE InheritanceActive(n) /\ parent[n] # NoNode
    <3>1. parent[n] \in Nodes
      BY <2>2, ChainUnfold
    <3>2. ASSUME NEW f \in Fields
          PROVE  h[n][f] = IF f \in inherit[n] THEN h[parent[n]][f] ELSE raw[n][f]
      <4>1. KeepsLocal(n, f) <=> f \notin inherit[n]
        BY <2>2 DEF KeepsLocal, InheritanceActive
      <4> QED BY <1>2, <3>1, <4>1
    <3>3. h[n] = [f \in Fields |-> IF f \in inherit[n] THEN h[parent[n]][f] ELSE raw[n][f]]
      <4> DEFINE hn == h[n]
      <4>1. hn = [f \in Fields |-> hn[f]]
        OBVIOUS
      <4> HIDE DEF h
      <4> QED BY <3>2, <4>1
    <3> HIDE DEF h
    <3> QED BY <2>2, <3>3 DEF Apply
  <2> QED BY <2>1, <2>2
<1>4. Solves(h)
  <2>1. h = [n \in Nodes |-> h[n]]
    OBVIOUS
  <2> HIDE DEF h
  <2> QED BY <1>3, <2>1
<1>5. Solves(Effective)
  <2> HIDE DEF Solves, h
  <2> QED BY <1>1, <1>4
<1> QED BY <1>5 DEF Resolved

(* Each field of Effective[n] is the raw value of a source.                *)
LEMMA EffectiveValue ==
  ASSUME TreeInv, NodeTypeOK, NEW f \in Fields
  PROVE  \A n \in Nodes : \E s \in Sources(n, f) : Effective[n][f] = raw[s][f]
<1> DEFINE bad == {n \in Nodes : ~ \E s \in Sources(n, f) : Effective[n][f] = raw[s][f]}
<1> SUFFICES ASSUME bad # {} PROVE FALSE
  OBVIOUS
<1>1. PICK n \in bad : parent[n] \notin bad
  BY NodesFacts DEF TreeInv, Acyclic, Forest!IsForest
<1>2. Effective[n] = Resolved(n, Effective)
  BY EffectiveUnfold
<1>3. CASE KeepsLocal(n, f)
  <2>1. Effective[n][f] = raw[n][f]
    BY <1>2, <1>3 DEF Resolved, Apply, KeepsLocal, InheritanceActive
  <2> QED BY <1>3, <2>1, SourcesUnfold
<1>4. CASE ~KeepsLocal(n, f)
  <2>1. Effective[n][f] = Effective[parent[n]][f]
    BY <1>2, <1>4 DEF Resolved, Apply, KeepsLocal, InheritanceActive
  <2>2. parent[n] \in Nodes /\ Sources(n, f) = Sources(parent[n], f)
    BY <1>4, SourcesUnfold
  <2> QED BY <1>1, <2>1, <2>2
<1> QED BY <1>3, <1>4

(* Each of these sources is the nearest node that keeps the field.         *)
LEMMA NearestLocal == TreeInv /\ NodeTypeOK => EffectiveIsNearestLocal
BY EffectiveValue DEF EffectiveIsNearestLocal, Sources

(* Effective returns a value for every field of every node.                *)
LEMMA EffectiveType ==
  ASSUME TreeInv, NodeTypeOK
  PROVE  Effective \in [Nodes -> [Fields -> Values]]
<1>1. ASSUME NEW n \in Nodes, NEW f \in Fields PROVE Effective[n][f] \in Values
  <2>1. PICK s \in Sources(n, f) : Effective[n][f] = raw[s][f]
    BY EffectiveValue
  <2>2. s \in Nodes
    BY NodesFacts DEF Sources, Chain, Forest!AncestorsOrSelf
  <2> QED BY <2>1, <2>2 DEF NodeTypeOK
<1>2. ASSUME NEW n \in Nodes PROVE Effective[n] = [f \in Fields |-> Effective[n][f]]
  <2>1. Effective[n] = Resolved(n, Effective)
    BY EffectiveUnfold
  <2>2. raw[n] = [f \in Fields |-> raw[n][f]]
    BY DEF NodeTypeOK
  <2> QED BY <2>1, <2>2 DEF Resolved, Apply
<1>3. ASSUME NEW n \in Nodes PROVE Effective[n] \in [Fields -> Values]
  BY <1>1, <1>2
<1>4. Effective = [n \in Nodes |-> Effective[n]]
  BY EffectiveUnfold
<1> QED BY <1>3, <1>4

(* What the two steps below need of a state.                               *)
InheritanceInv == TreeInv /\ NodeTypeOK

(* Both hold in every reachable state ...                                  *)
LEMMA InheritanceInvariant == InheritanceSpec => []InheritanceInv
<1>1. InheritanceSpec => []TreeInv
  <2>1. Spec => []TreeInv
    BY TreeInit, TreeStep, PTL DEF Spec
  <2> QED BY InheritanceRefinesTree, <2>1, PTL
<1>2. InheritanceSpec => []NodeTypeOK
  BY NodeTypeInit, NodeTypeStep, PTL DEF InheritanceSpec
<1> QED BY <1>1, <1>2, PTL DEF InheritanceInv

(* In any tree the program can build, every effective value is the raw value *)
(* of the nearest node, on the way up, that does not pass the field on.    *)
THEOREM EffectiveAlwaysNearestLocal == InheritanceSpec => []EffectiveIsNearestLocal
<1>1. InheritanceInv => EffectiveIsNearestLocal
  BY NearestLocal DEF InheritanceInv
<1> QED BY <1>1, InheritanceInvariant, PTL

(* Effective satisfies its equation.                                       *)
EffectiveSolves == \A n \in Nodes : Effective[n] = Resolved(n, Effective)

(* ... and so does the equation of Effective, before a step and after it.  *)
LEMMA EffectiveAlwaysSolves == InheritanceSpec => []EffectiveSolves
<1>1. InheritanceInv => EffectiveSolves
  BY EffectiveUnfold DEF InheritanceInv, EffectiveSolves
<1> QED BY <1>1, InheritanceInvariant, PTL

(* What RootValuesStayAtRoot says of one step.                             *)
RootStep ==
  (\A n \in Nodes \ Roots : raw'[n] = raw[n]) /\ UNCHANGED <<parent, inherit>>
    => \A n \in Nodes \ Roots : Effective'[n] = Effective[n]

(* From the top down: a node below a root's child has the values of its    *)
(* parent, and a root's child its own.                                     *)
LEMMA RootKeepsOthers ==
  ASSUME InheritanceInv, EffectiveSolves, EffectiveSolves'
  PROVE  RootStep
<1> SUFFICES ASSUME \A n \in Nodes \ Roots : raw'[n] = raw[n], parent' = parent, inherit' = inherit
             PROVE  \A n \in Nodes \ Roots : Effective'[n] = Effective[n]
  BY DEF RootStep
<1> DEFINE bad == {n \in Nodes \ Roots : Effective'[n] # Effective[n]}
<1> SUFFICES ASSUME bad # {} PROVE FALSE
  OBVIOUS
<1>1. PICK n \in bad : parent[n] \notin bad
  BY NodesFacts DEF InheritanceInv, TreeInv, Acyclic, Forest!IsForest
<1>2. Effective[n] = Resolved(n, Effective) /\ Effective'[n] = Resolved(n, Effective)'
  BY DEF EffectiveSolves
<1>3. CASE ~InheritanceActive(n) \/ parent[n] = NoNode
  BY <1>2, <1>3 DEF Resolved, InheritanceActive
<1>4. CASE InheritanceActive(n) /\ parent[n] # NoNode
  <2>1. parent[n] \in Nodes \ Roots
    BY <1>4, ChainUnfold DEF InheritanceActive, InheritanceInv
  <2>2. Effective'[parent[n]] = Effective[parent[n]]
    BY <1>1, <2>1
  <2>3. Resolved(n, Effective)' = Apply(inherit[n], raw[n], Effective'[parent[n]])
    BY <1>4 DEF Resolved, InheritanceActive, Apply
  <2>4. Resolved(n, Effective) = Apply(inherit[n], raw[n], Effective[parent[n]])
    BY <1>4 DEF Resolved
  <2> QED BY <1>1, <1>2, <2>2, <2>3, <2>4
<1> QED BY <1>3, <1>4

(* Editing a root changes the effective values of no node but a root, at any *)
(* depth (hasInheritanceActive, inheritance.go).                           *)
THEOREM RootValuesAlwaysStayAtRoot == InheritanceSpec => RootValuesStayAtRoot
<1>1. InheritanceInv /\ EffectiveSolves /\ EffectiveSolves' => RootStep
  BY RootKeepsOthers
<1>2. InheritanceSpec => [][RootStep]_inheritanceVars
  BY <1>1, InheritanceInvariant, EffectiveAlwaysSolves, PTL
<1> QED BY <1>2 DEF RootStep, RootValuesStayAtRoot

(* The parent of a node below n is n or below it, and what is below n is   *)
(* below whatever n is below.                                              *)
LEMMA BelowFacts ==
  ASSUME TreeInv, NEW n \in Nodes, NEW m \in Below(n)
  PROVE  /\ parent[m] \in Containers /\ parent[m] \notin Roots \ {n}
         /\ parent[m] = n \/ parent[m] \in Below(n)
         /\ \A c \in Nodes : n \in Below(c) => m \in Below(c)
<1>1. /\ parent \in [Nodes -> Containers \cup {NoNode}] /\ Forest!IsForest(parent)
      /\ NoNode \notin Containers /\ Containers \subseteq Nodes
  BY NodesFacts DEF TreeInv, TypeOK, Acyclic
<1>2. /\ m \in Nodes /\ parent[m] \in Containers /\ parent[m] # NoNode
      /\ n \in Forest!AncestorsOrSelf(parent[m], parent)
  BY <1>1 DEF Below
<1>3. parent[m] = n \/ parent[m] \in Below(n)
  <2> SUFFICES ASSUME parent[m] # n PROVE parent[m] \in Below(n)
    OBVIOUS
  <2>1. parent[parent[m]] # NoNode /\ n \in Forest!AncestorsOrSelf(parent[parent[m]], parent)
    BY <1>1, <1>2, AncestorsUnfold
  <2> QED BY <1>1, <1>2, <2>1 DEF Below
<1>4. parent[m] \notin Roots \ {n}
  BY <1>3 DEF Below, TreeInv, RootsDetached
<1>5. ASSUME NEW c \in Nodes, n \in Below(c) PROVE m \in Below(c)
  <2>1. /\ n \in Containers /\ parent[n] \in Containers /\ parent[n] # NoNode
        /\ c \in Forest!AncestorsOrSelf(parent[n], parent)
    BY <1>1, <1>2, <1>5 DEF Below, Forest!AncestorsOrSelf
  <2>2. c \in Forest!AncestorsOrSelf(n, parent)
    BY <1>1, <2>1, AncestorsUnfold
  <2>3. c \in Forest!AncestorsOrSelf(parent[m], parent)
    BY <1>1, <1>2, <2>2, AncestorsTransitive
  <2>4. m # c
    BY <1>1, <1>2, <2>3, AncestorsAbove
  <2> QED BY <1>2, <2>3, <2>4 DEF Below
<1> QED BY <1>2, <1>3, <1>4, <1>5

(* What TemplateReachesDescendants says of one step.                       *)
TemplateStep ==
  \A c \in Containers : ApplyInheritanceToChildren(c) =>
    \A n \in {c} \cup Below(c) : n \notin Roots =>
      \A m \in Below(n), f \in inherit[c] : Effective'[m][f] = Effective'[n][f]

(* From the top down: below n every node now takes the field from its parent. *)
LEMMA TemplateReaches ==
  ASSUME InheritanceInv, EffectiveSolves'
  PROVE  TemplateStep
<1> SUFFICES ASSUME NEW c \in Containers, ApplyInheritanceToChildren(c),
                    NEW n \in {c} \cup Below(c), n \notin Roots, NEW f \in inherit[c]
             PROVE  \A m \in Below(n) : Effective'[m][f] = Effective'[n][f]
  BY DEF TemplateStep
<1>0. /\ TreeInv /\ c \in Nodes /\ n \in Nodes /\ f \in Fields /\ Below(n) \subseteq Nodes
      /\ parent \in [Nodes -> Containers \cup {NoNode}]
  BY NodesFacts, InheritanceAssumption DEF InheritanceInv, NodeTypeOK, Below, TreeInv, TypeOK
<1> DEFINE bad == {m \in Below(n) : Effective'[m][f] # Effective'[n][f]}
<1> SUFFICES ASSUME bad # {} PROVE FALSE
  OBVIOUS
<1>1. PICK m \in bad : parent[m] \notin bad
  BY <1>0, NodesFacts DEF TreeInv, Acyclic, Forest!IsForest
<1>2. /\ parent[m] \in Containers /\ parent[m] \notin Roots \ {n}
      /\ parent[m] = n \/ parent[m] \in Below(n)
      /\ m \in Below(c)
  BY <1>0, BelowFacts
<1>3. Effective'[parent[m]][f] = Effective'[n][f]
  BY <1>1, <1>2
<1>4. m \in Nodes /\ m \notin Roots /\ parent[m] \notin Roots /\ parent[m] # NoNode
  BY <1>0, <1>2, NodesFacts DEF TreeInv, RootsDetached
<1>5. inherit'[m] = inherit[c] /\ parent' = parent
  BY <1>0, <1>2, <1>4, DescendantsAreBelow DEF ApplyInheritanceToChildren, treeVars
<1>6. Effective'[m] = Apply(inherit[c], raw'[m], Effective'[parent[m]])
  <2>1. Effective'[m] = Resolved(m, Effective)'
    BY <1>4 DEF EffectiveSolves
  <2> QED BY <1>4, <1>5, <2>1 DEF Resolved, InheritanceActive, Apply
<1> QED BY <1>0, <1>1, <1>3, <1>6 DEF Apply

(* ApplyInheritanceToChildren gives each whole subtree below the template one *)
(* value per inherited field, however deep it is.                          *)
THEOREM TemplateAlwaysReachesDescendants == InheritanceSpec => TemplateReachesDescendants
<1>1. InheritanceInv /\ EffectiveSolves' => TemplateStep
  BY TemplateReaches
<1>2. InheritanceSpec => [][TemplateStep]_inheritanceVars
  BY <1>1, InheritanceInvariant, EffectiveAlwaysSolves, PTL
<1> QED BY <1>2 DEF TemplateStep, TemplateReachesDescendants
=============================================================================
