----------------------------- MODULE Inheritance -----------------------------
(***************************************************************************)
(* internal/connection/inheritance.go on top of the tree: every node keeps *)
(* its own (raw) values and a set of fields it takes from its parent, and  *)
(* Effective resolves them upwards.  A field with no inheritance flag      *)
(* (Name, Hostname, ...) is always local.                                  *)
(***************************************************************************)
EXTENDS ConnectionTree

CONSTANTS Fields,        \* fields of ConnectionValues
          Inheritable,   \* those with a flag in InheritanceFlags
          Values,        \* what a field can hold
          Shipped        \* what a new connection holds

VARIABLES raw,       \* ConnectionInfo.Raw
          inherit    \* ConnectionInfo.Inheritance: the fields whose flag is set

nodeVars == <<raw, inherit>>
inheritanceVars == <<treeVars, nodeVars>>

ASSUME InheritanceAssumption == Inheritable \subseteq Fields /\ Shipped \in Values

InheritanceInit ==
  /\ Init
  /\ raw = [n \in Nodes |-> [f \in Fields |-> Shipped]]
  /\ inherit = [n \in Nodes |-> {}]

-----------------------------------------------------------------------------
(* MUTANT: the children of a root inherit from it.                         *)
ActiveBelowRoots(n) == n \notin Roots

(* A root and the direct children of a root keep their local values.       *)
InheritanceActive(n) == n \notin Roots /\ parent[n] \notin Roots

(* MUTANT: a local value that was edited wins over the flag.               *)
ApplyToUnset(flags, local, inherited) ==
  [f \in Fields |-> IF f \in flags /\ local[f] = Shipped THEN inherited[f] ELSE local[f]]

(* apply: the flagged fields come from the parent's effective values.      *)
Apply(flags, local, inherited) ==
  [f \in Fields |-> IF f \in flags THEN inherited[f] ELSE local[f]]

Effective[n \in Nodes] ==
  IF ~InheritanceActive(n) \/ parent[n] = NoNode
  THEN raw[n]
  ELSE Apply(inherit[n], raw[n], Effective[parent[n]])

SetRaw(n, f, v) ==
  /\ raw' = [raw EXCEPT ![n][f] = v]
  /\ UNCHANGED <<treeVars, inherit>>

SetFlag(n, f, on) ==
  /\ inherit' = [inherit EXCEPT ![n] = IF on THEN @ \cup {f} ELSE @ \ {f}]
  /\ UNCHANGED <<treeVars, raw>>

SetAll(n, on) ==
  /\ inherit' = [inherit EXCEPT ![n] = IF on THEN Inheritable ELSE {}]
  /\ UNCHANGED <<treeVars, raw>>

(* MUTANT: only the direct children get the template's flags.              *)
ApplyInheritanceOneLevel(c) ==
  /\ inherit' = [n \in Nodes |-> IF n \in ToSet(children[c]) THEN inherit[c] ELSE inherit[n]]
  /\ UNCHANGED <<treeVars, raw>>

ApplyInheritanceToChildren(c) ==
  /\ inherit' = [n \in Nodes |-> IF n \in ToSet(Descendants[c]) THEN inherit[c] ELSE inherit[n]]
  /\ UNCHANGED <<treeVars, raw>>

(* Positions among siblings do not matter to inheritance, so one call that *)
(* inserts and one that removes stand for those of ConnectionTree; a call  *)
(* that fails changes nothing and is left to that module.                  *)
MoveNode ==
  /\ \E c \in Containers, h \in Handles : AddChild(c, h) \/ RemoveChild(c, h)
  /\ outcome' \in {"nil", "true"}
  /\ UNCHANGED nodeVars

InheritanceNext ==
  \/ MoveNode
  \/ \E n \in Nodes, f \in Fields, v \in Values : SetRaw(n, f, v)
  \/ \E n \in Nodes, on \in BOOLEAN :
       SetAll(n, on) \/ \E f \in Inheritable : SetFlag(n, f, on)
  \/ \E c \in Containers : ApplyInheritanceToChildren(c)

InheritanceSpec == InheritanceInit /\ [][InheritanceNext]_inheritanceVars

-----------------------------------------------------------------------------
InheritanceTypeOK ==
  /\ TypeOK
  /\ raw \in [Nodes -> [Fields -> Values]]
  /\ inherit \in [Nodes -> SUBSET Inheritable]

(* n and everything above it.                                              *)
Chain(n) == {n} \cup (IF parent[n] = NoNode THEN {} ELSE Forest!AncestorsOrSelf(parent[n], parent))

(* Where the climb for a field stops.                                      *)
KeepsLocal(n, f) == f \notin inherit[n] \/ n \in Roots \/ parent[n] \in Roots \cup {NoNode}

(* Effective resolves each field to the raw value of the nearest node, on  *)
(* the way up, that does not pass the field on to its parent.              *)
EffectiveIsNearestLocal ==
  \A n \in Nodes, f \in Fields :
    \E source \in Chain(n) :
      /\ KeepsLocal(source, f)
      /\ \A m \in Chain(n) : KeepsLocal(m, f) => m \in Chain(source)
      /\ Effective[n][f] = raw[source][f]

(* The values of a root never show through anywhere else: editing a root   *)
(* changes no other node's effective values.                               *)
RootValuesStayAtRoot ==
  [][(\A n \in Nodes \ Roots : raw'[n] = raw[n]) /\ UNCHANGED <<parent, inherit>>
       => \A n \in Nodes \ Roots : Effective'[n] = Effective[n]]_inheritanceVars

(* After ApplyInheritanceToChildren, the fields the template passes on     *)
(* have one value in each whole subtree below the template, whatever was   *)
(* set there before; below a root each child of the root starts its own.   *)
TemplateReachesDescendants ==
  [][\A c \in Containers : ApplyInheritanceToChildren(c) =>
       \A n \in {c} \cup Below(c) : n \notin Roots =>
         \A m \in Below(n), f \in inherit[c] : Effective'[m][f] = Effective'[n][f]]_inheritanceVars
=============================================================================
