--------------------------- MODULE PropertiesPanel ---------------------------
(***************************************************************************)
(* internal/ui/properties.go: the editor of one node's raw values and      *)
(* inheritance flags.  A row shows the raw value, or the effective one     *)
(* with the widget disabled while the field is inherited; every edit is    *)
(* committed at once.  The panel runs on the UI goroutine and the tree     *)
(* does not move under it, so a widget event and the commit and refresh it *)
(* causes are one step.                                                    *)
(***************************************************************************)
EXTENDS Inheritance

CONSTANTS Numeric,      \* fields edited as text and parsed by strconv.Atoi
          Malformed     \* text that does not parse

VARIABLES target,     \* PropertiesPanel.node
          shown,      \* what each row's entry displays
          ticked,     \* the rows whose Inherit box is checked
          editable    \* the rows whose value widget is enabled

panelVars == <<target, shown, ticked, editable>>
allVars == <<inheritanceVars, panelVars>>

ASSUME PanelAssumption == Numeric \subseteq Fields /\ Malformed \notin Values

Blank == [f \in Fields |-> Malformed]

(* A chain of containers below a root, ending in a leaf or not.            *)
PanelInit(chain) ==
  /\ parent = [n \in Nodes |-> IF \E i \in 2..Len(chain) : chain[i] = n
                               THEN chain[CHOOSE i \in 1..Len(chain)-1 : chain[i+1] = n]
                               ELSE NoNode]
  /\ children = [c \in Containers |-> IF \E i \in 1..Len(chain)-1 : chain[i] = c
                                      THEN <<chain[1 + CHOOSE i \in 1..Len(chain)-1 : chain[i] = c]>>
                                      ELSE <<>>]
  /\ outcome = "nil"
  /\ raw = [n \in Nodes |-> [f \in Fields |-> Shipped]]
  /\ inherit = [n \in Nodes |-> {}]
  /\ target = NoNode
  /\ shown = Blank
  /\ ticked = {}
  /\ editable = {}

-----------------------------------------------------------------------------
Displayed(n) ==
  IF n = NoNode THEN Blank
  ELSE [f \in Fields |-> IF f \in inherit[n] THEN Effective[n][f] ELSE raw[n][f]]

(* MUTANT: the rows are refreshed before the edit is written.              *)
RefreshEarly(n) ==
  /\ shown' = Displayed(n)
  /\ ticked' = IF n = NoNode THEN {} ELSE inherit[n]
  /\ editable' = IF n = NoNode THEN {} ELSE Fields \ inherit[n]

(* refresh, run on the model as it is after the step.                      *)
Refresh(n) ==
  /\ shown' = Displayed(n)'
  /\ ticked' = IF n = NoNode THEN {} ELSE inherit'[n]
  /\ editable' = IF n = NoNode THEN {} ELSE Fields \ inherit'[n]

(* MUTANT: the rows keep showing a node that was selected before.          *)
SetTargetOnly(n) ==
  /\ UNCHANGED inheritanceVars
  /\ target' = n
  /\ IF target = NoNode THEN Refresh(n) ELSE UNCHANGED <<shown, ticked, editable>>

SetTarget(n) ==
  /\ UNCHANGED inheritanceVars
  /\ target' = n
  /\ Refresh(n)

(* MUTANT: whatever is typed into a numeric row is stored.                 *)
AlwaysParses(f, text) == TRUE

Parses(f, text) == f \notin Numeric \/ text # Malformed

(* commit(row): the flag is written first, then the text; text that does   *)
(* not parse leaves the value, and every other widget, as it was.          *)
Commit(f, text, box) ==
  /\ inherit' = [inherit EXCEPT ![target] = (@ \ {f}) \cup (box \cap {f})]
  /\ UNCHANGED <<treeVars, target>>
  /\ IF Parses(f, text)
     THEN raw' = [raw EXCEPT ![target][f] = text] /\ Refresh(target)
     ELSE /\ shown' = [shown EXCEPT ![f] = text]
          /\ ticked' = box
          /\ UNCHANGED <<raw, editable>>

(* The user types: the widget must be enabled.                             *)
Type(f, text) ==
  /\ target # NoNode
  /\ f \in editable
  /\ text \in Values \/ f \in Numeric
  /\ Commit(f, text, ticked)

(* The user clicks the Inherit box, which is enabled on any target.        *)
ClickInherit(f) ==
  /\ target # NoNode
  /\ Commit(f, shown[f], IF f \in ticked THEN ticked \ {f} ELSE ticked \cup {f})

PanelNext ==
  \/ \E n \in Nodes \cup {NoNode} : SetTarget(n)
  \/ \E f \in Fields, text \in Values \cup {Malformed} : Type(f, text)
  \/ \E f \in Inheritable : ClickInherit(f)

-----------------------------------------------------------------------------
PanelTypeOK ==
  /\ InheritanceTypeOK
  /\ target \in Nodes \cup {NoNode}
  /\ shown \in [Fields -> Values \cup {Malformed}]
  /\ ticked \in SUBSET Inheritable
  /\ editable \in SUBSET Fields

(* Every row shows what the model holds, whichever row was edited last and *)
(* whatever an ancestor passes on, except for text that does not parse.    *)
DisplayFollowsModel ==
  target # NoNode =>
    /\ ticked = inherit[target]
    /\ \A f \in Fields : shown[f] # Malformed => shown[f] = Displayed(target)[f]

(* Ticking Inherit keeps the local value underneath, as the panel's tests  *)
(* ask (properties_test.go, TogglingInherit).                              *)
TickingKeepsLocalValue ==
  [][\A n \in Nodes, f \in Fields :
       f \in inherit'[n] \ inherit[n] => raw'[n][f] = raw[n][f]]_allVars

(* properties_test.go:159-160: "The local override must survive            *)
(* underneath, unmodified, so unchecking Inherit later would restore it    *)
(* rather than losing it."                                                 *)
UntickingRestoresLocalValue ==
  [][\A n \in Nodes, f \in Fields :
       f \in inherit[n] \ inherit'[n] => raw'[n][f] = raw[n][f]]_allVars
=============================================================================
