---------------------------- MODULE TreeDocuments ----------------------------
(***************************************************************************)
(* What the two file formats (internal/serialize/csv, internal/serialize/  *)
(* xml) share: the tree a reader builds is a value, a record of the fields *)
(* the variables of Inheritance hold for the tree being edited.            *)
(* A node stands for its ID as well, so a document names nodes by it.      *)
(***************************************************************************)
EXTENDS Inheritance

CONSTANTS Zero,          \* "" or false: what a field has of an attribute that is empty
          Enumerators,   \* the texts that name a member of an enumeration
          NewRoot        \* the root a reader makes

VARIABLE file    \* the document on disk, and what it was saved from

documentVars == <<inheritanceVars, file>>

ASSUME DocumentsAssumption ==
  /\ Zero \in Values /\ NewRoot \in Roots
  /\ Enumerators \subseteq Values /\ Shipped \in Enumerators

(* The fields, cut down to one for each thing a format does with some      *)
(* fields and not with others: a column for the value, for the flag, for   *)
(* both or for neither, a column under another name, a filter, encryption  *)
(* of its own, an attribute or none, the versions that decode it and how.  *)
(* Not for every combination of these with a type: a boolean of version    *)
(* 2.7, say, is written as CacheBitmaps is and decoded from RDPVersion's   *)
(* version on.  Domain is filtered as Username is, a port is a text.       *)
ASSUME FieldsAssumption ==
  /\ Inheritable = {"Username", "Password", "Colors", "CacheBitmaps", "RedirectDiskDrives",
                    "RedirectDiskDrivesCustom", "RedirectPorts", "VNCProxyUsername",
                    "VNCProxyPassword", "RedirectAudioCapture", "RDPVersion", "UserViaAPI",
                    "SoundQuality", "Color", "RDGatewayAccessToken"}
  /\ Fields = Inheritable \cup {"Name", "Hostname", "VaultOpenbaoMount"}

(* What a field may hold: true and false, any text, or a text that should  *)
(* name a member of an enumeration (it is typed in like any other).        *)
Booleans == {"CacheBitmaps", "RedirectPorts", "RedirectAudioCapture"}
Enums == {"Colors", "RedirectDiskDrives", "RDPVersion", "SoundQuality"}

NoFile == [format |-> "none"]

DocumentsInit == InheritanceInit /\ file = NoFile

(* NewRootInfo: a root alone, of a new ID; the other nodes as their        *)
(* constructors leave them.                                                *)
NewTree ==
  [up    |-> [n \in Nodes |-> NoNode],
   kids  |-> [c \in Containers |-> <<>>],
   raw   |-> [n \in Nodes |-> [f \in Fields |-> Shipped]],
   flags |-> [n \in Nodes |-> {}],
   rootID |-> "",
   error |-> "nil"]

Refused(error) == [NewTree EXCEPT !.error = error]

(* c.AddChild(n) on the tree t.  Of InsertChild's errors only ErrCycle can *)
(* come of a node that the reader has just made.                           *)
AddFails(t, c, n) == n \in Forest!AncestorsOrSelf(c, t.up)

Added(t, c, n) == [t EXCEPT !.up[n] = c, !.kids[c] = Append(@, n)]

(* n with the values and flags that were read for it.                      *)
Filled(t, n, values, flags) == [t EXCEPT !.raw[n] = values, !.flags[n] = flags]

(* What each element of s contributes, one after the other.                *)
Joined(pieces, s) == FoldLeft(LAMBDA out, x : out \o pieces[x], <<>>, s)

(* SaveFilter: the credentials and the inheritance block a save may leave  *)
(* out (Domain is treated as Username is).                                 *)
SaveFilters == [Username : BOOLEAN, Password : BOOLEAN, Inheritance : BOOLEAN]
SaveAll == [Username |-> TRUE, Password |-> TRUE, Inheritance |-> TRUE]

-----------------------------------------------------------------------------
(* Of a tree value, what WellLinked, Below and Effective say of the tree    *)
(* being edited.                                                           *)
Linked(t) ==
  /\ \A c \in Containers, n \in Nodes : t.up[n] = c <=> n \in ToSet(t.kids[c])
  /\ \A c \in Containers : IsInjective(t.kids[c])

Under(t, c) ==
  {n \in Nodes : n # c /\ t.up[n] # NoNode /\ c \in Forest!AncestorsOrSelf(t.up[n], t.up)}

EffectiveOf(t) ==
  LET Value[n \in Nodes] ==
        IF n \in Roots \/ t.up[n] \in Roots \cup {NoNode} THEN t.raw[n]
        ELSE Apply(t.flags[n], t.raw[n], Value[t.up[n]])
  IN  Value

(* The node and all that is below it.                                      *)
Subtree(top) == {top} \cup Below(top)

(* The tree t is the one below top, hung below the root of a document:     *)
(* every node of it under the same parent and every sibling list in order. *)
SameShape(t, top) ==
  /\ \A c \in Containers \ Roots :
       t.kids[c] = IF c \in Subtree(top) THEN children[c] ELSE <<>>
  /\ t.kids[NewRoot] = IF top \in Roots THEN children[top] ELSE <<top>>
  /\ Linked(t)

(* Of the flags of every node, those came out of the document that a save  *)
(* through the filter keeps.                                               *)
SameFlags(t, top, filter, kept) ==
  \A n \in Subtree(top) \ Roots :
    t.flags[n] = IF filter.Inheritance THEN inherit[n] \cap kept ELSE {}
=============================================================================
