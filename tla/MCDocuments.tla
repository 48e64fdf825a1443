----------------------------- MODULE MCDocuments -----------------------------
(* A root, two folders and a connection.  Trees with every node in them    *)
(* are edited and saved: one field at a time, at most MaxEdits values and  *)
(* its flag at one node (at MaxFlags for the password), or all flags there *)
(* with a value of the password; at the root, which is not in a document,  *)
(* only its name, a value nobody inherits and the flags of a template.     *)
(* Fields other than these and the credentials are edited where one folder *)
(* holds the rest.  The two credentials are filtered together, filters and *)
(* passwords only vary where a credential was edited or nothing was, and a *)
(* folder is saved alone without a filter.  Foreign documents have up to   *)
(* MaxRows rows.  The texts are spelled so that they show what the readers *)
(* do with them.                                                           *)
EXTENDS Documents

CONSTANTS default, other, root, folderA, folderB, host, ghostA, ghostB, MaxEdits, MaxFlags, MaxRows

MCRoots == {root}
MCContainers == {root, folderA, folderB}
MCLeaves == {host}
MCInheritable == {"Username", "Password", "Colors", "CacheBitmaps", "RedirectDiskDrives",
                  "RedirectDiskDrivesCustom", "RedirectPorts", "VNCProxyUsername",
                  "VNCProxyPassword", "RedirectAudioCapture", "RDPVersion", "UserViaAPI",
                  "SoundQuality", "Color", "RDGatewayAccessToken"}
MCFields == MCInheritable \cup {"Name", "Hostname", "VaultOpenbaoMount"}
MCValues == {"shipped", "member", "MEMBER", "member;", " member", "true", "two lines", ""}
MCEnumerators == {"shipped", "member", "MEMBER"}
MCCanonical == [v \in MCEnumerators |-> IF v = "MEMBER" THEN "member" ELSE v]
MCTrues == {"true"}
MCBroken == {"two lines"}
MCPasswords == {default, other}
MCGhosts == {ghostA, ghostB}
MCWithoutSeparator == [v \in MCValues |-> IF v = "member;" THEN "member" ELSE v]
MCTrimmed == [v \in MCValues |-> IF v = " member" THEN "member" ELSE v]

(* The values a field is set to: of an enumeration, a member in another    *)
(* spelling and one only without its separators, of RedirectDiskDrives     *)
(* true as well.                                                           *)
Edits(f) ==
  CASE f = "RedirectDiskDrives" -> {"MEMBER", "member;", "true"}
    [] f \in Enums -> {"MEMBER", "member;"}
    [] f = "Name" -> {"member;", " member"}
    [] f = "UserViaAPI" -> {"member;", "two lines"}
    [] OTHER -> {"member;"}

Edited == {n \in Nodes : \E f \in Fields : raw[n][f] # Shipped}
Flagged == {n \in Nodes : inherit[n] # {}}
Whole == Below(root) = Nodes \ {root}

Full == {n \in Nodes : inherit[n] = Inheritable}
Touched == {f \in Fields : \/ \E n \in Nodes : raw[n][f] # Shipped
                           \/ \E n \in Nodes \ Full : f \in inherit[n]}

Credentials == {"Username", "VNCProxyUsername"} \cup Secrets

EditsInScope ==
  LET edited == Edited
      flagged == Flagged
      full == Full
      touched == Touched
  IN  /\ Cardinality(edited) <= MaxEdits
      /\ Cardinality(touched) <= 1
      /\ Cardinality(flagged) <= IF touched = {"Password"} THEN MaxFlags ELSE 1
      /\ edited \cup flagged = {} \/ Whole
      /\ full # {} => touched \subseteq {"Password"}
      /\ root \in edited => touched \subseteq {"Name", "Username"}
      /\ root \in flagged => root \in full
      /\ touched \subseteq Credentials \cup {"Name"} \/ Len(children[root]) = 1
      /\ \A f \in touched, n \in edited : raw[n][f] \in Edits(f)

SaveInScope ==
  LET filter == IF file.format = "csv" THEN file.filter ELSE file.options.filter
  IN  /\ filter.Username = filter.Password
      /\ file.format = "csv" /\ file.top \notin Roots => filter = SaveAll
      /\ \/ Touched \subseteq Credentials
         \/ filter.Username /\ (file.format = "xml" => file.options.password = default)

RowsInScope ==
  file.format = "foreign" => /\ Len(file.document.rows) <= MaxRows
                             /\ \A n \in Nodes : parent[n] = NoNode
                             /\ Edited \cup Flagged = {}

(* Where nothing more may be edited, only saves are left to look at.       *)
EditsLeft ==
  \/ Cardinality(Edited) < MaxEdits
  \/ Cardinality(Flagged) < IF Touched \subseteq {"Password"} THEN MaxFlags ELSE 1

MCNext ==
  \/ EditsLeft /\ Edit /\ EditsInScope'
  \/ Whole /\ (CsvSave \/ XmlSave) /\ SaveInScope'
  \/ CsvReceive /\ RowsInScope'

MCSpec == DocumentsInit /\ [][MCNext]_documentVars

Interchangeable == Permutations({folderA, folderB}) \cup Permutations({ghostA, ghostB})
=============================================================================
