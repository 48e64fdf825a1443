---------------------------- MODULE CsvDocuments ----------------------------
(***************************************************************************)
(* internal/serialize/csv: the semicolon-separated format.  A document is  *)
(* a header and rows of cells; the header the original program publishes   *)
(* does not agree with its rows (two names run together, three exchanged), *)
(* so a reader that finds it goes by position and any other by name.  The  *)
(* table of columns is cut down to one column of every kind it has.        *)
(***************************************************************************)
EXTENDS TreeDocuments

CONSTANTS Ghosts,              \* IDs that no record has
          WithoutSeparator,    \* a text, less its semicolons
          Broken               \* texts that hold a line break

(* No ID is empty: a constructor that gets none makes one.                 *)
ASSUME CsvAssumption ==
  /\ "" \notin Nodes \cup Ghosts
  /\ WithoutSeparator \in [Values -> Values]
  /\ Broken \subseteq Values

Column(header, source, field, filter) ==
  [header |-> header, source |-> source, field |-> field, filter |-> filter]
Meta(header) == Column(header, "meta", header, "none")
Value(header, field) == Column(header, "value", field, "none")
Secret(field) == Column(field, "value", field, field)
Flag(header, field) == Column(header, "flag", field, "none")

columns ==
  << Meta("Name"), Meta("Id"), Meta("Parent"), Meta("NodeType"),
     Secret("Username"), Secret("Password"), Value("Hostname", "Hostname"),
     Value("Colors", "Colors"), Value("CacheBitmaps", "CacheBitmaps"),
     Value("RedirectDiskDrives", "RedirectDiskDrives"),
     Value("RedirectDiskDrivesCustomRedirectPorts", "RedirectDiskDrivesCustom"),
     Value("", "RedirectPorts"), Value("VNCProxyUsername", "VNCProxyUsername"),
     Value("VNCProxyPassword", "VNCProxyPassword"),
     Value("RedirectAudioCapture", "RedirectAudioCapture"),
     Value("RdpVersion", "RDPVersion"), Value("UserViaAPI", "UserViaAPI"),
     Flag("InheritCacheBitmaps", "CacheBitmaps"), Flag("InheritColors", "Colors"),
     Flag("InheritPassword", "Password"), Flag("InheritRedirectDiskDrives", "RedirectDiskDrives"),
     Flag("InheritRedirectDiskDrivesCustom", "RedirectDiskDrivesCustom"),
     Flag("InheritRedirectPorts", "RedirectPorts"), Flag("InheritUsername", "Username"),
     Flag("InheritVNCProxyUsername", "VNCProxyUsername"),
     Flag("InheritVNCProxyPassword", "VNCProxyPassword"),
     Flag("InheritSoundQuality", "SoundQuality"),
     Flag("InheritUserViaAPI", "RedirectAudioCapture"),
     Flag("InheritRedirectAudioCapture", "RDPVersion"),
     Flag("InheritRdpVersion", "UserViaAPI") >>

-----------------------------------------------------------------------------
filterAllows(filter, d) ==
  (d.source = "flag" => filter.Inheritance) /\ (d.filter # "none" => filter[d.filter])

activeColumns(filter) ==
  Joined([d \in ToSet(columns) |-> IF filterAllows(filter, d) THEN <<d>> ELSE <<>>], columns)

publishedHeaders(active) ==
  Joined([d \in ToSet(active) |-> IF d.header = "" THEN <<>> ELSE <<d.header>>], active)

formatBool(b) == IF b THEN "True" ELSE "False"

(* formatValue; only a text can hold a separator.                          *)
formatValue(f, v) == IF f \in Booleans THEN v ELSE WithoutSeparator[v]

(* encodeColumn, and the separators writeRow takes out of what it returns. *)
encodeColumn(n, d) ==
  CASE d.source = "flag" -> formatBool(d.field \in inherit[n])
    [] d.source = "value" -> formatValue(d.field, Effective[n][d.field])
    [] d.source = "meta" /\ d.header = "Name" -> WithoutSeparator[raw[n]["Name"]]
    [] d.source = "meta" /\ d.header = "Id" -> n
    [] d.source = "meta" /\ d.header = "Parent" -> IF parent[n] = NoNode THEN "" ELSE parent[n]
    [] d.source = "meta" /\ d.header = "NodeType" ->
         IF n \in Containers THEN "Container" ELSE "Connection"

(* The nodes in the order of their rows: children first, no root.          *)
serializePostorder[n \in Nodes] ==
  (IF n \in Leaves THEN <<>> ELSE Joined(serializePostorder, children[n]))
  \o (IF n \in Roots THEN <<>> ELSE <<n>>)

CsvSerialize(target, filter) ==
  LET active == activeColumns(filter)
      order == serializePostorder[target]
  IN  [headings |-> publishedHeaders(active),
       rows |-> [i \in DOMAIN order |-> [j \in DOMAIN active |-> encodeColumn(order[i], active[j])]]]

-----------------------------------------------------------------------------
possibleFilters(headings) ==
  [Username    |-> "Username" \in ToSet(headings),
   Password    |-> "Password" \in ToSet(headings),
   Inheritance |-> "InheritCacheBitmaps" \in ToSet(headings)]

(* The names the original runs together or exchanges, when they come in a  *)
(* header that is not the published one, mean what they say.               *)
columnForHeading(heading) ==
  CASE heading \in {"RedirectDiskDrivesCustom", "RedirectPorts"} -> Value(heading, heading)
    [] heading = "InheritUserViaAPI" -> Flag(heading, "UserViaAPI")
    [] heading = "InheritRedirectAudioCapture" -> Flag(heading, "RedirectAudioCapture")
    [] heading = "InheritRdpVersion" -> Flag(heading, "RDPVersion")
    [] OTHER -> LET i == SelectInSeq(columns, LAMBDA d : d.header = heading)
                IN  IF i = 0 THEN Column(heading, "unknown", heading, "none") ELSE columns[i]

(* MUTANT: every document is read by the names in its header.              *)
ColumnsByName(headings) == [i \in DOMAIN headings |-> columnForHeading(headings[i])]

inputColumns(headings) ==
  LET active == activeColumns(possibleFilters(headings))
  IN  IF headings = publishedHeaders(active) THEN active
      ELSE [i \in DOMAIN headings |-> columnForHeading(headings[i])]

(* The last cell of a row that stands for this, <<>> when there is none: a *)
(* row may be shorter than its header, and what it lacks was not read.     *)
CellFor(row, descriptors, Wanted(_)) ==
  LET known == SubSeq(descriptors, 1, IF Len(row) < Len(descriptors) THEN Len(row) ELSE Len(descriptors))
      at == SelectLastInSeq(known, Wanted)
  IN  IF at = 0 THEN <<>> ELSE <<row[at]>>

MetaCell(row, descriptors, header) ==
  LET cell == CellFor(row, descriptors, LAMBDA d : d.source = "meta" /\ d.header = header)
  IN  IF cell = <<>> THEN "" ELSE cell[1]

(* assignField: a cell that is no value of its field, as a text that       *)
(* validEnum does not know, leaves it as made.                             *)
Assignable(f, text) == text \in Values /\ (f \in Enums => text \in Enumerators)

ValueRead(row, descriptors, f) ==
  LET cell == CellFor(row, descriptors,
                LAMBDA d : d.field = f /\ (d.source = "value" \/ (d.source = "meta" /\ f = "Name")))
  IN  IF cell = <<>> \/ ~Assignable(f, cell[1]) THEN Shipped ELSE cell[1]

FlagRead(row, descriptors, f) ==
  <<"True">> = CellFor(row, descriptors, LAMBDA d : d.source = "flag" /\ d.field = f)

decodeRecord(row, descriptors) ==
  [node     |-> MetaCell(row, descriptors, "Id"),
   isContainer |-> MetaCell(row, descriptors, "NodeType") = "Container",
   parentID |-> MetaCell(row, descriptors, "Parent"),
   values   |-> [f \in Fields |-> ValueRead(row, descriptors, f)],
   flags    |-> {f \in Inheritable : FlagRead(row, descriptors, f)}]

(* The one parent that is named and has no record; none if there are more. *)
omittedRootID(records) ==
  LET ids == {records[i].node : i \in DOMAIN records}
      missing == {records[i].parentID : i \in DOMAIN records} \ (ids \cup {""})
  IN  IF Cardinality(missing) = 1 THEN CHOOSE id \in missing : TRUE ELSE ""

(* MUTANT: a record that cannot go where it says is dropped.               *)
AttachOrDrop(t, rec, parentOf) ==
  LET filled == Filled(t, rec.node, rec.values, rec.flags)
  IN  IF AddFails(t, parentOf, rec.node) THEN t ELSE Added(filled, parentOf, rec.node)

(* One turn of the attaching loop: below the parent the record names if it *)
(* is a container, below the root when it is not or AddChild refuses it.   *)
Attach(t, rec, parentOf) ==
  LET filled == Filled(t, rec.node, rec.values, rec.flags)
  IN  Added(filled, IF AddFails(t, parentOf, rec.node) THEN NewRoot ELSE parentOf, rec.node)

HasDuplicate(records) ==
  \E i, j \in DOMAIN records : i < j /\ records[i].node = records[j].node

(* What decodeRecord and omittedRootID see of a document, then the tree.   *)
CsvRecords(document) ==
  LET descriptors == inputColumns(document.headings)
  IN  [i \in DOMAIN document.rows |-> decodeRecord(document.rows[i], descriptors)]

TreeOf(records) ==
  LET containers == {records[i].node : i \in {j \in DOMAIN records : records[j].isContainer}}
      ParentOf(rec) == IF rec.parentID \in containers THEN rec.parentID ELSE NewRoot
  IN  IF HasDuplicate(records) THEN Refused("ErrMalformedRow")
      ELSE FoldLeft(LAMBDA t, rec : Attach(t, rec, ParentOf(rec)),
                    [NewTree EXCEPT !.rootID = omittedRootID(records)], records)

CsvDeserialize(document) == TreeOf(CsvRecords(document))

-----------------------------------------------------------------------------
(* Serialize to a file: a root, or a folder of it, through a filter.       *)
SaveCsv(target, filter) ==
  /\ file' = [format |-> "csv", top |-> target, filter |-> filter,
              document |-> CsvSerialize(target, filter)]
  /\ UNCHANGED inheritanceVars

(* A document written elsewhere, with a header of its own: its rows come   *)
(* one by one, in any order and naming any parent.                         *)
ForeignHeadings == <<"Id", "Parent", "NodeType", "InheritUserViaAPI">>

ForeignRow(n, p) ==
  << n, p, IF n \in Containers THEN "Container" ELSE "Connection", "True" >>

ReceiveRow(n, p) ==
  /\ file.format \in {"none", "foreign"}
  /\ file' = [format |-> "foreign",
              document |-> [headings |-> ForeignHeadings,
                            rows |-> Append(IF file = NoFile THEN <<>> ELSE file.document.rows,
                                            ForeignRow(n, p))]]
  /\ UNCHANGED inheritanceVars

CsvSave ==
  file = NoFile /\ \E target \in Containers, filter \in SaveFilters : SaveCsv(target, filter)

CsvReceive ==
  \E n \in Nodes \ Roots, p \in Nodes \cup Ghosts \cup {""} : ReceiveRow(n, p)

-----------------------------------------------------------------------------
(* What has no column: the value of a field, with the flag or without.     *)
FlagsWithoutColumn == {"Color", "RDGatewayAccessToken"}
ValuesWithoutColumn == FlagsWithoutColumn \cup {"SoundQuality", "VaultOpenbaoMount"}

(* Only the first credentials are filtered, and never the proxy's.         *)
FilteredOut(f, filter) == f \in {"Username", "Password"} /\ ~filter[f]

SavedValue(n, f, filter) ==
  LET written == IF f \in Booleans THEN Effective[n][f] ELSE WithoutSeparator[Effective[n][f]]
  IN  IF \/ FilteredOut(f, filter) \/ f \in ValuesWithoutColumn
         \/ f \in Enums /\ written \notin Enumerators
      THEN Shipped ELSE written

(* The container that the rows name and do not have: the one they hang in.  *)
Above(top) ==
  IF top \in Roots THEN (IF children[top] = <<>> THEN "" ELSE top)
  ELSE IF parent[top] = NoNode THEN "" ELSE parent[top]

IsWhatWasSaved(t, top, filter) ==
  /\ t.error = "nil"
  /\ SameShape(t, top)
  /\ t.rootID = Above(top)
  /\ SameFlags(t, top, filter, Inheritable \ FlagsWithoutColumn)
  /\ \A n \in Subtree(top) \ Roots, f \in Fields : EffectiveOf(t)[n][f] = SavedValue(n, f, filter)

(* Every row of the document is one line of the file: a text with a line   *)
(* break ends its row where it stands, and what the reader then makes of   *)
(* the rest is not modelled.                                               *)
Intact(document) ==
  \A i \in DOMAIN document.rows :
    \A j \in DOMAIN document.rows[i] : document.rows[i][j] \notin Broken

(* What a save of target keeps is read back: the tree below it in its      *)
(* order, the ID of the folder or root above it if a row names it, every   *)
(* flag that has a column, and for each node the effective value of every  *)
(* column that is written, less its separators.  A value that was          *)
(* filtered, has no column or names no member of its enumeration is that   *)
(* of a new connection, and a flag without a column is lost.               *)
CsvReadsBack ==
  file.format = "csv" /\ Intact(file.document) =>
    IsWhatWasSaved(CsvDeserialize(file.document), file.top, file.filter)

Listed(rows) == {rows[i][1] : i \in DOMAIN rows}
Absent(rows) == {rows[i][2] : i \in DOMAIN rows} \ (Listed(rows) \cup {""})
AsksFor(p, listed) == IF p \in (Containers \ Roots) \cap listed THEN p ELSE NewRoot

HoldsEveryRecord(t, rows) ==
  IF Cardinality(Listed(rows)) < Len(rows) THEN t.error = "ErrMalformedRow"
  ELSE /\ t.error = "nil"
       /\ Absent(rows) = {t.rootID} \/ (Cardinality(Absent(rows)) # 1 /\ t.rootID = "")
       /\ Linked(t) /\ Forest!IsForest(t.up)
       /\ Under(t, NewRoot) = Listed(rows)
       /\ \A i \in DOMAIN rows :
            LET n == rows[i][1]  wanted == AsksFor(rows[i][2], Listed(rows))
            IN  /\ t.up[n] = wanted \/ (t.up[n] = NewRoot /\ n \in Forest!AncestorsOrSelf(wanted, t.up))
                /\ t.flags[n] = {"UserViaAPI"}

(* Whatever a document from elsewhere says of parents (a parent listed     *)
(* later or not at all, a node below itself, two nodes below each other):  *)
(* it is refused only for an ID that comes twice, and otherwise every      *)
(* record is in the tree once, under a root it can be reached from, where  *)
(* the record asks for unless that would close a cycle.                    *)
CsvLoadsEveryRecord ==
  file.format = "foreign" => HoldsEveryRecord(CsvDeserialize(file.document), file.document.rows)
=============================================================================
