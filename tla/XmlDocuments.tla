---------------------------- MODULE XmlDocuments ----------------------------
(***************************************************************************)
(* internal/serialize/xml: the nested format of the connections file.  A   *)
(* document has the root's attributes and its Node elements, or these as   *)
(* one ciphertext; an element has the attributes of its node and, in a     *)
(* container, the elements of the children.                                *)
(***************************************************************************)
EXTENDS TreeDocuments, Aead

CONSTANTS Passwords, defaultPassword,
          Trimmed,    \* a text, less the space around it
          Canonical,  \* a member's own spelling; the case of letters does not matter
          Trues,      \* texts that strconv.ParseBool reads as true
          Local,      \* the drives a true stands for in the older versions
          Highest     \* the version of RDP that stands for an unknown one

ASSUME PasswordAssumption == defaultPassword \in Passwords
ASSUME TextsAssumption ==
  /\ Trimmed \in [Values -> Values] /\ Canonical \in [Enumerators -> Enumerators]
  /\ {Local, Highest} \subseteq Enumerators

(* A value as a text to encrypt, and an attribute's text as a value: Zero  *)
(* is the empty one.                                                       *)
Plain(v) == IF v = Zero THEN <<>> ELSE <<v>>

decryptAttribute(ciphertext) ==
  LET text == Decrypt(ciphertext) IN IF text = <<>> THEN Zero ELSE text[1]

filteredString(v, include) == IF include THEN v ELSE Zero

Secrets == {"Password", "VNCProxyPassword", "RDGatewayAccessToken"}

(* The password is not written where it is inherited, as its owner writes  *)
(* it; the other secrets are written all the same.                         *)
secretAttribute(n, f, options) ==
  IF options.filter.Password /\ (f = "Password" => f \notin inherit[n])
  THEN Encrypt(Plain(Effective[n][f]), options.password) ELSE <<>>

(* One attribute per flag (Color has none), or none at all.                *)
inheritanceAttributes(n, filter) == IF filter.Inheritance THEN inherit[n] \ {"Color"} ELSE {}

(* The attributes of a node: its effective values, its own name and flags. *)
nodeAttributes(n, options) ==
  [type    |-> IF n \in Containers THEN "Container" ELSE "Connection",
   id      |-> n,
   secrets |-> [f \in Secrets |-> secretAttribute(n, f, options)],
   values  |-> [f \in Fields \ (Secrets \cup {"Color"}) |->
                  CASE f = "Name" -> raw[n][f]
                    [] f \in {"Username", "VNCProxyUsername"} ->
                         filteredString(Effective[n][f], options.filter.Username)
                    [] OTHER -> Effective[n][f]],
   flags   |-> inheritanceAttributes(n, options.filter)]

(* A document lists its elements in the order in which they open, each     *)
(* with the ID of the one it is nested in: that of the node whose children *)
(* were being encoded, NoNode for the outermost.                           *)
Around(n) ==
  LET c == CHOOSE c \in Containers : n \in ToSet(children[c])
  IN  IF c \in Roots THEN NoNode ELSE c

(* The nodes in the order of their elements: no root, a container first    *)
(* and its children inside it.                                             *)
encodeNode[n \in Nodes] ==
  (IF n \in Roots THEN <<>> ELSE <<n>>)
  \o (IF n \in Leaves THEN <<>> ELSE Joined(encodeNode, children[n]))

XmlSerialize(root, options) ==
  LET order == encodeNode[root]
      inner == [i \in DOMAIN order |-> [around |-> Around(order[i]),
                                        attrs |-> nodeAttributes(order[i], options)]]
  IN  [name |-> raw[root]["Name"],
       confVersion |-> "2.8",
       protected |-> Encrypt(<<IF options.password = defaultPassword
                               THEN "ThisIsNotProtected" ELSE "ThisIsProtected">>, options.password),
       fullFileEncryption |-> options.fullFile,
       nodes |-> IF options.fullFile THEN <<>> ELSE inner,
       payload |-> IF options.fullFile THEN Encrypt(inner, options.password) ELSE <<>>]

-----------------------------------------------------------------------------
(* parseVersion, 0 for a version it does not know.                         *)
parseVersion(version) ==
  CASE version = "2.6" -> 26 [] version = "2.7" -> 27 [] version = "2.8" -> 28 [] OTHER -> 0

(* The fields each decoder reads, with their flags.                        *)
decode28 == {"RedirectDiskDrives", "RedirectDiskDrivesCustom"}
decode27 == {"RDPVersion", "UserViaAPI", "VaultOpenbaoMount"}
decode26 == Fields \ (decode27 \cup {"RedirectDiskDrivesCustom", "Color"})

Decoded(version) ==
  decode26 \cup (IF version >= 27 THEN decode27 ELSE {}) \cup (IF version >= 28 THEN decode28 ELSE {})

boolean(text) == text \in Trues

(* What an attribute that names no member is read as: the default of its   *)
(* field, but for two of them.                                             *)
Fallback(f) == CASE f = "Colors" -> Zero [] f = "RDPVersion" -> Highest [] OTHER -> Shipped

enumValue(f, text) == IF text \in Enumerators THEN Canonical[text] ELSE Fallback(f)

(* RedirectDiskDrives was a boolean before version 2.8, and what is not    *)
(* true is its default, no drives.                                         *)
AttributeValue(f, text, version) ==
  IF f \notin Enums THEN text
  ELSE IF f = "RedirectDiskDrives" /\ version < 28
  THEN IF boolean(text) THEN Local ELSE Shipped
  ELSE enumValue(f, text)

DecodedValue(attrs, f, version) ==
  IF f \notin Decoded(version) THEN Shipped
  ELSE IF f \in Secrets THEN decryptAttribute(attrs.secrets[f])
  ELSE AttributeValue(f, attrs.values[f], version)

(* decodeNode; a secret under another key is an error.                     *)
decodeNode(t, attrs, version, password) ==
  IF \E f \in Secrets : ~Opens(attrs.secrets[f], password)
  THEN [t EXCEPT !.error = "ErrAuthentication"]
  ELSE Filled(t, attrs.id, [f \in Fields |-> DecodedValue(attrs, f, version)],
              attrs.flags \cap Decoded(version))

isIgnoredNodeType(type) == type \in {"root", "puttyroot", "puttysession", "none"}

(* An element inside one that was ignored, or that is no container, is not *)
(* looked at.                                                              *)
Entered(t, c) == c = NewRoot \/ (c \in Containers /\ t.up[c] # NoNode)

(* addNode: the node, below that of the element around it; an error ends   *)
(* the loading.                                                            *)
addNode(t, element, version, password) ==
  LET n == element.attrs.id
      up == IF element.around = NoNode THEN NewRoot ELSE element.around
      filled == decodeNode(t, element.attrs, version, password)
  IN  IF t.error # "nil" \/ ~Entered(t, up) \/ isIgnoredNodeType(element.attrs.type) THEN t
      ELSE IF filled.error # "nil" THEN filled
      ELSE IF AddFails(filled, up, n) THEN [t EXCEPT !.error = "ErrCycle"]
      ELSE Added(filled, up, n)

(* MUTANT: the marker under the password is not looked at.                 *)
Unprotected(document, password) == TRUE

Authenticates(document, password) ==
  document.protected # <<>> /\ Opens(document.protected, password)

XmlDeserialize(document, password) ==
  LET version == parseVersion(document.confVersion)
      nodes == IF document.fullFileEncryption THEN Decrypt(document.payload) ELSE document.nodes
      start == [NewTree EXCEPT !.raw[NewRoot]["Name"] = Trimmed[document.name]]
  IN  IF version = 0 THEN Refused("ErrUnsupportedVersion")
      ELSE IF ~Authenticates(document, password) THEN Refused("ErrAuthentication")
      ELSE IF document.fullFileEncryption /\ ~Opens(document.payload, password)
      THEN Refused("ErrAuthentication")
      ELSE FoldLeft(LAMBDA t, element : addNode(t, element, version, password), start, nodes)

-----------------------------------------------------------------------------
SaveXml(root, options) ==
  /\ file' = [format |-> "xml", top |-> root, options |-> options,
              document |-> XmlSerialize(root, options)]
  /\ UNCHANGED inheritanceVars

(* The filter only matters to the attributes, the other options only to    *)
(* the document around them.                                               *)
XmlOptions ==
  [password : Passwords, fullFile : BOOLEAN, filter : {SaveAll}]
    \cup [password : {defaultPassword}, fullFile : {FALSE}, filter : SaveFilters]

XmlSave ==
  file = NoFile /\ \E root \in Roots, options \in XmlOptions : SaveXml(root, options)

-----------------------------------------------------------------------------
(* Where a node's password is not in the document and does not come from a *)
(* folder either: it is inherited, and the flag is filtered, or every      *)
(* folder up to the root leaves it to the next, and the root to nobody.    *)
PasswordLost(n, filter) ==
  IF filter.Inheritance THEN \A m \in Chain(n) \ Roots : "Password" \in inherit[m]
                        ELSE "Password" \in inherit[n]

(* The filter leaves out the secondary credentials with the first.         *)
LeftOut(f, filter) ==
  \/ f \in {"Username", "VNCProxyUsername"} /\ ~filter.Username
  \/ f \in Secrets /\ ~filter.Password

(* What a version of the format keeps of a field: those it has, less what  *)
(* was left out, a member's name in its own spelling, any other text there *)
(* as the fallback, and of the drives, in the older versions, whether they *)
(* are true.                                                               *)
KeptValue(n, f, filter, version) ==
  LET v == Effective[n][f]
  IN  IF f \notin Decoded(version) THEN Shipped
      ELSE IF LeftOut(f, filter) THEN Zero
      ELSE IF f = "RedirectDiskDrives" /\ version < 28
      THEN IF v \in Trues THEN Local ELSE Shipped
      ELSE IF f \in Enums
      THEN IF v \in Enumerators THEN Canonical[v] ELSE Fallback(f)
      ELSE v

IsWhatVersionKeeps(t, root, filter, version) ==
  /\ t.error = "nil"
  /\ SameShape(t, root)
  /\ t.raw[NewRoot]["Name"] = Trimmed[raw[root]["Name"]]
  /\ \A n \in Below(root) :
       /\ t.flags[n] = IF filter.Inheritance THEN inherit[n] \cap Decoded(version) ELSE {}
       /\ \A f \in Fields : \/ f = "Password" /\ PasswordLost(n, filter)
                            \/ EffectiveOf(t)[n][f] = KeptValue(n, f, filter, version)

(* A document in any version is read back with the password it was saved   *)
(* under: the tree in its order, the root's name less the space around it, *)
(* the flags and the effective values of the fields the version has, as    *)
(* KeptValue says, less the passwords that PasswordLost describes.  With   *)
(* another password nothing is loaded.                                     *)
XmlReadsBack ==
  file.format = "xml" =>
    \A version \in {"2.6", "2.7", "2.8"}, password \in Passwords :
      LET t == XmlDeserialize([file.document EXCEPT !.confVersion = version], password)
      IN  IF password # file.options.password THEN t = Refused("ErrAuthentication")
          ELSE IsWhatVersionKeeps(t, file.top, file.options.filter, parseVersion(version))
=============================================================================
