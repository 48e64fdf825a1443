----------------------------- MODULE Documents -----------------------------
(***************************************************************************)
(* A tree that is edited and then saved in either format, or a document    *)
(* from elsewhere.  What a file is read back as is a value of the state    *)
(* (CsvDeserialize, XmlDeserialize), compared with the tree it came from;  *)
(* so the tree is left alone once there is a file.                         *)
(***************************************************************************)
EXTENDS CsvDocuments, XmlDocuments

Edit == file = NoFile /\ InheritanceNext /\ UNCHANGED file

DocumentsNext == Edit \/ CsvSave \/ XmlSave \/ CsvReceive

DocumentsSpec == DocumentsInit /\ [][DocumentsNext]_documentVars
=============================================================================
