-------------------------- MODULE MCConnectionTree --------------------------
(* A root, three folders (so that a cycle could close over three levels)   *)
(* and a connection, all detached at first, and a view of the root.       *)
EXTENDS TreeView

CONSTANTS root, folderA, folderB, folderC, host

MCRoots == {root}
MCContainers == {root, folderA, folderB, folderC}
MCLeaves == {host}

(* Folders are interchangeable: no action or property names one of them.   *)
Interchangeable == Permutations({folderA, folderB, folderC})
=============================================================================
