---------------------------- MODULE MCInheritance ----------------------------
(* A root, two folders and a connection, one inheritable field with two    *)
(* values: deep enough for a value to travel over a middle container.      *)
EXTENDS Inheritance

CONSTANTS root, folderA, folderB, host, port, default, edited

MCRoots == {root}
MCContainers == {root, folderA, folderB}
MCLeaves == {host}
MCFields == {port}
MCValues == {default, edited}

Interchangeable == Permutations({folderA, folderB})
=============================================================================
