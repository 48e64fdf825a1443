-------------------------- MODULE MCPropertiesPanel --------------------------
(* root > folder > host, a numeric inheritable field and a text field that *)
(* cannot be inherited.                                                    *)
EXTENDS PropertiesPanel

CONSTANTS root, folder, host, port, hostname, default, edited

MCRoots == {root}
MCContainers == {root, folder}
MCLeaves == {host}
MCFields == {port, hostname}
MCInheritable == {port}
MCNumeric == {port}
MCValues == {default, edited}

MCInit == PanelInit(<<root, folder, host>>)
MCSpec == MCInit /\ [][PanelNext]_allVars
=============================================================================
