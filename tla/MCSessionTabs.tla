---------------------------- MODULE MCSessionTabs ----------------------------
(* One goroutine that disconnects beside the session's own two; a callback *)
(* that disconnects beside the one that removes the tab.                   *)
EXTENDS SessionTabs

CONSTANTS connector, watcher, closer, closeTab, closeAndDisconnect, stdout, stderr

MCClosers == {closer}
MCThreads == {connector, watcher, closer}
MCCallbacks == {closeTab, closeAndDisconnect}
MCReentrant == {closeAndDisconnect}
MCStreams == {stdout, stderr}
=============================================================================
