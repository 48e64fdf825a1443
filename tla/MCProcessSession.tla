--------------------------- MODULE MCProcessSession ---------------------------
(* The watcher and two goroutines that disconnect; one callback that       *)
(* returns at once and one that disconnects.                               *)
EXTENDS ProcessSession

CONSTANTS connector, watcher, closer1, closer2, notify, notifyAndDisconnect

MCClosers == {closer1, closer2}
MCThreads == {connector, watcher, closer1, closer2}
MCCallbacks == {notify, notifyAndDisconnect}
MCReentrant == {notifyAndDisconnect}
=============================================================================
