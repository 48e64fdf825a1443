--------------------------- MODULE MCStreamSession ---------------------------
(* A reader, a writer and a goroutine that disconnects; one callback that  *)
(* returns at once and one that disconnects, so that up to two Disconnects *)
(* meet.  Connect has one, two or three stages: raw (telnet and serial     *)
(* connect like it), rlogin and ssh.                                       *)
EXTENDS StreamSession

CONSTANTS reader, writer, closer, notify, notifyAndDisconnect

MCBackends == {"raw", "rlogin", "ssh"}
MCClosers == {closer}
MCThreads == {reader, writer, closer}
MCCallbacks == {notify, notifyAndDisconnect}
MCReentrant == {notifyAndDisconnect}
=============================================================================
