------------------------------ MODULE VncSession ------------------------------
(***************************************************************************)
(* internal/protocol/vnc: Connect dials, shakes hands and starts readLoop  *)
(* (the Watcher), which turns the server's updates into frames for a       *)
(* viewer, asks for the next update after each and on a timer, and notices *)
(* a dead connection by the failure of such a request.                     *)
(* The client library (go-vnc) reads the connection in a goroutine of its  *)
(* own and closes it when reading fails; a write may still succeed until   *)
(* then.                                                                   *)
(***************************************************************************)
EXTENDS BackgroundSession, Sequences

CONSTANTS FrameSlots,    \* capacity of the channel s.frames
          MaxScreens     \* bound on the updates of the server

ASSUME VncAssumption == FrameSlots \in Nat /\ MaxScreens \in Nat

VARIABLES conn,          \* the TCP connection, seen from here
          server,        \* the other side of it
          client,        \* s.client # nil
          quit,          \* the channel s.done is closed
          requested,     \* an update request the server has not answered
          inbox,         \* s.serverMsgCh: updates not yet applied
          screen,        \* version of the server's last update
          frames,        \* s.frames: versions not yet taken by the viewer
          framesClosed

vncVars == <<conn, server, client, quit, requested, inbox, screen, frames, framesClosed>>
vncSessionVars == <<lifecycleVars, backgroundVars, vncVars>>

VncInit ==
  /\ BackgroundInit
  /\ conn = "none" /\ server = "up"
  /\ client = FALSE /\ quit = FALSE
  /\ requested = FALSE /\ inbox = <<>> /\ screen = 0
  /\ frames = <<>> /\ framesClosed = FALSE

-----------------------------------------------------------------------------
(* The connection is made, or there is none and Connect fails.             *)
Dial ==
  /\ connect = "idle"
  /\ \/ connect' = "handshake" /\ conn' = "open"
     \/ connect' = "failed" /\ UNCHANGED conn
  /\ UNCHANGED <<lifecycleVars, once, waitDone, pc,
                 server, client, quit, requested, inbox, screen, frames, framesClosed>>

(* The handshake, the pixel format or the encodings fail, or the context   *)
(* expires during the handshake; the connection is closed.                 *)
HandshakeFails ==
  /\ connect = "handshake"
  /\ connect' = "failed" /\ conn' = "closed"
  /\ UNCHANGED <<lifecycleVars, once, waitDone, pc,
                 server, client, quit, requested, inbox, screen, frames, framesClosed>>

(* The fields are set and readLoop is started.                             *)
StartReadLoop ==
  /\ connect = "handshake"
  /\ connect' = "requesting" /\ client' = TRUE
  /\ pc' = [pc EXCEPT ![Watcher] = "select"]
  /\ UNCHANGED <<lifecycleVars, once, waitDone,
                 conn, server, quit, requested, inbox, screen, frames, framesClosed>>

(* A request can be written while the connection is open; it reaches the   *)
(* server only while that is up, and need not fail when it is not.         *)
Written == conn = "open" /\ requested' = (requested \/ server = "up")
WriteFails == (conn = "closed" \/ server = "gone") /\ UNCHANGED requested

InitialRequest ==
  /\ connect = "requesting"
  /\ \/ Written /\ connect' = "connected" /\ UNCHANGED pc
     \/ WriteFails /\ connect' = "closing" /\ pc' = [pc EXCEPT ![Connector] = "disconnect"]
  /\ UNCHANGED <<lifecycleVars, once, waitDone,
                 conn, server, client, quit, inbox, screen, frames, framesClosed>>

(* Connect's own Disconnect has returned: so does Connect, with the error. *)
ConnectFails ==
  /\ connect = "closing" /\ pc[Connector] = "done"
  /\ connect' = "failed"
  /\ UNCHANGED <<lifecycleVars, once, waitDone, pc, vncVars>>

-----------------------------------------------------------------------------
ServerUpdates ==
  /\ conn = "open" /\ server = "up" /\ requested /\ screen < MaxScreens
  /\ screen' = screen + 1
  /\ inbox' = Append(inbox, screen')
  /\ requested' = FALSE
  /\ UNCHANGED <<lifecycleVars, backgroundVars, conn, server, client, quit, frames, framesClosed>>

ServerGoes ==
  /\ conn = "open" /\ server = "up"
  /\ server' = "gone"
  /\ UNCHANGED <<lifecycleVars, backgroundVars,
                 conn, client, quit, requested, inbox, screen, frames, framesClosed>>

(* The library's reader fails and closes the connection.                   *)
LibraryCloses ==
  /\ conn = "open" /\ server = "gone"
  /\ conn' = "closed"
  /\ UNCHANGED <<lifecycleVars, backgroundVars,
                 server, client, quit, requested, inbox, screen, frames, framesClosed>>

-----------------------------------------------------------------------------
(* A frame is dropped when the viewer has not kept up.                     *)
PublishFrame(version) ==
  frames' = IF Len(frames) < FrameSlots THEN Append(frames, version) ELSE frames

ApplyUpdate ==
  /\ inbox # <<>>
  /\ Step(Watcher, "select", "request")
  /\ inbox' = Tail(inbox)
  /\ PublishFrame(Head(inbox))
  /\ UNCHANGED <<lifecycleVars, connect, once, waitDone,
                 conn, server, client, quit, requested, screen, framesClosed>>

(* keepAliveInterval has passed.                                           *)
Tick ==
  /\ Step(Watcher, "select", "request")
  /\ UNCHANGED <<lifecycleVars, connect, once, waitDone, vncVars>>

RequestNext ==
  /\ \/ Written /\ Step(Watcher, "request", "select")
     \/ WriteFails /\ Step(Watcher, "request", "dead")
  /\ UNCHANGED <<lifecycleVars, connect, once, waitDone,
                 conn, server, client, quit, inbox, screen, frames, framesClosed>>

(* dead: OnError, then OnClose; the connection is left as it is.           *)
ReportError ==
  /\ Step(Watcher, "dead", "report")
  /\ IF errorRuns < MaxErrors THEN FireError(Watcher) ELSE UNCHANGED lifecycleVars
  /\ UNCHANGED <<connect, once, waitDone, vncVars>>

ReportDead == FireCloseThen(Watcher, "report", "closeFrames") /\ UNCHANGED vncVars

(* MUTANT: readLoop returns at s.done without closing the frames.          *)
QuitAtOnce ==
  /\ quit
  /\ Step(Watcher, "select", "done")
  /\ UNCHANGED <<lifecycleVars, connect, once, waitDone, vncVars>>

QuitLoop ==
  /\ quit
  /\ Step(Watcher, "select", "closeFrames")
  /\ UNCHANGED <<lifecycleVars, connect, once, waitDone, vncVars>>

CloseFrames ==
  /\ Step(Watcher, "closeFrames", "done")
  /\ framesClosed' = TRUE
  /\ UNCHANGED <<lifecycleVars, connect, once, waitDone,
                 conn, server, client, quit, requested, inbox, screen, frames>>

ReadLoop == ApplyUpdate \/ RequestNext \/ ReportError \/ ReportDead \/ QuitLoop \/ CloseFrames

(* closeOnce: stops readLoop and closes the client, if Connect has set it. *)
CloseClient(t) ==
  /\ Step(t, "disconnect", "fireClose")
  /\ once' = "done"
  /\ quit' = TRUE
  /\ conn' = IF once = "free" /\ client THEN "closed" ELSE conn
  /\ UNCHANGED <<lifecycleVars, connect, waitDone,
                 server, client, requested, inbox, screen, frames, framesClosed>>

(* MUTANT: Disconnect leaves the report to readLoop.                       *)
DisconnectSilently(t) ==
  /\ Step(t, "fireClose", IF t = Watcher THEN "closeFrames" ELSE "returning")
  /\ UNCHANGED <<lifecycleVars, connect, once, waitDone, vncVars>>

(* The rest of Disconnect.  The Watcher, which gets there by a callback,   *)
(* still has its frames to close.                                          *)
DisconnectFires(t) ==
  /\ FireCloseThen(t, "fireClose", IF t = Watcher THEN "closeFrames" ELSE "returning")
  /\ UNCHANGED vncVars

(* SendKey and SendPointer: a write that fails is reported, no more.       *)
SendInput(t) ==
  /\ t \in Closers /\ pc[t] = "ready" /\ client
  /\ conn = "closed" \/ server = "gone"
  /\ FireError(t)
  /\ UNCHANGED <<backgroundVars, vncVars>>

(* The viewer takes a frame from the channel.                              *)
TakeFrame ==
  /\ frames # <<>>
  /\ frames' = Tail(frames)
  /\ UNCHANGED <<lifecycleVars, backgroundVars,
                 conn, server, client, quit, requested, inbox, screen, framesClosed>>

-----------------------------------------------------------------------------
VncGoroutine(t) ==
  \/ BackgroundStep(t) /\ UNCHANGED vncVars
  \/ CloseClient(t) \/ DisconnectFires(t)

VncNext ==
  \/ BackgroundNext /\ UNCHANGED vncVars
  \/ Dial \/ HandshakeFails \/ StartReadLoop \/ InitialRequest \/ ConnectFails
  \/ ServerUpdates \/ ServerGoes \/ LibraryCloses
  \/ ReadLoop \/ Tick
  \/ \E t \in Threads : CloseClient(t) \/ DisconnectFires(t) \/ SendInput(t)

VncConnects == HandshakeFails \/ StartReadLoop \/ InitialRequest \/ ConnectFails

(* The goroutines run and the timer ticks; the network notices a lost peer *)
(* and a select takes each of its cases at random.                         *)
VncFairness ==
  /\ WF_vncSessionVars(VncConnects) /\ WF_vncSessionVars(LibraryCloses)
  /\ WF_vncSessionVars(ReadLoop) /\ WF_vncSessionVars(Tick) /\ SF_vncSessionVars(QuitLoop)
  /\ \A t \in Threads : WF_vncSessionVars(VncGoroutine(t))

VncSpec == VncInit /\ [][VncNext]_vncSessionVars /\ VncFairness

-----------------------------------------------------------------------------
(* Types; the frames are closed by nobody but readLoop as it ends, and come *)
(* in the order of the updates.                                            *)
VncTypeOK ==
  /\ BackgroundTypeOK
  /\ connect \in {"idle", "handshake", "requesting", "closing", "connected", "failed"}
  /\ conn \in {"none", "open", "closed"} /\ server \in {"up", "gone"}
  /\ client \in BOOLEAN /\ quit = (once # "free")
  /\ screen \in 0..MaxScreens
  /\ Len(frames) <= FrameSlots
  /\ framesClosed <=> pc[Watcher] = "done"
  /\ LET coming == frames \o inbox
     IN  \A i, j \in DOMAIN coming : i < j => coming[i] < coming[j] /\ coming[j] <= screen

VncOver == connect = "connected" /\ (server = "gone" \/ conn = "closed")
=============================================================================
