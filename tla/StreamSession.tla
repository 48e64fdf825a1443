---------------------------- MODULE StreamSession ----------------------------
(***************************************************************************)
(* A session of the byte-stream backends (raw, telnet, serial, rlogin,     *)
(* ssh): Connect running in its own goroutine, a Reader (the terminal's    *)
(* pump), a Writer (keyboard input, resizing) and any number of Closers    *)
(* that call Disconnect, over the Lifecycle that reports errors and the    *)
(* end.                                                                    *)
(***************************************************************************)
EXTENDS Lifecycle, FiniteSets

CONSTANTS Backends,   \* the kinds of session
          Reader, Writer, Closers,
          ReentrantCallbacks   \* callbacks that call Disconnect themselves

VARIABLES backend,     \* the kind of session
          connect,     \* where Connect is
          ctxDone,     \* the context passed to Connect has expired
          stream,      \* s.stream # nil
          socket,      \* the transport as this end holds it
          remote,      \* what the other end has done
          once,        \* WatchedStream.closeOnce
          pc,          \* per goroutine
          panicked     \* a method was called through a nil stream

sessionVars == <<backend, connect, ctxDone, stream, socket, remote, once, pc, panicked>>
vars == <<lifecycleVars, sessionVars>>

ASSUME StreamAssumption ==
  /\ Backends \subseteq {"raw", "telnet", "serial", "rlogin", "ssh"}
  /\ Threads = {Reader, Writer} \cup Closers
  /\ Reader # Writer /\ Reader \notin Closers /\ Writer \notin Closers
  /\ ReentrantCallbacks \subseteq Callbacks

Init ==
  /\ LifecycleInit
  /\ backend \in Backends
  /\ connect = "idle"
  /\ ctxDone = FALSE
  /\ stream = FALSE
  /\ socket = "none"
  /\ remote = "up"
  /\ once = "free"
  /\ pc = [t \in Threads |-> "ready"]
  /\ panicked = FALSE

-----------------------------------------------------------------------------
(* The owner registers its callbacks before it calls Connect.              *)
Register(cb) ==
  /\ connect = "idle"
  /\ OnClose(cb) \/ OnError(cb)
  /\ UNCHANGED sessionVars

StartConnect ==
  /\ connect = "idle"
  /\ connect' = "dialing"
  /\ UNCHANGED <<lifecycleVars, backend, ctxDone, stream, socket, remote, once, pc, panicked>>

Timeout ==
  /\ connect \in {"dialing", "handshake", "setup"}
  /\ ~ctxDone
  /\ ctxDone' = TRUE
  /\ UNCHANGED <<lifecycleVars, backend, connect, stream, socket, remote, once, pc, panicked>>

(* The stages of Connect after the transport is open.                      *)
NextStage ==
  CASE backend \in {"rlogin", "ssh"} /\ connect = "dialing" -> "handshake"
    [] backend = "ssh" /\ connect = "handshake" -> "setup"
    [] OTHER -> "connected"

(* MUTANT: s.stream is published as soon as the transport is open.         *)
StageOkPublishes ==
  /\ connect \in {"dialing", "handshake", "setup"}
  /\ connect' = NextStage
  /\ stream' = TRUE
  /\ socket' = "open"
  /\ UNCHANGED <<lifecycleVars, backend, ctxDone, remote, once, pc, panicked>>

(* A stage succeeds; the last one assigns s.stream.                        *)
StageOk ==
  /\ connect \in {"dialing", "handshake", "setup"}
  /\ connect' = NextStage
  /\ stream' = (NextStage = "connected")
  /\ socket' = "open"
  /\ UNCHANGED <<lifecycleVars, backend, ctxDone, remote, once, pc, panicked>>

(* A stage fails: the host refuses, the dial or the handshake notices that *)
(* the context is done, or the server answers with an error.  Whatever was *)
(* opened is closed again.                                                 *)
StageFails ==
  /\ connect \in {"dialing", "handshake", "setup"}
  /\ connect' = "failed"
  /\ socket' = IF connect = "dialing" THEN "none" ELSE "closed"
  /\ UNCHANGED <<lifecycleVars, backend, ctxDone, stream, remote, once, pc, panicked>>

(* MUTANT: the handshakes read without looking at the context.             *)
ContextNoticedDialing == ctxDone /\ connect = "dialing" /\ StageFails

(* DialContext, ssh's handshake and rlogin's readByteCtx select on the     *)
(* context; ssh's NewSession, RequestPty and Shell do not.                 *)
ContextNoticed == ctxDone /\ connect \in {"dialing", "handshake"} /\ StageFails

Remote ==
  /\ remote = "up"
  /\ socket = "open"
  /\ remote' \in {"hungup", "broken"}
  /\ UNCHANGED <<lifecycleVars, backend, connect, ctxDone, stream, socket, once, pc, panicked>>

-----------------------------------------------------------------------------
Goto(t, label) == pc' = [pc EXCEPT ![t] = label]
Step(t, from, to) ==
  /\ pc[t] = from
  /\ firing[t] = Idle
  /\ Goto(t, to)
  /\ UNCHANGED <<backend, connect, ctxDone, stream, socket, remote, panicked>>

(* What a Read blocked on the transport can return, other than data: ended *)
(* for io.EOF, failed for any other error.  An ssh channel may report the  *)
(* loss of its connection, or its own Close, as io.EOF.                    *)
ReadFailures ==
  LET lost == socket = "closed" \/ remote = "broken"
  IN  {outcome \in {"ended", "failed"} :
         \/ outcome = "ended" /\ (remote = "hungup" \/ (lost /\ backend = "ssh"))
         \/ outcome = "failed" /\ lost}

(* wire() starts the pump only after Connect has returned nil.             *)
StartPump ==
  /\ connect = "connected"
  /\ Step(Reader, "ready", "reading")
  /\ UNCHANGED <<lifecycleVars, once>>

(* MUTANT: an io.EOF is returned to the pump and to nobody else.           *)
ReadReturnsSilently ==
  /\ \E outcome \in ReadFailures :
       Step(Reader, "reading", IF outcome = "ended" THEN "done" ELSE outcome)
  /\ UNCHANGED <<lifecycleVars, once>>

ReadReturns ==
  /\ \E outcome \in ReadFailures : Step(Reader, "reading", outcome)
  /\ UNCHANGED <<lifecycleVars, once>>

(* The terminal's input callback is set before Connect is even started: a  *)
(* key pressed too early goes through a nil stream, and the program dies.  *)
WriteTooEarly ==
  /\ pc[Writer] = "ready" /\ ~stream
  /\ panicked' = TRUE
  /\ UNCHANGED <<lifecycleVars, backend, connect, ctxDone, stream, socket, remote, once, pc>>

(* A Write fails once either end is gone; every error counts as a failure. *)
WriteFails ==
  /\ stream
  /\ errorRuns < MaxErrors - 1   \* one is left for the Reader
  /\ socket = "closed" \/ remote # "up"
  /\ Step(Writer, "ready", "failed")
  /\ UNCHANGED <<lifecycleVars, once>>

(* ssh's Resize reports a failed window change, which ends nothing.        *)
ResizeFails ==
  /\ backend = "ssh"
  /\ stream
  /\ errorRuns < MaxErrors - 1
  /\ socket = "closed" \/ remote # "up"
  /\ Step(Writer, "ready", "returning")
  /\ FireError(Writer)
  /\ UNCHANGED once

(* WatchedStream reports a failure before it closes.                       *)
ReportError(t) ==
  /\ Step(t, "failed", "ended")
  /\ FireError(t)
  /\ UNCHANGED once

ReportEnd(t) ==
  /\ Step(t, "ended", "returning")
  /\ FireClose(t)
  /\ UNCHANGED once

CallOnError(t) == RunOnError(t) /\ UNCHANGED sessionVars

(* The owner's callback may itself call Disconnect.                        *)
CallOnClose(t) ==
  /\ RunOnClose(t)
  /\ IF firing[t].cb \in ReentrantCallbacks THEN Goto(t, "disconnect") ELSE UNCHANGED pc
  /\ UNCHANGED <<backend, connect, ctxDone, stream, socket, remote, once, panicked>>

Return(t) ==
  /\ Step(t, "returning", IF t = Writer THEN "ready" ELSE "done")
  /\ UNCHANGED <<lifecycleVars, once>>

-----------------------------------------------------------------------------
Disconnect(t) ==
  /\ t \in Closers
  /\ Step(t, "ready", "disconnect")
  /\ UNCHANGED <<lifecycleVars, once>>

(* Disconnect reads s.stream and, when it is set, goes through closeOnce:  *)
(* the first caller closes the transport, the others wait for it.          *)
EnterOnce(t) ==
  /\ once = "free"
  /\ once' = "running"
  /\ Step(t, "disconnect", "closing")
  /\ stream
  /\ UNCHANGED lifecycleVars

(* MUTANT: a flag in closeOnce's place, never set to done.                 *)
CloseTransportStuck(t) ==
  /\ pc[t] = "closing"
  /\ socket' = "closed"
  /\ Goto(t, "ended")
  /\ UNCHANGED <<lifecycleVars, backend, connect, ctxDone, stream, remote, once, panicked>>

CloseTransport(t) ==
  /\ pc[t] = "closing"
  /\ socket' = "closed"
  /\ once' = "done"
  /\ Goto(t, "ended")
  /\ UNCHANGED <<lifecycleVars, backend, connect, ctxDone, stream, remote, panicked>>

(* MUTANT: a second Disconnect does not wait for the first one's Close.    *)
SkipOnceAtOnce(t) ==
  /\ ~stream \/ once # "free"
  /\ Step(t, "disconnect", "ended")
  /\ UNCHANGED <<lifecycleVars, once>>

SkipOnce(t) ==
  /\ ~stream \/ once = "done"
  /\ Step(t, "disconnect", "ended")
  /\ UNCHANGED <<lifecycleVars, once>>

ThreadStep(t) ==
  \/ ReportError(t) \/ ReportEnd(t) \/ CallOnError(t) \/ CallOnClose(t) \/ Return(t)
  \/ EnterOnce(t) \/ CloseTransport(t) \/ SkipOnce(t)

Next ==
  /\ ~panicked
  /\ \/ \E cb \in MaybeCallback : Register(cb)
     \/ StartConnect \/ Timeout \/ StageOk \/ StageFails
     \/ Remote \/ StartPump \/ ReadReturns \/ WriteTooEarly \/ WriteFails \/ ResizeFails
     \/ \E t \in Threads : Disconnect(t) \/ ThreadStep(t)

(* Goroutines run, the pump is started and the context's timer fires; what *)
(* the server answers, and whether the owner types or disconnects, is free.*)
Fairness ==
  /\ WF_vars(~panicked /\ Timeout)
  /\ WF_vars(~panicked /\ ContextNoticed)
  /\ WF_vars(~panicked /\ StartPump)
  /\ WF_vars(~panicked /\ ReadReturns)
  /\ \A t \in Threads : WF_vars(~panicked /\ ThreadStep(t))

Spec == Init /\ [][Next]_vars /\ Fairness

-----------------------------------------------------------------------------
(* Types; and s.stream is set by nothing but a Connect that succeeds.      *)
TypeOK ==
  /\ LifecycleTypeOK
  /\ backend \in Backends
  /\ connect \in {"idle", "dialing", "handshake", "setup", "connected", "failed"}
  /\ socket \in {"none", "open", "closed"}
  /\ remote \in {"up", "hungup", "broken"}
  /\ once \in {"free", "running", "done"}
  /\ ctxDone \in BOOLEAN /\ panicked \in BOOLEAN
  /\ stream = (connect = "connected")
  /\ pc \in [Threads -> {"ready", "reading", "failed", "ended", "returning",
                         "disconnect", "closing", "done"}]

(* No Disconnect goes on to report the end of a connected session while    *)
(* the transport is still open, even the one that leaves the closing to    *)
(* another goroutine (lifecycle.go:74-80).                                 *)
WaitsForTheClose ==
  [][\A t \in Threads : stream /\ pc[t] \in {"disconnect", "closing"} /\ pc'[t] = "ended"
       => socket' = "closed"]_vars

(* protocol.go:57-60: however a connected session ends, its owner is told, *)
(* although no goroutine does nothing but watch the transport.             *)
EndIsReported ==
  (stream /\ ~closed /\ remote # "up" /\ onClose # NoCallback) ~> (closeRuns = 1 \/ panicked)

(* protocol.go:28-31: Disconnect returns, also when several goroutines     *)
(* call it at once and when OnClose itself calls it.                       *)
DisconnectReturns ==
  \A t \in Threads : pc[t] = "disconnect" ~> (pc[t] \in {"done", "ready"} \/ panicked)

(* protocol.go:20-22: Connect returns once its context is done, whatever   *)
(* the server does (the two-step backends and those that only dial).       *)
ConnectReturns ==
  (backend # "ssh" /\ connect = "dialing") ~> (connect \in {"connected", "failed"} \/ panicked)

(* The same comment, for every backend.                                    *)
ConnectReturnsOnceCtxDone ==
  connect = "dialing" ~> (connect \in {"connected", "failed"} \/ panicked)

(* terminal.go:13-15: Read and Write outside a connected session "returns  *)
(* an error".                                                              *)
IOBeforeConnectReturns == ~panicked
=============================================================================
