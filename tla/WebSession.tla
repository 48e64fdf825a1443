------------------------------ MODULE WebSession ------------------------------
(***************************************************************************)
(* internal/protocol/web: Connect starts a thread (the Watcher) that makes *)
(* a browser window, publishes it and runs its message loop; Disconnect    *)
(* asks the loop to end.  Connect waits for the thread or its context,     *)
(* whichever is first, and the thread goes on either way.                  *)
(***************************************************************************)
EXTENDS BackgroundSession

VARIABLES ctxDone,      \* the context of Connect has expired
          window,       \* s.wv: the browser window, once it has been published
          ready,        \* Connect has been told
          terminate     \* a Terminate waits in the window's queue

webVars == <<ctxDone, window, ready, terminate>>
webSessionVars == <<lifecycleVars, backgroundVars, webVars>>

WebInit ==
  /\ BackgroundInit
  /\ ctxDone = FALSE /\ window = "none" /\ ready = FALSE /\ terminate = FALSE

-----------------------------------------------------------------------------
Launch ==
  /\ connect = "idle"
  /\ connect' = "waiting"
  /\ pc' = [pc EXCEPT ![Watcher] = "creating"]
  /\ UNCHANGED <<lifecycleVars, once, waitDone, webVars>>

ConnectReturns ==
  /\ connect = "waiting"
  /\ \/ ready /\ connect' = "connected"
     \/ ctxDone /\ connect' = "failed"
  /\ UNCHANGED <<lifecycleVars, once, waitDone, pc, webVars>>

(* The 30 s of the tab are over.                                           *)
Expire ==
  /\ connect = "waiting" /\ ~ctxDone
  /\ ctxDone' = TRUE
  /\ UNCHANGED <<lifecycleVars, backgroundVars, window, ready, terminate>>

(* Making a window and loading its page may take long.                     *)
PublishWindow ==
  /\ Step(Watcher, "creating", "publishing")
  /\ window' = "open"
  /\ UNCHANGED <<lifecycleVars, connect, once, waitDone, ctxDone, ready, terminate>>

SignalReady ==
  /\ Step(Watcher, "publishing", "running")
  /\ ready' = TRUE
  /\ UNCHANGED <<lifecycleVars, connect, once, waitDone, ctxDone, window, terminate>>

(* The user closes the window, or the loop handles Terminate.              *)
LoopEnds ==
  /\ Step(Watcher, "running", "closing")
  /\ terminate' = FALSE
  /\ UNCHANGED <<lifecycleVars, connect, once, waitDone, ctxDone, window, ready>>

DestroyWindow ==
  /\ Step(Watcher, "closing", "report")
  /\ window' = "destroyed"
  /\ UNCHANGED <<lifecycleVars, connect, once, waitDone, ctxDone, ready, terminate>>

ReportClosed == FireCloseThen(Watcher, "report", "returning") /\ UNCHANGED webVars

(* closeOnce: without a window there is nothing to ask.                    *)
AskToTerminate(t) ==
  /\ Step(t, "disconnect", "returning")
  /\ once' = "done"
  /\ terminate' = (terminate \/ (once = "free" /\ window = "open"))
  /\ UNCHANGED <<lifecycleVars, connect, waitDone, ctxDone, window, ready>>

-----------------------------------------------------------------------------
WebThread == PublishWindow \/ SignalReady \/ DestroyWindow \/ ReportClosed

WebNext ==
  \/ BackgroundNext /\ UNCHANGED webVars
  \/ Launch \/ Expire \/ ConnectReturns
  \/ WebThread \/ LoopEnds
  \/ \E t \in Threads : AskToTerminate(t)

WebGoroutine(t) == AskToTerminate(t) \/ (BackgroundStep(t) /\ UNCHANGED webVars)

TerminatedLoopEnds == terminate /\ LoopEnds

(* The goroutines run, and a message loop gets to the messages it has.     *)
WebFairness ==
  /\ WF_webSessionVars(ConnectReturns)
  /\ WF_webSessionVars(WebThread)
  /\ WF_webSessionVars(TerminatedLoopEnds)
  /\ \A t \in Threads : WF_webSessionVars(WebGoroutine(t))

WebSpec == WebInit /\ [][WebNext]_webSessionVars /\ WebFairness

-----------------------------------------------------------------------------
(* Types; Connect succeeds only with a window, and only a window is asked  *)
(* to terminate.                                                           *)
WebTypeOK ==
  /\ BackgroundTypeOK
  /\ connect \in {"idle", "waiting", "connected", "failed"}
  /\ window \in {"none", "open", "destroyed"}
  /\ ready => window # "none"
  /\ connect = "connected" => ready
  /\ terminate => once = "done" /\ window # "none"

WebOver == terminate \/ pc[Watcher] = "closing"
=============================================================================
