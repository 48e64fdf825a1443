---------------------------- MODULE ProcessSession ----------------------------
(***************************************************************************)
(* A session of the backends that drive an external client (rdp, anydesk): *)
(* Connect starts the process, on Windows looks for its window, publishes  *)
(* it and starts a Watcher that waits for it to exit.  Disconnect kills    *)
(* the process and waits for the Watcher.                                  *)
(***************************************************************************)
EXTENDS BackgroundSession

VARIABLES proc,       \* the client process
          cmd         \* s.cmd # nil

clientVars == <<proc, cmd>>
processVars == <<lifecycleVars, backgroundVars, clientVars>>

ProcessInit ==
  /\ BackgroundInit
  /\ proc = "none"
  /\ cmd = FALSE

-----------------------------------------------------------------------------
(* MUTANT: s.cmd is published before the window is found.                  *)
StartClientPublishes ==
  /\ connect = "idle"
  /\ connect' = "adopting" /\ proc' = "running" /\ cmd' = TRUE
  /\ UNCHANGED <<lifecycleVars, once, waitDone, pc>>

(* The client is on the PATH and starts, or Connect fails.                 *)
StartClient ==
  /\ connect = "idle"
  /\ \/ connect' = "adopting" /\ proc' = "running"
     \/ connect' = "failed" /\ UNCHANGED proc
  /\ UNCHANGED <<lifecycleVars, once, waitDone, pc, cmd>>

(* MUTANT: the client is left running when its window is not found.        *)
AdoptFailsOnly ==
  /\ connect = "adopting"
  /\ connect' = "failed"
  /\ UNCHANGED <<lifecycleVars, once, waitDone, pc, clientVars>>

(* Windows: no window shows up before the deadline, the context expires or *)
(* the client has already gone; anydesk: the password cannot be written.   *)
(* The client is killed and waited for.                                    *)
AdoptFails ==
  /\ connect = "adopting"
  /\ connect' = "failed"
  /\ proc' = "exited"
  /\ UNCHANGED <<lifecycleVars, once, waitDone, pc, cmd>>

(* The window was found (Linux does not look for one): publish, under mu.  *)
Publish ==
  /\ connect = "adopting"
  /\ connect' = "watching"
  /\ cmd' = TRUE
  /\ UNCHANGED <<lifecycleVars, once, waitDone, pc, proc>>

StartWatcher ==
  /\ connect = "watching"
  /\ connect' = "connected"
  /\ waitDone' = "open"
  /\ pc' = [pc EXCEPT ![Watcher] = "waiting"]
  /\ UNCHANGED <<lifecycleVars, once, clientVars>>

(* The client ends: the user closes it, it crashes, or it has been killed. *)
ClientExits ==
  /\ proc \in {"running", "killed"}
  /\ proc' = "exited"
  /\ UNCHANGED <<lifecycleVars, backgroundVars, cmd>>

-----------------------------------------------------------------------------
CloseWaitDone ==
  /\ proc = "exited"
  /\ waitDone' = "closed"
  /\ Step(Watcher, "waiting", "ended")
  /\ UNCHANGED <<lifecycleVars, connect, once, clientVars>>

ReportEnd == FireCloseThen(Watcher, "ended", "returning") /\ UNCHANGED clientVars

(* closeOnce: the first caller kills the process it can see, if any.       *)
KillOnce(t) ==
  /\ Step(t, "disconnect", "waitDone")
  /\ once' = "done"
  /\ proc' = IF once = "free" /\ cmd /\ proc = "running" THEN "killed" ELSE proc
  /\ UNCHANGED <<lifecycleVars, connect, waitDone, cmd>>

WatcherStep == CloseWaitDone \/ ReportEnd

ProcessGoroutine(t) == KillOnce(t) \/ (BackgroundStep(t) /\ UNCHANGED clientVars)

ProcessNext ==
  \/ BackgroundNext /\ UNCHANGED clientVars
  \/ StartClient \/ AdoptFails \/ Publish \/ StartWatcher \/ ClientExits
  \/ WatcherStep
  \/ \E t \in Threads : KillOnce(t)

ProcessConnects == Publish \/ AdoptFails \/ StartWatcher
KilledClientExits == proc = "killed" /\ ClientExits

(* Connect and the goroutines run, and a killed process goes away.         *)
ProcessFairness ==
  /\ WF_processVars(ProcessConnects)
  /\ WF_processVars(KilledClientExits)
  /\ WF_processVars(WatcherStep)
  /\ \A t \in Threads : WF_processVars(ProcessGoroutine(t))

ProcessSpec == ProcessInit /\ [][ProcessNext]_processVars /\ ProcessFairness

-----------------------------------------------------------------------------
(* Types; and s.cmd and s.waitDone are set by nothing but a Connect that   *)
(* has got past the search for the window.                                 *)
ProcessTypeOK ==
  /\ BackgroundTypeOK
  /\ connect \in {"idle", "adopting", "watching", "connected", "failed"}
  /\ proc \in {"none", "running", "killed", "exited"}
  /\ cmd = (connect \in {"watching", "connected"})
  /\ waitDone # "nil" <=> connect = "connected"
  /\ pc \in [Threads -> {"ready", "waiting", "ended", "returning", "disconnect",
                         "waitDone", "done"}]

(* No client process outlives the session that owned it: neither a Connect *)
(* that failed, nor one whose end has been reported, leaves one behind.    *)
NoOrphan == connect = "failed" \/ closed => proc \in {"none", "exited"}

(* The session is over: its client has been told to end or has ended.      *)
ProcessOver == connect = "connected" /\ proc \in {"killed", "exited"}

(* rdp.go:104-107 and anydesk.go:88-91: Disconnect "waits for the          *)
(* exit-watcher goroutine started by connectPlatform to fire OnClose, so a *)
(* caller that gets a nil error back knows the session is fully torn down".*)
DisconnectWaitsForOnClose ==
  [][\A t \in Closers : pc[t] = "waitDone" /\ pc'[t] = "done" /\ waitDone # "nil"
       => closed]_processVars
=============================================================================
