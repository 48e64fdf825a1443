----------------------------- MODULE SessionTabs -----------------------------
(***************************************************************************)
(* A tab over a session of any of the backends with a goroutine of their   *)
(* own (internal/ui/sessiontabs.go, framebuffer.go): Open registers the    *)
(* callback that removes the tab and connects in the background.  What the *)
(* callback and Connect's result have to do to the widgets is queued for   *)
(* the UI goroutine (fyne.Do); the view of a connected terminal or         *)
(* framebuffer reads the session's output in a goroutine of its own.       *)
(* Nothing in the UI calls Disconnect; the Closers are the other owners of *)
(* a session.  A session of the kind "any" is a backend that calls the     *)
(* methods of Lifecycle from any goroutine, at any time.                   *)
(***************************************************************************)
EXTENDS ProcessSession, VncSession, WinrmSession, WebSession

CONSTANTS CloseTab      \* the callback Open registers

ASSUME TabsAssumption == CloseTab \in Callbacks \ ReentrantCallbacks

VARIABLES kind,         \* the backend of the session
          tab,          \* "none", "shown" or "removed"
          reported,     \* Connect's result has been queued
          queue,        \* what the UI goroutine has to do
          content,      \* what the tab shows
          view          \* the goroutine that reads the output

tabVars == <<tab, reported, queue, content, view>>
tabsVars == <<lifecycleVars, backgroundVars, clientVars, vncVars, winrmVars, webVars, kind, tabVars>>

Kinds == {"process", "vnc", "winrm", "web", "any"}

TabsInit ==
  /\ ProcessInit /\ VncInit /\ WinrmInit /\ WebInit
  /\ kind \in Kinds
  /\ tab = "none" /\ reported = FALSE /\ queue = <<>>
  /\ content = "view" /\ view = "none"

-----------------------------------------------------------------------------
(* Open, up to the goroutine that calls Connect.                           *)
Open ==
  /\ kind # "any" /\ tab = "none"
  /\ Register(CloseTab)
  /\ tab' = "shown"
  /\ UNCHANGED <<clientVars, vncVars, winrmVars, webVars, kind, reported, queue, content, view>>

(* MUTANT: the tab learns of the end only after Connect's result.          *)
NotifiesOnceReported ==
  /\ tab # "none" => onClose' = onClose
  /\ queue' = IF reported /\ closeRuns' > closeRuns THEN Append(queue, "remove") ELSE queue
  /\ UNCHANGED <<kind, tab, reported, content, view>>

(* What a session's step does to its tab: a run of CloseTab queues the     *)
(* removal.  Once there is a tab its callback stays registered.            *)
Notifies ==
  /\ tab # "none" => onClose' = onClose
  /\ queue' = IF tab # "none" /\ closeRuns' > closeRuns THEN Append(queue, "remove") ELSE queue
  /\ UNCHANGED <<kind, tab, reported, content, view>>

Process(step) == kind = "process" /\ step /\ UNCHANGED <<vncVars, winrmVars, webVars>> /\ Notifies
Vnc(step) == kind = "vnc" /\ step /\ UNCHANGED <<clientVars, winrmVars, webVars>> /\ Notifies
Winrm(step) == kind = "winrm" /\ step /\ UNCHANGED <<clientVars, vncVars, webVars>> /\ Notifies
Web(step) == kind = "web" /\ step /\ UNCHANGED <<clientVars, vncVars, winrmVars>> /\ Notifies

AnyBackend ==
  /\ kind = "any"
  /\ LifecycleNext
  /\ UNCHANGED <<backgroundVars, clientVars, vncVars, winrmVars, webVars, kind, tabVars>>

(* Connect has returned, to the goroutine of Open.                         *)
PostResult ==
  /\ tab # "none" /\ ~reported
  /\ connect \in {"connected", "failed"}
  /\ reported' = TRUE
  /\ queue' = Append(queue, IF connect = "connected" THEN "wire" ELSE "error")
  /\ UNCHANGED <<lifecycleVars, backgroundVars, clientVars, vncVars, winrmVars, webVars,
                 kind, tab, content, view>>

-----------------------------------------------------------------------------
(* wire: a native window is put into the tab, any other view starts to     *)
(* read.                                                                   *)
Wired == view' = IF kind \in {"vnc", "winrm"} THEN "reading" ELSE "embedded"

(* MUTANT: the tab of a failed connection is taken away.                   *)
UILoopRemovesFailed ==
  /\ queue # <<>>
  /\ queue' = Tail(queue)
  /\ \/ Head(queue) \in {"remove", "error"} /\ tab' = "removed" /\ UNCHANGED <<content, view>>
     \/ Head(queue) = "wire" /\ Wired /\ UNCHANGED <<tab, content>>
  /\ UNCHANGED <<lifecycleVars, backgroundVars, clientVars, vncVars, winrmVars, webVars,
                 kind, reported>>

UILoop ==
  /\ queue # <<>>
  /\ queue' = Tail(queue)
  /\ \/ Head(queue) = "remove" /\ tab' = "removed" /\ UNCHANGED <<content, view>>
     \/ Head(queue) = "error" /\ content' = "error" /\ UNCHANGED <<tab, view>>
     \/ Head(queue) = "wire" /\ Wired /\ UNCHANGED <<tab, content>>
  /\ UNCHANGED <<lifecycleVars, backgroundVars, clientVars, vncVars, winrmVars, webVars,
                 kind, reported>>

ViewReads == view = "reading" /\ (Vnc(TakeFrame) \/ Winrm(ReadOutput))

(* The channel of frames is closed and empty, or Read has returned io.EOF. *)
ViewReturns ==
  /\ view = "reading"
  /\ \/ kind = "vnc" /\ framesClosed /\ frames = <<>>
     \/ kind = "winrm" /\ AtEnd
  /\ view' = "ended"
  /\ UNCHANGED <<lifecycleVars, backgroundVars, clientVars, vncVars, winrmVars, webVars,
                 kind, tab, reported, queue, content>>

-----------------------------------------------------------------------------
TabsNext ==
  \/ Open
  \/ Process(ProcessNext) \/ Vnc(VncNext) \/ Winrm(WinrmNext) \/ Web(WebNext)
  \/ AnyBackend
  \/ PostResult \/ UILoop \/ ViewReads \/ ViewReturns

(* The steps of each session module's fairness, kind by kind.              *)
Connects == Process(ProcessConnects) \/ Vnc(VncConnects) \/ Winrm(WinrmConnects) \/ Web(ConnectReturns)
Watches == Process(WatcherStep) \/ Vnc(ReadLoop) \/ Winrm(WinrmWatcher) \/ Web(WebThread)
PeerObeys ==
  \/ Process(KilledClientExits) \/ Vnc(LibraryCloses)
  \/ Winrm(StoppedCommandEnds) \/ Web(TerminatedLoopEnds)
Goroutine(t) ==
  \/ Process(ProcessGoroutine(t)) \/ Vnc(VncGoroutine(t))
  \/ Winrm(WinrmGoroutine(t)) \/ Web(WebGoroutine(t))

TabsFairness ==
  /\ WF_tabsVars(Connects) /\ WF_tabsVars(Watches) /\ WF_tabsVars(PeerObeys)
  /\ \A t \in Threads : WF_tabsVars(Goroutine(t))
  /\ WF_tabsVars(Vnc(Tick)) /\ SF_tabsVars(Vnc(QuitLoop)) /\ WF_tabsVars(Winrm(Copiers))
  /\ WF_tabsVars(PostResult) /\ WF_tabsVars(UILoop) /\ WF_tabsVars(ViewReads \/ ViewReturns)

TabsSpec == TabsInit /\ [][TabsNext]_tabsVars /\ TabsFairness

-----------------------------------------------------------------------------
(* Types, of the backend and of its tab.  The UI goroutine is never asked  *)
(* for the same thing twice.                                               *)
TabsTypeOK ==
  /\ kind = "process" => ProcessTypeOK
  /\ kind = "vnc" => VncTypeOK
  /\ kind = "winrm" => WinrmTypeOK
  /\ kind = "web" => WebTypeOK
  /\ kind = "any" => LifecycleTypeOK
  /\ tab \in {"none", "shown", "removed"}
  /\ \A i, j \in DOMAIN queue : queue[i] = queue[j] => i = j
  /\ view \in {"none", "reading", "embedded", "ended"}
  /\ content = "error" => connect = "failed"

Over ==
  \/ kind = "process" /\ ProcessOver
  \/ kind = "vnc" /\ VncOver
  \/ kind = "winrm" /\ WinrmOver
  \/ kind = "web" /\ WebOver

(* However a session ends (its peer goes away, the user closes the client  *)
(* or somebody disconnects), a registered OnClose is called: the end is    *)
(* not lost between the goroutines that could report it; for winrm, if the *)
(* library ends both streams.                                              *)
EndIsReported == Over /\ onClose # NoCallback ~> closeRuns = 1

Disconnecting(t) == pc[t] \in {"disconnect", "stopping", "waitDone"}

(* Disconnect returns, also when it is called from OnClose or from several *)
(* goroutines: always for the backends that wait for nobody, and else when *)
(* the session is over, or an external client is there for the first caller*)
(* to kill (closeOnce may have been used up before there was anything to   *)
(* stop; see rdp.go:109).  For winrm that is when the command ends or the  *)
(* server has been told to stop it, and only if the library then ends the  *)
(* streams, with or without a reader to the buffer: the Disconnect before  *)
(* any read that may hang (winrm.go:256-265), and one whose Close fails,   *)
(* are left out by the precondition.                                       *)
DisconnectReturns ==
  \A t \in Threads :
    /\ Disconnecting(t)
    /\ \/ kind \in {"vnc", "web"} \/ Over
       \/ kind = "process" /\ connect = "connected" /\ once = "free"
    ~> pc[t] = "done"

(* A tab does not outlive its session, in whatever order the session's end *)
(* and Connect's result reach the UI goroutine (sessiontabs.go:45-47).     *)
TabClosesWithSession == closed /\ tab = "shown" ~> tab = "removed"

(* A tab is never taken away from a session that has not ended.            *)
TabStaysWithSession == tab = "removed" => closed

(* No view goroutine is left reading a session that has ended, also when   *)
(* it was started after the end.                                           *)
ViewEnds == closed /\ view = "reading" ~> view = "ended"

(* The reader of a WinRM session gets all its output before the end.       *)
OutputComplete == kind = "winrm" /\ view = "ended" => taken = produced
=============================================================================
