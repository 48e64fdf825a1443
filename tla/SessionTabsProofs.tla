-------------------------- MODULE SessionTabsProofs --------------------------
(***************************************************************************)
(* Theorems about the backends with a goroutine of their own and the tabs  *)
(* over them, for any goroutines, callbacks and bounds.                    *)
(***************************************************************************)
EXTENDS SessionTabs, LifecycleProofs, SequenceTheorems, FunctionTheorems, FiniteSetTheorems,
        WellFoundedInduction

(* Whatever a backend does to the lifecycle it embeds is one of its four   *)
(* methods or the call of a callback.                                      *)
LEMMA BackgroundUsesLifecycle == BackgroundNext => [LifecycleNext]_lifecycleVars
<1> SUFFICES ASSUME BackgroundNext PROVE [LifecycleNext]_lifecycleVars
  OBVIOUS
<1>1. ASSUME NEW cb \in MaybeCallback, Register(cb) PROVE LifecycleNext
  BY <1>1 DEF Register, LifecycleNext
<1>2. ASSUME NEW t \in Threads, CallOnClose(t) PROVE LifecycleNext
  BY <1>2 DEF CallOnClose, LifecycleNext
<1>3. ASSUME NEW t \in Threads, CallOnError(t) PROVE LifecycleNext
  BY <1>3 DEF CallOnError, LifecycleNext
<1>4. ASSUME NEW t \in Threads, Disconnect(t) \/ Return(t) \/ AwaitExit(t)
      PROVE UNCHANGED lifecycleVars
  BY <1>4 DEF Disconnect, Return, AwaitExit
<1> QED BY <1>1, <1>2, <1>3, <1>4 DEF BackgroundNext

(* A goroutine that fires OnClose as its last step uses FireClose.         *)
LEMMA FireCloseThenUsesLifecycle ==
  ASSUME NEW t \in Threads, NEW from, NEW to, FireCloseThen(t, from, to)
  PROVE  LifecycleNext
  BY DEF FireCloseThen, LifecycleNext

(* The threads a backend names are threads of the lifecycle.               *)
LEMMA WatcherIsAThread == Watcher \in Threads /\ Closers \subseteq Threads
  BY BackgroundAssumption

(* The same of each backend, step by step.                                 *)
LEMMA ProcessUsesLifecycle == ProcessNext => [LifecycleNext]_lifecycleVars
<1>1. ReportEnd => LifecycleNext
  BY FireCloseThenUsesLifecycle, WatcherIsAThread DEF ReportEnd
<1>2. StartClient \/ AdoptFails \/ Publish \/ StartWatcher \/ ClientExits \/ CloseWaitDone
        => UNCHANGED lifecycleVars
  BY DEF StartClient, AdoptFails, Publish, StartWatcher, ClientExits, CloseWaitDone
<1>3. ASSUME NEW t \in Threads, KillOnce(t) PROVE UNCHANGED lifecycleVars
  BY <1>3 DEF KillOnce
<1> QED BY <1>1, <1>2, <1>3, BackgroundUsesLifecycle DEF ProcessNext, WatcherStep

(* VNC: the stages of Connect, the read loop and Disconnect.               *)
LEMMA VncUsesLifecycle == VncNext => [LifecycleNext]_lifecycleVars
<1>1. ReportDead => LifecycleNext
  BY FireCloseThenUsesLifecycle, WatcherIsAThread DEF ReportDead
<1>2. ReportError => [LifecycleNext]_lifecycleVars
  BY WatcherIsAThread DEF ReportError, LifecycleNext
<1>3. Dial \/ HandshakeFails \/ StartReadLoop \/ InitialRequest \/ ConnectFails
        => UNCHANGED lifecycleVars
  BY DEF Dial, HandshakeFails, StartReadLoop, InitialRequest, ConnectFails
<1>4. ServerUpdates \/ ServerGoes \/ LibraryCloses => UNCHANGED lifecycleVars
  BY DEF ServerUpdates, ServerGoes, LibraryCloses
<1>5. ApplyUpdate \/ RequestNext \/ QuitLoop \/ CloseFrames \/ Tick => UNCHANGED lifecycleVars
  BY DEF ApplyUpdate, RequestNext, QuitLoop, CloseFrames, Tick
<1>6. ASSUME NEW t \in Threads, CloseClient(t) PROVE UNCHANGED lifecycleVars
  BY <1>6 DEF CloseClient
<1>7. ASSUME NEW t \in Threads, DisconnectFires(t) PROVE LifecycleNext
  BY <1>7, FireCloseThenUsesLifecycle DEF DisconnectFires
<1>8. ASSUME NEW t \in Threads, SendInput(t) PROVE LifecycleNext
  BY <1>8 DEF SendInput, LifecycleNext
<1> QED
  BY <1>1, <1>2, <1>3, <1>4, <1>5, <1>6, <1>7, <1>8, BackgroundUsesLifecycle
     DEF VncNext, ReadLoop

(* WinRM: Connect, the command, its copiers, the Watcher and Disconnect.   *)
LEMMA WinrmUsesLifecycle == WinrmNext => [LifecycleNext]_lifecycleVars
<1>1. ReportExit => LifecycleNext
  BY FireCloseThenUsesLifecycle, WatcherIsAThread DEF ReportExit
<1>2. (\/ CreateShell \/ StartCommand \/ PublishShell \/ WatchCommand
       \/ CommandEnds \/ CloseBuffer \/ Release)
        => UNCHANGED lifecycleVars
  BY DEF CreateShell, StartCommand, PublishShell, WatchCommand, CommandEnds, CloseBuffer, Release
<1>3. ASSUME NEW s \in Streams, CommandWrites(s) \/ Copy(s) \/ CopierReturns(s)
      PROVE UNCHANGED lifecycleVars
  BY <1>3 DEF CommandWrites, Copy, CopierReturns
<1>4. ASSUME NEW t \in Threads, EnterOnce(t) \/ StopCommand(t) \/ SkipStop(t)
      PROVE UNCHANGED lifecycleVars
  BY <1>4 DEF EnterOnce, StopCommand, SkipStop
<1>5. ASSUME NEW t \in Threads, WriteInput(t) PROVE LifecycleNext
  BY <1>5 DEF WriteInput, LifecycleNext
<1> QED
  BY <1>1, <1>2, <1>3, <1>4, <1>5, BackgroundUsesLifecycle
     DEF WinrmNext, WinrmWatcher, Copiers

(* Web: Connect, the thread of the window and Disconnect.                  *)
LEMMA WebUsesLifecycle == WebNext => [LifecycleNext]_lifecycleVars
<1>1. ReportClosed => LifecycleNext
  BY FireCloseThenUsesLifecycle, WatcherIsAThread DEF ReportClosed
<1>2. Launch \/ Expire \/ ConnectReturns \/ LoopEnds => UNCHANGED lifecycleVars
  BY DEF Launch, Expire, ConnectReturns, LoopEnds
<1>3. PublishWindow \/ SignalReady \/ DestroyWindow => UNCHANGED lifecycleVars
  BY DEF PublishWindow, SignalReady, DestroyWindow
<1>4. ASSUME NEW t \in Threads, AskToTerminate(t) PROVE UNCHANGED lifecycleVars
  BY <1>4 DEF AskToTerminate
<1> QED BY <1>1, <1>2, <1>3, <1>4, BackgroundUsesLifecycle DEF WebNext, WebThread

(* A view only reads the output.                                           *)
LEMMA ViewUsesLifecycle == ViewReads \/ ViewReturns => UNCHANGED lifecycleVars
  BY DEF ViewReads, ViewReturns, Vnc, Winrm, TakeFrame, ReadOutput

(* So whatever a step of the tabs does, the lifecycle takes one of its     *)
(* own.                                                                    *)
LEMMA TabsUseLifecycle == [TabsNext]_tabsVars => [LifecycleNext]_lifecycleVars
<1>1. Open => LifecycleNext
  BY TabsAssumption DEF Open, Register, LifecycleNext, MaybeCallback
<1>2. Process(ProcessNext) \/ Vnc(VncNext) \/ Winrm(WinrmNext) \/ Web(WebNext)
        => [LifecycleNext]_lifecycleVars
  BY ProcessUsesLifecycle, VncUsesLifecycle, WinrmUsesLifecycle, WebUsesLifecycle
     DEF Process, Vnc, Winrm, Web
<1>3. AnyBackend => LifecycleNext
  BY DEF AnyBackend
<1>4. PostResult \/ UILoop => UNCHANGED lifecycleVars
  BY DEF PostResult, UILoop
<1>5. UNCHANGED tabsVars => UNCHANGED lifecycleVars
  BY DEF tabsVars
<1> QED BY <1>1, <1>2, <1>3, <1>4, <1>5, ViewUsesLifecycle DEF TabsNext

(* Every backend, driven by a tab, is a user of Lifecycle: what is proved  *)
(* of Lifecycle holds of each of them.                                     *)
THEOREM TabsRefineLifecycle == TabsSpec => LifecycleSpec
<1>1. TabsInit => LifecycleInit
  BY DEF TabsInit, ProcessInit, BackgroundInit
<1> QED BY <1>1, TabsUseLifecycle, PTL DEF TabsSpec, LifecycleSpec

(* The end of a session is reported by one goroutine at most, whichever of *)
(* them notices it.                                                        *)
THEOREM TabsOneCloser == TabsSpec => []OneCloser
  BY TabsRefineLifecycle, OneCloserAlways, PTL

(* rdp, anydesk, vnc, winrm and web sessions keep the contract of OnClose. *)
THEOREM TabsImplementContract == TabsSpec => ImplementsContract
  BY TabsRefineLifecycle, LifecycleImplementsContract, PTL

-----------------------------------------------------------------------------
(* The lifecycle's types hold under a tab, by the refinement.              *)
LEMMA TabsLifecycleTypes == TabsSpec => []LifecycleTypeOK
  BY TabsRefineLifecycle, LifecycleTypeCorrect, PTL

(* A session ends for good, and the callback of the owner runs only then.  *)
LEMMA ClosedForGood == [LifecycleNext]_lifecycleVars /\ closed => closed'
<1> SUFFICES ASSUME [LifecycleNext]_lifecycleVars, closed PROVE closed'
  OBVIOUS
<1>1. ASSUME NEW cb \in MaybeCallback, OnError(cb) \/ OnClose(cb) PROVE closed'
  BY <1>1 DEF OnError, OnClose
<1>2. ASSUME NEW t \in Threads, FireError(t) \/ FireClose(t) \/ RunOnError(t) \/ RunOnClose(t)
      PROVE closed'
  BY <1>2 DEF FireError, FireClose, RunOnError, RunOnClose
<1> QED BY <1>1, <1>2 DEF LifecycleNext, lifecycleVars

(* The callback runs only in a session that has been closed.               *)
LEMMA CallbackRunsWhenClosed ==
  LifecycleTypeOK /\ OneCloser /\ [LifecycleNext]_lifecycleVars /\ closeRuns' > closeRuns
    => closed'
<1> SUFFICES ASSUME LifecycleTypeOK, OneCloser, [LifecycleNext]_lifecycleVars,
                    closeRuns' > closeRuns
             PROVE  closed'
  OBVIOUS
<1>1. closeRuns' # closeRuns
  BY DEF LifecycleTypeOK
<1>2. \E t \in Threads : RunOnClose(t)
  BY <1>1 DEF LifecycleNext, lifecycleVars, OnError, OnClose, FireError, FireClose, RunOnError
<1>3. closed
  BY <1>2 DEF RunOnClose, OneCloser, Closing
<1> QED BY <1>3, ClosedForGood

(* What makes TabStaysWithSession inductive: the removal is asked for only *)
(* when the session has ended.                                             *)
RemovalFollowsEnd ==
  /\ queue \in Seq({"wire", "error", "remove"})
  /\ tab = "removed" => closed
  /\ \A i \in 1..Len(queue) : queue[i] = "remove" => closed

(* A run of CloseTab queues the removal after the end of the session.      *)
LEMMA NotifiesAfterEnd ==
  /\ LifecycleTypeOK /\ OneCloser /\ RemovalFollowsEnd
  /\ [LifecycleNext]_lifecycleVars /\ Notifies
  => RemovalFollowsEnd'
<1> SUFFICES ASSUME LifecycleTypeOK, OneCloser, RemovalFollowsEnd,
                    [LifecycleNext]_lifecycleVars, Notifies
             PROVE  RemovalFollowsEnd'
  OBVIOUS
<1>1. closed => closed'
  BY ClosedForGood
<1>2. CASE queue' = queue
  BY <1>1, <1>2 DEF RemovalFollowsEnd, Notifies
<1>3. CASE queue' = Append(queue, "remove") /\ closeRuns' > closeRuns
  <2>1. closed'
    BY <1>3, CallbackRunsWhenClosed
  <2> QED BY <1>3, <2>1 DEF RemovalFollowsEnd, Notifies
<1> QED BY <1>2, <1>3 DEF Notifies

(* A removal is queued, or done, only for a session that has ended.        *)
LEMMA RemovalFollowsEndStep ==
  LifecycleTypeOK /\ OneCloser /\ RemovalFollowsEnd /\ [TabsNext]_tabsVars => RemovalFollowsEnd'
<1> SUFFICES ASSUME LifecycleTypeOK, OneCloser, RemovalFollowsEnd, [TabsNext]_tabsVars
             PROVE  RemovalFollowsEnd'
  OBVIOUS
<1>1. [LifecycleNext]_lifecycleVars
  BY TabsUseLifecycle
<1>2. closed => closed'
  BY <1>1, ClosedForGood
<1>3. CASE Open
  BY <1>2, <1>3 DEF Open, RemovalFollowsEnd
<1>4. CASE Process(ProcessNext) \/ Vnc(VncNext) \/ Winrm(WinrmNext) \/ Web(WebNext) \/ ViewReads
  <2>1. Notifies
    BY <1>4 DEF Process, Vnc, Winrm, Web, ViewReads
  <2> QED BY <1>1, <2>1, NotifiesAfterEnd
<1>5. CASE AnyBackend \/ ViewReturns \/ UNCHANGED tabsVars
  <2>1. UNCHANGED <<tab, queue>>
    BY <1>5 DEF AnyBackend, ViewReturns, tabsVars, tabVars
  <2> QED BY <1>2, <2>1 DEF RemovalFollowsEnd
<1>6. CASE PostResult
  <2>1. PICK result \in {"wire", "error"} : queue' = Append(queue, result)
    BY <1>6 DEF PostResult
  <2>2. UNCHANGED <<tab, closed>>
    BY <1>6 DEF PostResult, lifecycleVars
  <2> QED BY <2>1, <2>2 DEF RemovalFollowsEnd
<1>7. CASE UILoop
  <2>1. queue # <<>> /\ queue' = Tail(queue) /\ closed' = closed
    BY <1>7 DEF UILoop, lifecycleVars
  <2>2. tab' = tab \/ (Head(queue) = "remove" /\ tab' = "removed")
    BY <1>7 DEF UILoop
  <2>3. Head(queue) = queue[1] /\ 1 \in 1..Len(queue)
    BY <2>1 DEF RemovalFollowsEnd
  <2>4. Tail(queue) \in Seq({"wire", "error", "remove"})
    BY <2>1 DEF RemovalFollowsEnd
  <2>5. \A i \in 1..Len(Tail(queue)) : i + 1 \in 1..Len(queue) /\ Tail(queue)[i] = queue[i + 1]
    BY <2>1 DEF RemovalFollowsEnd
  <2> QED BY <2>1, <2>2, <2>3, <2>4, <2>5 DEF RemovalFollowsEnd
<1> QED BY <1>3, <1>4, <1>5, <1>6, <1>7 DEF TabsNext

(* Whatever the backend, and in whatever order its end and the result of   *)
(* Connect come up, no tab is taken away from a session that goes on.      *)
THEOREM TabsStayWithSessions == TabsSpec => []TabStaysWithSession
<1>1. TabsInit => RemovalFollowsEnd
  BY DEF TabsInit, RemovalFollowsEnd
<1>2. RemovalFollowsEnd => TabStaysWithSession
  BY DEF RemovalFollowsEnd, TabStaysWithSession
<1> QED
  BY <1>1, <1>2, RemovalFollowsEndStep, TabsLifecycleTypes, TabsOneCloser, PTL DEF TabsSpec

-----------------------------------------------------------------------------
(* What makes NoOrphan inductive: the client is started by Connect and by  *)
(* nothing else, a Connect that fails leaves none, and the Watcher gets as *)
(* far as reporting the end only when the client is gone.                  *)
ClientAccounted ==
  /\ kind # "process" => proc = "none"
  /\ kind = "process" =>
       /\ pc \in [Threads -> {"ready", "waiting", "ended", "returning", "disconnect",
                              "waitDone", "done"}]
       /\ connect = "idle" => proc = "none"
       /\ connect = "failed" => proc \in {"none", "exited"}
       /\ closed \/ pc[Watcher] = "ended" => proc = "exited"

(* The shared steps leave the process and the handle to it alone.          *)
LEMMA BackgroundKeepsClient ==
  kind = "process" /\ ClientAccounted /\ BackgroundNext /\ UNCHANGED <<clientVars, kind>>
    => ClientAccounted'
<1> SUFFICES ASSUME kind = "process", ClientAccounted, BackgroundNext, UNCHANGED <<clientVars, kind>>
             PROVE  ClientAccounted'
  OBVIOUS
<1> USE DEF ClientAccounted, clientVars
<1>1. ASSUME NEW cb \in MaybeCallback, Register(cb) PROVE ClientAccounted'
  BY <1>1 DEF Register, OnClose, backgroundVars
<1>2. ASSUME NEW t \in Threads, Disconnect(t) \/ Return(t) \/ AwaitExit(t) PROVE ClientAccounted'
  BY <1>2, WatcherIsAThread DEF Disconnect, Return, AwaitExit, Step, lifecycleVars
<1>3. ASSUME NEW t \in Threads, CallOnClose(t) PROVE ClientAccounted'
  BY <1>3, WatcherIsAThread DEF CallOnClose, RunOnClose
<1>4. ASSUME NEW t \in Threads, CallOnError(t) PROVE ClientAccounted'
  BY <1>4 DEF CallOnError, RunOnError, backgroundVars
<1> QED BY <1>1, <1>2, <1>3, <1>4 DEF BackgroundNext

(* Every step of the backend keeps account of its client process.          *)
LEMMA ProcessKeepsClient ==
  kind = "process" /\ ClientAccounted /\ ProcessNext /\ UNCHANGED kind => ClientAccounted'
<1> SUFFICES ASSUME kind = "process", ClientAccounted, ProcessNext, UNCHANGED kind
             PROVE  ClientAccounted'
  OBVIOUS
<1> USE WatcherIsAThread DEF ClientAccounted
<1>1. CASE BackgroundNext /\ UNCHANGED clientVars
  BY <1>1, BackgroundKeepsClient
<1>2. CASE StartClient \/ AdoptFails \/ Publish
  BY <1>2 DEF StartClient, AdoptFails, Publish, lifecycleVars
<1>3. CASE StartWatcher
  BY <1>3 DEF StartWatcher, lifecycleVars, clientVars
<1>4. CASE ClientExits
  BY <1>4 DEF ClientExits, lifecycleVars, backgroundVars
<1>5. CASE CloseWaitDone
  BY <1>5 DEF CloseWaitDone, Step, lifecycleVars, clientVars
<1>6. CASE ReportEnd
  BY <1>6 DEF ReportEnd, FireCloseThen, Step, clientVars
<1>7. ASSUME NEW t \in Threads, KillOnce(t) PROVE ClientAccounted'
  BY <1>7 DEF KillOnce, Step, lifecycleVars
<1> QED BY <1>1, <1>2, <1>3, <1>4, <1>5, <1>6, <1>7 DEF ProcessNext, WatcherStep

(* And so does every step of a tab.                                        *)
LEMMA ClientAccountedStep == ClientAccounted /\ [TabsNext]_tabsVars => ClientAccounted'
<1> SUFFICES ASSUME ClientAccounted, [TabsNext]_tabsVars PROVE ClientAccounted'
  OBVIOUS
<1>1. kind' = kind
  BY DEF TabsNext, tabsVars, Open, Process, Vnc, Winrm, Web, Notifies, AnyBackend,
         PostResult, UILoop, ViewReads, ViewReturns
<1>2. CASE kind = "process" /\ Process(ProcessNext)
  BY <1>1, <1>2, ProcessKeepsClient DEF Process
<1>3. CASE Open
  BY <1>3 DEF Open, Register, OnClose, backgroundVars, clientVars, ClientAccounted
<1>4. CASE kind # "process"
  <2>1. UNCHANGED proc
    BY <1>4 DEF TabsNext, tabsVars, clientVars, Open, Process, Vnc, Winrm, Web, AnyBackend,
           PostResult, UILoop, ViewReads, ViewReturns
  <2> QED BY <1>1, <1>4, <2>1 DEF ClientAccounted
<1>5. CASE kind = "process" /\ (PostResult \/ UILoop \/ ViewReturns \/ UNCHANGED tabsVars)
  <2>1. UNCHANGED <<pc, connect, proc, closed, kind>>
    BY <1>1, <1>5 DEF PostResult, UILoop, ViewReturns, tabsVars, lifecycleVars, backgroundVars, clientVars
  <2> QED BY <1>5, <2>1 DEF ClientAccounted
<1> QED
  BY <1>2, <1>3, <1>4, <1>5 DEF TabsNext, Process, Vnc, Winrm, Web, AnyBackend, ViewReads

(* No client of an rdp or anydesk session survives a Connect that failed   *)
(* or a session whose end has been reported.                               *)
THEOREM TabsLeaveNoOrphan == TabsSpec => []NoOrphan
<1>1. TabsInit => ClientAccounted
  BY WatcherIsAThread
     DEF TabsInit, ProcessInit, BackgroundInit, LifecycleInit, ClientAccounted
<1>2. ClientAccounted => NoOrphan
  BY DEF ClientAccounted, NoOrphan
<1> QED BY <1>1, <1>2, ClientAccountedStep, PTL DEF TabsSpec

-----------------------------------------------------------------------------
(***************************************************************************)
(* The invariant of each backend and of its tab.                           *)
(***************************************************************************)
(* The Watcher runs, and waits for the client, once Connect has succeeded. *)
ProcessInv ==
  /\ once \in {"free", "done"} /\ waitDone \in {"nil", "open", "closed"}
  /\ connect \in {"idle", "adopting", "watching", "connected", "failed"}
  /\ proc \in {"none", "running", "killed", "exited"}
  /\ cmd \in BOOLEAN /\ (cmd <=> connect \in {"watching", "connected"})
  /\ waitDone # "nil" <=> connect = "connected"
  /\ pc \in [Threads -> {"ready", "waiting", "ended", "returning", "disconnect",
                         "waitDone", "done"}]
  /\ pc[Watcher] = "waiting" => connect = "connected"

(* The entries of a channel, oldest first, with no repetition.             *)
Ascending(s) == \A i, j \in 1..Len(s) : i < j => s[i] < s[j]

(* The Watcher is the read loop: it runs from Connect to its own end,      *)
(* closes the frames as its last act, and quit is closed by the winner of  *)
(* closeOnce.                                                              *)
VncInv ==
  /\ once \in {"free", "done"} /\ waitDone = "nil"
  /\ connect \in {"idle", "handshake", "requesting", "closing", "connected", "failed"}
  /\ conn \in {"none", "open", "closed"} /\ server \in {"up", "gone"}
  /\ client \in BOOLEAN /\ quit \in BOOLEAN /\ (quit <=> once # "free")
  /\ framesClosed \in BOOLEAN
  /\ pc \in [Threads -> {"ready", "select", "request", "dead", "report", "closeFrames",
                         "disconnect", "fireClose", "returning", "done"}]
  /\ connect \in {"idle", "handshake"} => pc[Watcher] = "ready"
  /\ framesClosed <=> pc[Watcher] = "done"
  /\ pc[Watcher] # "returning"
  /\ firing[Watcher].kind = "close" => pc[Watcher] = "closeFrames"

(* The frames come before the updates still waiting, all in order.         *)
InOrder(taking, waiting, latest) ==
  /\ taking \in Seq(Nat) /\ waiting \in Seq(Nat)
  /\ Ascending(taking) /\ Ascending(waiting)
  /\ \A i \in 1..Len(taking) : taking[i] <= latest
  /\ \A j \in 1..Len(waiting) : waiting[j] <= latest
  /\ \A i \in 1..Len(taking), j \in 1..Len(waiting) : taking[i] < waiting[j]

(* What TabsTypeOK says of the channels, made inductive.                   *)
FramesInv ==
  /\ screen \in 0..MaxScreens
  /\ Len(frames) <= FrameSlots
  /\ InOrder(frames, inbox, screen)

(* The buffer is closed when both copiers have read their streams to the   *)
(* end; a stream nobody copies any more has nothing left.                  *)
WinrmInv ==
  /\ once \in {"free", "running", "done"} /\ waitDone \in {"nil", "open", "closed"}
  /\ connect \in {"idle", "shell", "command", "publishing", "watching", "connected", "failed"}
  /\ command \in {"none", "running", "stopping", "ended"} /\ stuck \subseteq Streams
  /\ pc \in [Threads -> {"ready", "copiers", "release", "report", "returning", "disconnect",
                         "stopping", "waitDone", "done"}]
  /\ shell \in BOOLEAN /\ (shell <=> connect \in {"watching", "connected"})
  /\ waitDone # "nil" <=> connect = "connected"
  /\ command # "none" <=> connect \in {"publishing", "watching", "connected"}
  /\ pc[Watcher] \in {"copiers", "release"} => connect = "connected"
  /\ bufferClosed \in BOOLEAN
  /\ pc[Watcher] = "release" \/ waitDone = "closed" => bufferClosed
  /\ bufferClosed => copying = {} /\ command = "ended"
  /\ copying \subseteq Streams
  /\ command \in {"running", "stopping"} => copying = Streams
  /\ pending \in [Streams -> Nat]
  /\ \A s \in Streams \ copying : pending[s] = 0
  /\ produced \in 0..MaxChunks /\ buffered \in Nat /\ taken \in Nat

(* The window exists from the moment the window thread has made it.        *)
WebInv ==
  /\ once \in {"free", "done"} /\ waitDone = "nil"
  /\ connect \in {"idle", "waiting", "connected", "failed"}
  /\ window \in {"none", "open", "destroyed"}
  /\ ctxDone \in BOOLEAN /\ ready \in BOOLEAN /\ terminate \in BOOLEAN
  /\ ready => window # "none"
  /\ connect = "connected" => ready
  /\ terminate => once = "done" /\ window # "none"
  /\ pc \in [Threads -> {"ready", "creating", "publishing", "running", "closing", "report",
                         "returning", "disconnect", "done"}]
  /\ pc[Watcher] \in {"publishing", "running", "closing"} => window # "none"

(* Each thing the UI goroutine is asked to do has its cause, and each      *)
(* cause asks once.                                                        *)
TabInv ==
  /\ queue \in Seq({"wire", "error", "remove"})
  /\ \A i \in 1..Len(queue) :
       /\ queue[i] = "remove" => closeRuns = 1
       /\ queue[i] # "remove" => reported
       /\ queue[i] = "error" => connect = "failed"
  /\ \A i, j \in 1..Len(queue) : queue[i] = queue[j] => i = j
  /\ reported \in BOOLEAN
  /\ tab \in {"none", "shown", "removed"}
  /\ view \in {"none", "reading", "embedded", "ended"}
  /\ content = "error" => connect = "failed"
  /\ kind \in Kinds

(* A session has the invariant of the backend it was opened with; the view *)
(* of a WinRM session ends after the buffer.                               *)
BackendInv ==
  /\ kind = "process" => ProcessInv
  /\ kind = "vnc" => VncInv /\ FramesInv
  /\ kind = "winrm" => WinrmInv /\ (view = "ended" => bufferClosed /\ buffered = 0)
  /\ kind = "web" => WebInv
  /\ TabInv

-----------------------------------------------------------------------------
(* How the shared steps move a goroutine on.                               *)
LEMMA BackgroundMoves ==
  ASSUME BackgroundNext, pc = [t \in Threads |-> pc[t]]
  PROVE  /\ UNCHANGED <<connect, once, waitDone>>
         /\ \/ pc' = pc /\ \A t \in Threads : firing'[t] = firing[t] \/ firing'[t] = Idle
            \/ \E t \in Threads :
                 \/ /\ pc' = [pc EXCEPT ![t] = "disconnect"] /\ t \in Closers /\ pc[t] = "ready"
                    /\ firing' = firing
                 \/ /\ pc' = [pc EXCEPT ![t] = "disconnect"] /\ firing[t].kind = "close"
                    /\ firing' = [firing EXCEPT ![t] = Idle]
                 \/ /\ pc' = [pc EXCEPT ![t] = "done"] /\ pc[t] \in {"returning", "waitDone"}
                    /\ firing' = firing
<1>1. ASSUME NEW cb \in MaybeCallback, Register(cb)
      PROVE  UNCHANGED <<connect, once, waitDone, pc, firing>>
  BY <1>1 DEF Register, OnClose, backgroundVars
<1>2. ASSUME NEW t \in Threads, Disconnect(t)
      PROVE  /\ UNCHANGED <<connect, once, waitDone, firing>>
             /\ pc' = [pc EXCEPT ![t] = "disconnect"] /\ t \in Closers /\ pc[t] = "ready"
  BY <1>2 DEF Disconnect, Step, lifecycleVars
<1>3. ASSUME NEW t \in Threads, CallOnClose(t)
      PROVE  /\ UNCHANGED <<connect, once, waitDone>>
             /\ firing[t].kind = "close" /\ firing' = [firing EXCEPT ![t] = Idle]
             /\ \/ pc' = [pc EXCEPT ![t] = "disconnect"]
                \/ pc' = pc
  BY <1>3 DEF CallOnClose, RunOnClose
<1>4. ASSUME NEW t \in Threads, CallOnError(t)
      PROVE  /\ UNCHANGED <<connect, once, waitDone, pc>>
             /\ firing' = [firing EXCEPT ![t] = Idle]
  BY <1>4 DEF CallOnError, RunOnError, backgroundVars
<1>5. ASSUME NEW t \in Threads, Return(t) \/ AwaitExit(t)
      PROVE  /\ UNCHANGED <<connect, once, waitDone, firing>>
             /\ pc' = [pc EXCEPT ![t] = "done"] /\ pc[t] \in {"returning", "waitDone"}
  BY <1>5 DEF Return, AwaitExit, Step, lifecycleVars
<1>6. ASSUME NEW t \in Threads, firing' = [firing EXCEPT ![t] = Idle]
      PROVE  \A u \in Threads : firing'[u] = firing[u] \/ firing'[u] = Idle
  BY <1>6
<1> QED BY <1>1, <1>2, <1>3, <1>4, <1>5, <1>6 DEF BackgroundNext

(* Each action, then each conjunct it disturbs.                            *)
LEMMA ProcessInvStep == ProcessInv /\ ProcessNext => ProcessInv'
<1> SUFFICES ASSUME ProcessInv, ProcessNext PROVE ProcessInv'
  OBVIOUS
<1> USE WatcherIsAThread DEF ProcessInv
<1>1. CASE BackgroundNext /\ UNCHANGED clientVars
  <2>1. pc = [t \in Threads |-> pc[t]]
    OBVIOUS
  <2>2. UNCHANGED <<connect, once, waitDone, proc, cmd>>
    BY <1>1, <2>1, BackgroundMoves DEF clientVars
  <2>3. pc' = pc \/ \E t \in Threads, to \in {"disconnect", "done"} : pc' = [pc EXCEPT ![t] = to]
    BY <1>1, <2>1, BackgroundMoves
  <2>4. CASE pc' = pc
    BY <2>2, <2>4
  <2>5. ASSUME NEW t \in Threads, NEW to \in {"disconnect", "done"}, pc' = [pc EXCEPT ![t] = to]
        PROVE  ProcessInv'
    BY <2>2, <2>5
  <2> QED BY <2>3, <2>4, <2>5
<1>2. CASE StartClient
  BY <1>2 DEF StartClient
<1>3. CASE AdoptFails
  BY <1>3 DEF AdoptFails
<1>4. CASE Publish
  BY <1>4 DEF Publish
<1>5. CASE StartWatcher
  BY <1>5 DEF StartWatcher, clientVars
<1>6. CASE ClientExits
  BY <1>6 DEF ClientExits, backgroundVars
<1>7. CASE CloseWaitDone
  BY <1>7 DEF CloseWaitDone, Step, clientVars
<1>8. CASE ReportEnd
  BY <1>8 DEF ReportEnd, FireCloseThen, Step, clientVars
<1>9. ASSUME NEW t \in Threads, KillOnce(t) PROVE ProcessInv'
  BY <1>9 DEF KillOnce, Step
<1> QED BY <1>1, <1>2, <1>5, <1>6, <1>7, <1>8, <1>9, <1>3, <1>4 DEF ProcessNext, WatcherStep

(* The window thread moves by itself; Disconnect asks it to terminate.     *)
LEMMA WebInvStep == WebInv /\ WebNext => WebInv'
<1> SUFFICES ASSUME WebInv, WebNext PROVE WebInv'
  OBVIOUS
<1> USE WatcherIsAThread DEF WebInv
<1>1. CASE BackgroundNext /\ UNCHANGED webVars
  <2>1. pc = [t \in Threads |-> pc[t]]
    OBVIOUS
  <2>2. UNCHANGED <<connect, once, waitDone, ctxDone, window, ready, terminate>>
    BY <1>1, <2>1, BackgroundMoves DEF webVars
  <2>3. pc' = pc \/ \E t \in Threads, to \in {"disconnect", "done"} : pc' = [pc EXCEPT ![t] = to]
    BY <1>1, <2>1, BackgroundMoves
  <2> QED BY <2>2, <2>3
<1>2. CASE Launch \/ ConnectReturns
  BY <1>2 DEF Launch, ConnectReturns, webVars
<1>3. CASE Expire
  BY <1>3 DEF Expire, backgroundVars
<1>4. CASE PublishWindow
  BY <1>4 DEF PublishWindow, Step
<1>5. CASE SignalReady
  BY <1>5 DEF SignalReady, Step
<1>6. CASE LoopEnds
  BY <1>6 DEF LoopEnds, Step
<1>7. CASE DestroyWindow
  BY <1>7 DEF DestroyWindow, Step
<1>8. CASE ReportClosed
  BY <1>8 DEF ReportClosed, FireCloseThen, Step, webVars
<1>9. ASSUME NEW t \in Threads, AskToTerminate(t) PROVE WebInv'
  BY <1>9 DEF AskToTerminate, Step
<1> QED BY <1>1, <1>2, <1>3, <1>4, <1>5, <1>6, <1>7, <1>8, <1>9 DEF WebNext, WebThread

(* A copier returns with nothing pending in its stream, after the command  *)
(* has ended.                                                              *)
LEMMA WinrmInvStep == WinrmInv /\ WinrmNext => WinrmInv'
<1> SUFFICES ASSUME WinrmInv, WinrmNext PROVE WinrmInv'
  OBVIOUS
<1> USE WatcherIsAThread DEF WinrmInv
<1>1. CASE BackgroundNext /\ UNCHANGED winrmVars
  <2>1. pc = [t \in Threads |-> pc[t]]
    OBVIOUS
  <2>2. UNCHANGED <<connect, once, waitDone, winrmVars>>
    BY <1>1, <2>1, BackgroundMoves
  <2>3. pc' = pc \/ \E t \in Threads, to \in {"disconnect", "done"} : pc' = [pc EXCEPT ![t] = to]
    BY <1>1, <2>1, BackgroundMoves
  <2> QED BY <2>2, <2>3 DEF winrmVars
<1>2. CASE CreateShell
  BY <1>2 DEF CreateShell, winrmVars
<1>3. CASE StartCommand
  BY <1>3 DEF StartCommand
<1>4. CASE CommandEnds
  BY <1>4 DEF CommandEnds, backgroundVars
<1>5. ASSUME NEW s \in Streams, CommandWrites(s) PROVE WinrmInv'
  BY <1>5, WinrmAssumption DEF CommandWrites, backgroundVars
<1>6. ASSUME NEW s \in Streams, Copy(s) PROVE WinrmInv'
  BY <1>6 DEF Copy, backgroundVars
<1>7. ASSUME NEW s \in Streams, CopierReturns(s) PROVE WinrmInv'
  BY <1>7 DEF CopierReturns, backgroundVars
<1>8. CASE CloseBuffer
  BY <1>8 DEF CloseBuffer, Step
<1>9. CASE Release
  BY <1>9 DEF Release, Step, winrmVars
<1>10. CASE ReportExit
  BY <1>10 DEF ReportExit, FireCloseThen, Step, winrmVars
<1>11. ASSUME NEW t \in Threads, EnterOnce(t) \/ SkipStop(t) PROVE WinrmInv'
  BY <1>11 DEF EnterOnce, SkipStop, Step, winrmVars
<1>12. ASSUME NEW t \in Threads, StopCommand(t) PROVE WinrmInv'
  BY <1>12 DEF StopCommand, Step
<1>13. ASSUME NEW t \in Threads, WriteInput(t) PROVE WinrmInv'
  BY <1>13 DEF WriteInput, backgroundVars, winrmVars
<1>14. CASE PublishShell
  BY <1>14 DEF PublishShell
<1>15. CASE WatchCommand
  BY <1>15 DEF WatchCommand, winrmVars
<1> QED BY <1>1, <1>2, <1>3, <1>4, <1>5, <1>6, <1>7, <1>8, <1>9, <1>10, <1>11, <1>12, <1>13,
           <1>14, <1>15
        DEF WinrmNext, WinrmWatcher, Copiers

(* OnClose can be fired by the read loop only just before it closes the    *)
(* frames.                                                                 *)
LEMMA VncInvStep == LifecycleTypeOK /\ VncInv /\ VncNext => VncInv'
<1> SUFFICES ASSUME LifecycleTypeOK, VncInv, VncNext PROVE VncInv'
  OBVIOUS
<1> USE BackgroundAssumption DEF VncInv
<1>0. /\ firing \in [Threads -> Captures] /\ Watcher \in Threads
      /\ Idle \in Captures /\ Idle.kind = "none"
  BY DEF LifecycleTypeOK, Captures, Idle
<1>1. CASE BackgroundNext /\ UNCHANGED vncVars
  <2>1. pc = [t \in Threads |-> pc[t]]
    OBVIOUS
  <2>2. UNCHANGED <<connect, once, waitDone, vncVars>>
    BY <1>1, <2>1, BackgroundMoves
  <2> HIDE DEF VncInv
  <2>3. CASE pc' = pc /\ \A t \in Threads : firing'[t] = firing[t] \/ firing'[t] = Idle
    BY <1>0, <2>2, <2>3 DEF vncVars, VncInv
  <2>4. ASSUME NEW t \in Closers, pc' = [pc EXCEPT ![t] = "disconnect"], firing' = firing PROVE VncInv'
    BY <1>0, <2>2, <2>4 DEF vncVars, VncInv
  <2>5. ASSUME NEW t \in Threads, pc' = [pc EXCEPT ![t] = "disconnect"], firing[t].kind = "close",
               firing' = [firing EXCEPT ![t] = Idle]
        PROVE  VncInv'
    <3>1. CASE t = Watcher
      BY <1>0, <2>2, <2>5, <3>1 DEF vncVars, VncInv
    <3>2. CASE t # Watcher
      BY <1>0, <2>2, <2>5, <3>2 DEF vncVars, VncInv
    <3> QED BY <3>1, <3>2
  <2>6. ASSUME NEW t \in Threads, pc' = [pc EXCEPT ![t] = "done"], pc[t] \in {"returning", "waitDone"},
               firing' = firing
        PROVE  VncInv'
    <3>1. t # Watcher
      BY <2>6 DEF VncInv
    <3> QED BY <1>0, <2>2, <2>6, <3>1 DEF vncVars, VncInv
  <2> QED BY <1>1, <2>1, <2>3, <2>4, <2>5, <2>6, BackgroundMoves
<1>2. CASE Dial \/ HandshakeFails
  BY <1>0, <1>2 DEF Dial, HandshakeFails, lifecycleVars
<1>3. CASE StartReadLoop
  <2>1. firing' = firing /\ pc' = [pc EXCEPT ![Watcher] = "select"] /\ pc[Watcher] = "ready"
    BY <1>3 DEF StartReadLoop, lifecycleVars
  <2> QED BY <1>0, <1>3, <2>1 DEF StartReadLoop
<1>4. CASE InitialRequest
  BY <1>0, <1>4 DEF InitialRequest, Written, WriteFails, lifecycleVars
<1>5. CASE ConnectFails
  BY <1>0, <1>5 DEF ConnectFails, vncVars, lifecycleVars
<1>6. CASE ServerUpdates \/ ServerGoes \/ LibraryCloses
  BY <1>0, <1>6 DEF ServerUpdates, ServerGoes, LibraryCloses, backgroundVars, lifecycleVars
<1>7. CASE ApplyUpdate \/ RequestNext \/ QuitLoop \/ Tick
  BY <1>0, <1>7 DEF ApplyUpdate, RequestNext, QuitLoop, Tick, Step, vncVars, lifecycleVars
<1>8. CASE CloseFrames
  BY <1>0, <1>8 DEF CloseFrames, Step, lifecycleVars
<1>9. CASE ReportError
  <2>1. firing' = firing \/ firing' = [firing EXCEPT ![Watcher] = [kind |-> "error", cb |-> onError]]
    BY <1>9 DEF ReportError, FireError, lifecycleVars
  <2>2. firing'[Watcher].kind # "close"
    BY <1>0, <1>9, <2>1 DEF ReportError, Step
  <2> QED BY <1>0, <1>9, <2>2 DEF ReportError, Step, vncVars
<1>10. CASE ReportDead
  BY <1>0, <1>10 DEF ReportDead, FireCloseThen, FireClose, Step, vncVars
<1>11. ASSUME NEW t \in Threads, CloseClient(t) PROVE VncInv'
  BY <1>0, <1>11 DEF CloseClient, Step, lifecycleVars
<1>12. ASSUME NEW t \in Threads, DisconnectFires(t) PROVE VncInv'
  <2>1. CASE t = Watcher
    BY <1>0, <1>12, <2>1 DEF DisconnectFires, FireCloseThen, FireClose, Step, vncVars
  <2>2. CASE t # Watcher
    <3>1. firing'[Watcher] = firing[Watcher] /\ pc' = [pc EXCEPT ![t] = "returning"]
      BY <1>0, <1>12, <2>2 DEF DisconnectFires, FireCloseThen, FireClose, Step
    <3> QED BY <1>0, <1>12, <2>2, <3>1 DEF DisconnectFires, FireCloseThen, vncVars
  <2> QED BY <2>1, <2>2
<1>13. ASSUME NEW t \in Threads, SendInput(t) PROVE VncInv'
  <2>1. t # Watcher
    BY <1>13 DEF SendInput
  <2>2. firing'[Watcher] = firing[Watcher]
    BY <1>0, <1>13, <2>1 DEF SendInput, FireError
  <2> QED BY <1>0, <1>13, <2>2 DEF SendInput, backgroundVars, vncVars
<1> QED BY <1>1, <1>2, <1>3, <1>4, <1>5, <1>6, <1>7, <1>8, <1>9, <1>10, <1>11, <1>12, <1>13
        DEF VncNext, ReadLoop

-----------------------------------------------------------------------------
(* A later update goes at the end.                                         *)
LEMMA AppendAscending ==
  ASSUME NEW s \in Seq(Nat), Ascending(s), NEW v \in Nat, \A i \in 1..Len(s) : s[i] < v
  PROVE  /\ Append(s, v) \in Seq(Nat) /\ Ascending(Append(s, v))
         /\ Len(Append(s, v)) = Len(s) + 1
         /\ \A i \in 1..Len(s) + 1 : Append(s, v)[i] = IF i <= Len(s) THEN s[i] ELSE v
<1>1. /\ Append(s, v) \in Seq(Nat) /\ Len(Append(s, v)) = Len(s) + 1
      /\ \A i \in 1..Len(s) + 1 : Append(s, v)[i] = IF i <= Len(s) THEN s[i] ELSE v
  BY AppendProperties
<1> QED BY <1>1 DEF Ascending

(* Taking the oldest keeps the order.                                      *)
LEMMA TailAscending ==
  ASSUME NEW s \in Seq(Nat), Ascending(s), s # <<>>
  PROVE  /\ Tail(s) \in Seq(Nat) /\ Ascending(Tail(s)) /\ Len(Tail(s)) = Len(s) - 1
         /\ Head(s) = s[1] /\ 1 \in 1..Len(s)
         /\ \A i \in 1..Len(s) - 1 : i + 1 \in 1..Len(s) /\ Tail(s)[i] = s[i+1] /\ s[1] < s[i+1]
<1>1. /\ Tail(s) \in Seq(Nat) /\ Len(Tail(s)) = Len(s) - 1 /\ Len(s) \in Nat \ {0}
      /\ \A i \in 1..Len(s) - 1 : i + 1 \in 1..Len(s) /\ Tail(s)[i] = s[i+1]
  BY HeadTailProperties, EmptySeq
<1> QED BY <1>1 DEF Ascending

(* The server sends an update newer than all others.                       *)
LEMMA OrderAfterAppend ==
  ASSUME NEW f, NEW b, NEW v \in Nat, InOrder(f, b, v)
  PROVE  InOrder(f, Append(b, v + 1), v + 1)
<1> DEFINE c == Append(b, v + 1)
<1>0. /\ f \in Seq(Nat) /\ b \in Seq(Nat) /\ v + 1 \in Nat /\ Len(b) \in Nat
      /\ \A i \in 1..Len(f) : f[i] \in Nat /\ f[i] <= v
      /\ \A i \in 1..Len(b) : b[i] \in Nat /\ b[i] <= v
  BY DEF InOrder
<1>1. \A i \in 1..Len(b) : b[i] < v + 1
  BY <1>0
<1>2. /\ c \in Seq(Nat) /\ Ascending(c) /\ Len(c) = Len(b) + 1
      /\ \A i \in 1..Len(b) + 1 : c[i] = IF i <= Len(b) THEN b[i] ELSE v + 1
  BY <1>0, <1>1, AppendAscending DEF InOrder
<1> HIDE DEF c
<1>3. ASSUME NEW j \in 1..Len(c)
      PROVE  c[j] <= v + 1 /\ \A i \in 1..Len(f) : f[i] < c[j]
  <2>1. CASE j <= Len(b)
    <3>1. j \in 1..Len(b) /\ c[j] = b[j]
      BY <1>0, <1>2, <2>1
    <3> QED BY <1>0, <3>1 DEF InOrder
  <2>2. CASE ~(j <= Len(b))
    <3>1. c[j] = v + 1
      BY <1>0, <1>2, <2>2
    <3> QED BY <1>0, <3>1
  <2> QED BY <2>1, <2>2
<1>4. \A i \in 1..Len(f) : f[i] <= v + 1
  BY <1>0
<1> QED BY <1>0, <1>2, <1>3, <1>4 DEF InOrder, c

(* The view takes the oldest frame.                                        *)
LEMMA OrderAfterTake ==
  ASSUME NEW f, NEW b, NEW v, InOrder(f, b, v), f # <<>>
  PROVE  InOrder(Tail(f), b, v) /\ Len(Tail(f)) = Len(f) - 1
<1> DEFINE g == Tail(f)
<1>1. /\ g \in Seq(Nat) /\ Ascending(g) /\ Len(g) = Len(f) - 1
      /\ \A i \in 1..Len(f) - 1 : i + 1 \in 1..Len(f) /\ g[i] = f[i+1]
  BY TailAscending DEF InOrder
<1> HIDE DEF g
<1>2. \A i \in 1..Len(g) : g[i] <= v /\ \A j \in 1..Len(b) : g[i] < b[j]
  BY <1>1 DEF InOrder
<1> QED BY <1>1, <1>2 DEF InOrder, g

(* The read loop turns the oldest update into a frame; a full channel      *)
(* loses its oldest frame.                                                 *)
LEMMA OrderAfterApply ==
  ASSUME NEW f, NEW b, NEW v \in Nat, InOrder(f, b, v), b # <<>>
  PROVE  InOrder(f, Tail(b), v) /\ InOrder(Append(f, Head(b)), Tail(b), v)
<1> DEFINE c == Tail(b)
           g == Append(f, b[1])
<1>0. /\ f \in Seq(Nat) /\ b \in Seq(Nat) /\ Len(f) \in Nat /\ Len(b) \in Nat
      /\ \A i \in 1..Len(f) : f[i] \in Nat /\ f[i] <= v
      /\ \A i \in 1..Len(b) : b[i] \in Nat /\ b[i] <= v
      /\ \A i \in 1..Len(f), j \in 1..Len(b) : f[i] < b[j]
  BY DEF InOrder
<1>1. /\ c \in Seq(Nat) /\ Ascending(c) /\ Len(c) = Len(b) - 1
      /\ Head(b) = b[1] /\ 1 \in 1..Len(b)
      /\ \A i \in 1..Len(b) - 1 : i + 1 \in 1..Len(b) /\ c[i] = b[i+1] /\ b[1] < b[i+1]
  BY <1>0, TailAscending DEF InOrder
<1> HIDE DEF c
<1>2. /\ \A j \in 1..Len(c) : c[j] <= v /\ b[1] < c[j]
      /\ \A i \in 1..Len(f), j \in 1..Len(c) : f[i] < c[j]
  BY <1>0, <1>1
<1>3. InOrder(f, c, v)
  BY <1>0, <1>1, <1>2 DEF InOrder
<1>4. b[1] \in Nat /\ b[1] <= v /\ \A i \in 1..Len(f) : f[i] < b[1]
  BY <1>0, <1>1
<1>5. /\ g \in Seq(Nat) /\ Ascending(g) /\ Len(g) = Len(f) + 1
      /\ \A i \in 1..Len(f) + 1 : g[i] = IF i <= Len(f) THEN f[i] ELSE b[1]
  BY <1>0, <1>4, AppendAscending DEF InOrder
<1> HIDE DEF g
<1>6. ASSUME NEW i \in 1..Len(g) PROVE g[i] <= v /\ \A j \in 1..Len(c) : g[i] < c[j]
  <2>1. CASE i <= Len(f)
    <3>1. i \in 1..Len(f) /\ g[i] = f[i]
      BY <1>0, <1>5, <2>1
    <3> QED BY <1>0, <1>2, <3>1
  <2>2. CASE ~(i <= Len(f))
    <3>1. g[i] = b[1]
      BY <1>0, <1>5, <2>2
    <3> QED BY <1>2, <1>4, <3>1
  <2> QED BY <2>1, <2>2
<1>7. InOrder(g, c, v)
  BY <1>1, <1>2, <1>5, <1>6 DEF InOrder
<1> QED BY <1>1, <1>3, <1>7 DEF c, g

(* The step of the view.                                                   *)
LEMMA FramesTaken == FramesInv /\ TakeFrame => FramesInv'
<1> SUFFICES ASSUME FramesInv, TakeFrame PROVE FramesInv'
  OBVIOUS
<1>1. frames # <<>> /\ frames' = Tail(frames) /\ inbox' = inbox /\ screen' = screen
  BY DEF TakeFrame
<1>2. InOrder(frames', inbox, screen) /\ Len(frames') = Len(frames) - 1 /\ Len(frames) \in Nat
  <2>1. Len(frames) \in Nat
    BY DEF FramesInv, InOrder
  <2>2. InOrder(frames', inbox, screen) /\ Len(frames') = Len(frames) - 1
    BY <1>1, OrderAfterTake DEF FramesInv
  <2> QED BY <2>1, <2>2
<1> QED BY <1>1, <1>2, VncAssumption DEF FramesInv

(* The steps of the backend.                                               *)
LEMMA FramesStep == FramesInv /\ VncNext => FramesInv'
<1> SUFFICES ASSUME FramesInv, VncNext PROVE FramesInv'
  OBVIOUS
<1>0. /\ screen \in Nat /\ FrameSlots \in Nat /\ MaxScreens \in Nat /\ Len(frames) \in Nat
      /\ frames \in Seq(Nat) /\ inbox \in Seq(Nat)
  BY VncAssumption DEF FramesInv, InOrder
<1>1. CASE UNCHANGED <<frames, inbox, screen>>
  BY <1>1 DEF FramesInv
<1>2. CASE ServerUpdates
  <2>1. /\ screen' = screen + 1 /\ inbox' = Append(inbox, screen + 1) /\ frames' = frames
        /\ screen < MaxScreens
    BY <1>2 DEF ServerUpdates
  <2>2. InOrder(frames', inbox', screen')
    BY <1>0, <2>1, OrderAfterAppend DEF FramesInv
  <2> QED BY <1>0, <2>1, <2>2 DEF FramesInv
<1>3. CASE ApplyUpdate
  <2>1. /\ inbox # <<>> /\ inbox' = Tail(inbox) /\ screen' = screen
        /\ frames' = IF Len(frames) < FrameSlots THEN Append(frames, Head(inbox)) ELSE frames
    BY <1>3 DEF ApplyUpdate, PublishFrame
  <2>2. InOrder(frames', inbox', screen')
    BY <1>0, <2>1, OrderAfterApply DEF FramesInv
  <2>3. Len(frames) < FrameSlots => Len(Append(frames, Head(inbox))) = Len(frames) + 1
    BY <1>0, <2>1
  <2>4. Len(frames') <= FrameSlots
    BY <1>0, <2>1, <2>3 DEF FramesInv
  <2> QED BY <2>1, <2>2, <2>4 DEF FramesInv
<1>4. ASSUME NEW t \in Threads, CloseClient(t) \/ DisconnectFires(t) \/ SendInput(t)
      PROVE  UNCHANGED <<frames, inbox, screen>>
  BY <1>4 DEF CloseClient, DisconnectFires, SendInput, vncVars
<1>5. Dial \/ HandshakeFails \/ StartReadLoop \/ InitialRequest \/ ConnectFails
        => UNCHANGED <<frames, inbox, screen>>
  BY DEF Dial, HandshakeFails, StartReadLoop, InitialRequest, ConnectFails, vncVars
<1>6. ServerGoes \/ LibraryCloses \/ RequestNext \/ ReportError \/ ReportDead \/ QuitLoop
        \/ CloseFrames \/ Tick
        => UNCHANGED <<frames, inbox, screen>>
  BY DEF ServerGoes, LibraryCloses, RequestNext, ReportError, ReportDead, QuitLoop, CloseFrames,
         Tick, vncVars
<1>7. UNCHANGED vncVars => UNCHANGED <<frames, inbox, screen>>
  BY DEF vncVars
<1> QED BY <1>1, <1>2, <1>3, <1>4, <1>5, <1>6, <1>7 DEF VncNext, ReadLoop

(* What VncTypeOK says of the frames.                                      *)
LEMMA FramesInOrder ==
  ASSUME NEW f, NEW b, NEW v \in Nat, InOrder(f, b, v)
  PROVE  \A i, j \in DOMAIN (f \o b) : i < j => (f \o b)[i] < (f \o b)[j] /\ (f \o b)[j] <= v
<1> DEFINE coming == f \o b
           m == Len(f)
           n == Len(b)
<1>1. /\ m \in Nat /\ n \in Nat /\ f \in Seq(Nat) /\ b \in Seq(Nat)
      /\ \A i \in 1..m : f[i] \in Nat /\ f[i] <= v
      /\ \A i \in 1..n : b[i] \in Nat /\ b[i] <= v
      /\ \A i, j \in 1..m : i < j => f[i] < f[j]
      /\ \A i, j \in 1..n : i < j => b[i] < b[j]
      /\ \A i \in 1..m, j \in 1..n : f[i] < b[j]
  BY DEF InOrder, Ascending
<1>2. /\ DOMAIN coming = 1..m+n
      /\ \A i \in 1..m+n : coming[i] = IF i <= m THEN f[i] ELSE b[i-m]
  BY <1>1, ConcatProperties, LenProperties
<1> SUFFICES ASSUME NEW i \in 1..m+n, NEW j \in 1..m+n, i < j
             PROVE  coming[i] < coming[j] /\ coming[j] <= v
  BY <1>2
<1> HIDE DEF coming, m, n
<1>3. CASE j <= m
  <2>1. i \in 1..m /\ j \in 1..m /\ coming[i] = f[i] /\ coming[j] = f[j]
    BY <1>1, <1>2, <1>3
  <2> QED BY <1>1, <2>1
<1>4. CASE i <= m /\ ~(j <= m)
  <2>1. i \in 1..m /\ j - m \in 1..n /\ coming[i] = f[i] /\ coming[j] = b[j-m]
    BY <1>1, <1>2, <1>4
  <2> QED BY <1>1, <2>1
<1>5. CASE ~(i <= m)
  <2>1. i - m \in 1..n /\ j - m \in 1..n /\ i - m < j - m
    BY <1>1, <1>5
  <2>2. coming[i] = b[i-m] /\ coming[j] = b[j-m]
    BY <1>1, <1>2, <1>5
  <2> QED BY <1>1, <2>1, <2>2
<1> QED BY <1>1, <1>3, <1>4, <1>5

-----------------------------------------------------------------------------
(* A callback run is the only thing that moves closeRuns, and only once.   *)
LEMMA CloseRunsGrow ==
  ASSUME LifecycleTypeOK, OneCloser, OneCloser', [LifecycleNext]_lifecycleVars
  PROVE  /\ closeRuns' > closeRuns => closeRuns = 0 /\ closeRuns' = 1
         /\ closeRuns = 1 => closeRuns' = 1
<1>1. closeRuns \in {0, 1} /\ closeRuns' \in {0, 1}
  BY DEF OneCloser
<1>2. ASSUME NEW t \in Threads, RunOnClose(t) PROVE closeRuns' \in {closeRuns, closeRuns + 1}
  BY <1>1, <1>2 DEF RunOnClose, Called
<1>3. closeRuns' \in {closeRuns, closeRuns + 1}
  BY <1>1, <1>2 DEF LifecycleNext, lifecycleVars, OnError, OnClose, FireError, FireClose, RunOnError
<1> QED BY <1>1, <1>3

(* A Connect that has failed stays failed.                                 *)
LEMMA FailedForGood == [TabsNext]_tabsVars /\ connect = "failed" => connect' = "failed"
<1> SUFFICES ASSUME [TabsNext]_tabsVars, connect = "failed" PROVE connect' = "failed"
  OBVIOUS
<1>0. BackgroundNext => connect' = connect
  <2>1. ASSUME NEW cb, Register(cb) PROVE connect' = connect
    BY <2>1 DEF Register, backgroundVars
  <2>2. ASSUME NEW t, Disconnect(t) \/ CallOnClose(t) \/ CallOnError(t) \/ Return(t) \/ AwaitExit(t)
        PROVE  connect' = connect
    BY <2>2 DEF Disconnect, CallOnClose, CallOnError, Return, AwaitExit, backgroundVars
  <2> QED BY <2>1, <2>2 DEF BackgroundNext
<1>1. ASSUME ProcessNext PROVE connect' = connect
  <2>1. ASSUME NEW t, KillOnce(t) PROVE connect' = connect
    BY <2>1 DEF KillOnce
  <2>2. ASSUME StartClient \/ AdoptFails \/ Publish \/ StartWatcher PROVE FALSE
    BY <2>2 DEF StartClient, AdoptFails, Publish, StartWatcher
  <2>3. ASSUME ClientExits \/ CloseWaitDone \/ ReportEnd PROVE connect' = connect
    BY <2>3 DEF ClientExits, CloseWaitDone, ReportEnd, FireCloseThen, backgroundVars
  <2> QED BY <1>0, <1>1, <2>1, <2>2, <2>3 DEF ProcessNext, WatcherStep
<1>2. ASSUME VncNext PROVE connect' = connect
  <2>1. ASSUME NEW t, CloseClient(t) \/ DisconnectFires(t) \/ SendInput(t) PROVE connect' = connect
    BY <2>1 DEF CloseClient, DisconnectFires, SendInput, FireCloseThen, backgroundVars
  <2>2. ASSUME Dial \/ HandshakeFails \/ StartReadLoop \/ InitialRequest \/ ConnectFails PROVE FALSE
    BY <2>2 DEF Dial, HandshakeFails, StartReadLoop, InitialRequest, ConnectFails
  <2>3. ASSUME ServerUpdates \/ ServerGoes \/ LibraryCloses PROVE connect' = connect
    BY <2>3 DEF ServerUpdates, ServerGoes, LibraryCloses, backgroundVars
  <2>4. ASSUME ReadLoop \/ Tick PROVE connect' = connect
    BY <2>4 DEF ReadLoop, ApplyUpdate, RequestNext, ReportError, ReportDead, QuitLoop, CloseFrames,
                Tick, FireCloseThen
  <2> QED BY <1>0, <1>2, <2>1, <2>2, <2>3, <2>4 DEF VncNext
<1>3. ASSUME WinrmNext PROVE connect' = connect
  <2>1. ASSUME NEW t, EnterOnce(t) \/ StopCommand(t) \/ SkipStop(t) \/ WriteInput(t)
        PROVE  connect' = connect
    BY <2>1 DEF EnterOnce, StopCommand, SkipStop, WriteInput, backgroundVars
  <2>2. ASSUME CreateShell \/ StartCommand \/ PublishShell \/ WatchCommand PROVE FALSE
    BY <2>2 DEF CreateShell, StartCommand, PublishShell, WatchCommand
  <2>3. ASSUME NEW s, CommandWrites(s) \/ Copy(s) \/ CopierReturns(s) PROVE connect' = connect
    BY <2>3 DEF CommandWrites, Copy, CopierReturns, backgroundVars
  <2>4. ASSUME CommandEnds \/ CloseBuffer \/ Release \/ ReportExit PROVE connect' = connect
    BY <2>4 DEF CommandEnds, CloseBuffer, Release, ReportExit, FireCloseThen, backgroundVars
  <2> QED BY <1>0, <1>3, <2>1, <2>2, <2>3, <2>4 DEF WinrmNext, WinrmWatcher, Copiers
<1>4. ASSUME WebNext PROVE connect' = connect
  <2>1. ASSUME NEW t, AskToTerminate(t) PROVE connect' = connect
    BY <2>1 DEF AskToTerminate
  <2>2. ASSUME Launch \/ ConnectReturns PROVE FALSE
    BY <2>2 DEF Launch, ConnectReturns
  <2>3. ASSUME Expire \/ LoopEnds \/ WebThread PROVE connect' = connect
    BY <2>3 DEF Expire, LoopEnds, WebThread, PublishWindow, SignalReady, DestroyWindow,
                ReportClosed, FireCloseThen, backgroundVars
  <2> QED BY <1>0, <1>4, <2>1, <2>2, <2>3 DEF WebNext
<1>5. Open => connect' = connect
  BY DEF Open, Register, backgroundVars
<1>6. AnyBackend \/ PostResult \/ UILoop \/ ViewReads \/ ViewReturns \/ UNCHANGED tabsVars
        => connect' = connect
  BY DEF AnyBackend, PostResult, UILoop, ViewReads, ViewReturns, Vnc, Winrm, TakeFrame, ReadOutput,
         tabsVars, backgroundVars
<1> QED BY <1>1, <1>2, <1>3, <1>4, <1>5, <1>6 DEF TabsNext, Process, Vnc, Winrm, Web

(* The queue gains an entry only by a first run of CloseTab or by the      *)
(* first result of Connect.                                                *)
LEMMA TabInvStep ==
  ASSUME LifecycleTypeOK, OneCloser, OneCloser', TabInv, [TabsNext]_tabsVars
  PROVE  TabInv'
<1>1. [LifecycleNext]_lifecycleVars
  BY TabsUseLifecycle
<1>2. /\ closeRuns' > closeRuns => closeRuns = 0 /\ closeRuns' = 1
      /\ closeRuns = 1 => closeRuns' = 1
  BY <1>1, CloseRunsGrow
<1>3. connect = "failed" => connect' = "failed"
  BY FailedForGood
<1>0. queue \in Seq({"wire", "error", "remove"}) /\ Len(queue) \in Nat
  BY DEF TabInv
<1>4. ASSUME UNCHANGED <<tab, reported, queue, content, view, kind>> PROVE TabInv'
  BY <1>2, <1>3, <1>4 DEF TabInv
<1>5. ASSUME NEW e \in {"wire", "error", "remove"}, queue' = Append(queue, e),
             UNCHANGED <<tab, content, view, kind>>,
             \/ e = "remove" /\ closeRuns = 0 /\ closeRuns' = 1 /\ reported' = reported
             \/ e \in {"wire", "error"} /\ ~reported /\ reported' = TRUE /\ closeRuns' = closeRuns
                /\ (e = "error" => connect = "failed")
      PROVE  TabInv'
  <2>1. /\ queue' \in Seq({"wire", "error", "remove"}) /\ Len(queue') = Len(queue) + 1
        /\ \A i \in 1..Len(queue) + 1 : queue'[i] = IF i <= Len(queue) THEN queue[i] ELSE e
    BY <1>0, <1>5, AppendProperties
  <2>2. ASSUME NEW i \in 1..Len(queue')
        PROVE  \/ i \in 1..Len(queue) /\ queue'[i] = queue[i] /\ queue[i] # e
               \/ i = Len(queue) + 1 /\ queue'[i] = e
    <3>1. CASE i <= Len(queue)
      <4>1. i \in 1..Len(queue) /\ queue'[i] = queue[i]
        BY <1>0, <2>1, <3>1
      <4>2. queue[i] # e
        BY <1>5, <4>1 DEF TabInv
      <4> QED BY <3>1, <4>1, <4>2
    <3>2. CASE ~(i <= Len(queue))
      BY <1>0, <2>1, <3>2
    <3> QED BY <3>1, <3>2
  <2>3. \A i, j \in 1..Len(queue') : queue'[i] = queue'[j] => i = j
    BY <2>2 DEF TabInv
  <2>4. ASSUME NEW i \in 1..Len(queue')
        PROVE  /\ queue'[i] = "remove" => closeRuns' = 1
               /\ queue'[i] # "remove" => reported'
               /\ queue'[i] = "error" => connect' = "failed"
    <3>1. CASE queue'[i] = e
      BY <1>3, <1>5, <3>1, <1>2, <2>2 DEF TabInv
    <3>2. CASE queue'[i] # e
      BY <1>2, <1>3, <1>5, <2>2, <3>2 DEF TabInv
    <3> QED BY <3>1, <3>2
  <2> QED BY <1>3, <1>5, <2>1, <2>3, <2>4 DEF TabInv
<1>6. ASSUME Notifies PROVE TabInv'
  <2>1. CASE queue' = queue
    BY <1>4, <1>6, <2>1 DEF Notifies
  <2>2. CASE queue' = Append(queue, "remove") /\ closeRuns' > closeRuns
    BY <1>2, <1>5, <1>6, <2>2 DEF Notifies
  <2> QED BY <1>6, <2>1, <2>2 DEF Notifies
<1>7. CASE Open
  BY <1>2, <1>3, <1>7 DEF Open, Register, OnClose, TabInv
<1>8. CASE PostResult
  <2>1. closeRuns' = closeRuns /\ ~reported /\ reported' = TRUE /\ UNCHANGED <<tab, content, view, kind>>
    BY <1>8 DEF PostResult, lifecycleVars
  <2>2. CASE connect = "connected"
    BY <1>5, <1>8, <2>1, <2>2 DEF PostResult
  <2>3. CASE connect = "failed"
    BY <1>5, <1>8, <2>1, <2>3 DEF PostResult
  <2> QED BY <1>8, <2>2, <2>3 DEF PostResult
<1>9. CASE UILoop
  <2>1. queue # <<>> /\ queue' = Tail(queue) /\ UNCHANGED <<closeRuns, reported, kind>>
    BY <1>9 DEF UILoop, lifecycleVars
  <2>2. /\ queue' \in Seq({"wire", "error", "remove"}) /\ Len(queue') = Len(queue) - 1
        /\ Head(queue) = queue[1] /\ 1 \in 1..Len(queue)
        /\ \A i \in 1..Len(queue) - 1 : i + 1 \in 1..Len(queue) /\ queue'[i] = queue[i+1]
    BY <1>0, <2>1, HeadTailProperties, EmptySeq
  <2>3. /\ tab' \in {"none", "shown", "removed"} /\ view' \in {"none", "reading", "embedded", "ended"}
        /\ content' = "error" => connect = "failed"
    BY <1>9, <2>2 DEF UILoop, Wired, TabInv
  <2>4. \A i, j \in 1..Len(queue') : queue'[i] = queue'[j] => i = j
    <3> SUFFICES ASSUME NEW i \in 1..Len(queue) - 1, NEW j \in 1..Len(queue) - 1, queue'[i] = queue'[j]
                 PROVE  i = j
      BY <2>2
    <3>1. i + 1 = j + 1
      BY <2>2 DEF TabInv
    <3> QED BY <1>0, <3>1
  <2>5. \A i \in 1..Len(queue') :
            /\ queue'[i] = "remove" => closeRuns' = 1
            /\ queue'[i] # "remove" => reported'
            /\ queue'[i] = "error" => connect' = "failed"
    BY <1>3, <2>1, <2>2 DEF TabInv
  <2> QED BY <1>3, <2>1, <2>2, <2>3, <2>4, <2>5 DEF TabInv
<1>10. CASE ViewReturns
  BY <1>2, <1>3, <1>10 DEF ViewReturns, TabInv
<1>11. CASE AnyBackend \/ UNCHANGED tabsVars
  BY <1>4, <1>11 DEF AnyBackend, tabsVars, tabVars
<1>12. CASE Process(ProcessNext) \/ Vnc(VncNext) \/ Winrm(WinrmNext) \/ Web(WebNext) \/ ViewReads
  BY <1>6, <1>12 DEF Process, Vnc, Winrm, Web, ViewReads
<1> QED BY <1>7, <1>8, <1>9, <1>10, <1>11, <1>12 DEF TabsNext

-----------------------------------------------------------------------------
(* Every kind of session starts in its invariant.                          *)
LEMMA BackendInvInit == TabsInit => BackendInv
<1> SUFFICES ASSUME TabsInit PROVE BackendInv
  OBVIOUS
<1>0. Watcher \in Threads
  BY WatcherIsAThread
<1>1. /\ connect = "idle" /\ once = "free" /\ waitDone = "nil"
      /\ pc = [t \in Threads |-> "ready"] /\ firing = [t \in Threads |-> Idle]
  BY DEF TabsInit, ProcessInit, BackgroundInit, LifecycleInit
<1>2. ProcessInv
  BY <1>0, <1>1 DEF TabsInit, ProcessInit, ProcessInv
<1>3. VncInv
  BY <1>0, <1>1 DEF TabsInit, VncInit, VncInv, Idle
<1>4. FramesInv
  <2>1. screen = 0 /\ frames = <<>> /\ inbox = <<>>
    BY DEF TabsInit, VncInit
  <2> QED BY <2>1, VncAssumption DEF FramesInv, InOrder, Ascending
<1>5. WinrmInv
  <2>1. /\ shell = FALSE /\ command = "none" /\ stuck = {} /\ copying = {}
        /\ pending = [s \in Streams |-> 0]
        /\ produced = 0 /\ buffered = 0 /\ bufferClosed = FALSE /\ taken = 0
    BY DEF TabsInit, WinrmInit
  <2>2. pending \in [Streams -> Nat] /\ \A s \in Streams \ copying : pending[s] = 0
    BY <2>1
  <2>3. produced \in 0..MaxChunks /\ buffered \in Nat /\ taken \in Nat
    BY <2>1, WinrmAssumption
  <2> QED BY <1>0, <1>1, <2>1, <2>2, <2>3 DEF WinrmInv
<1>6. WebInv
  BY <1>0, <1>1 DEF TabsInit, WebInit, WebInv
<1>7. TabInv
  <2>1. /\ queue = <<>> /\ reported = FALSE /\ tab = "none" /\ content = "view"
        /\ view = "none" /\ kind \in Kinds
    BY DEF TabsInit
  <2>2. queue \in Seq({"wire", "error", "remove"}) /\ Len(queue) = 0
    BY <2>1
  <2>3. \A i \in 1..Len(queue) : FALSE
    BY <2>2
  <2>4. reported \in BOOLEAN /\ content # "error"
    BY <2>1
  <2> QED BY <2>1, <2>2, <2>3, <2>4, Zenon DEF TabInv
<1>8. view # "ended"
  BY DEF TabsInit
<1> QED BY <1>2, <1>3, <1>4, <1>5, <1>6, <1>7, <1>8 DEF BackendInv

(* A step that leaves a backend's variables alone keeps its invariant.     *)
LEMMA BackendsUnmoved ==
  ASSUME BackendInv, UNCHANGED <<firing, backgroundVars, kind>>
  PROVE  /\ UNCHANGED clientVars /\ kind = "process" => ProcessInv'
         /\ UNCHANGED vncVars /\ kind = "vnc" => VncInv' /\ FramesInv'
         /\ UNCHANGED winrmVars /\ kind = "winrm" => WinrmInv'
         /\ UNCHANGED webVars /\ kind = "web" => WebInv'
<1>1. ASSUME UNCHANGED clientVars, kind = "process" PROVE ProcessInv'
  BY <1>1 DEF BackendInv, ProcessInv, clientVars, backgroundVars
<1>2. ASSUME UNCHANGED vncVars, kind = "vnc" PROVE VncInv' /\ FramesInv'
  BY <1>2 DEF BackendInv, VncInv, FramesInv, vncVars, backgroundVars
<1>3. ASSUME UNCHANGED winrmVars, kind = "winrm" PROVE WinrmInv'
  BY <1>3 DEF BackendInv, WinrmInv, winrmVars, backgroundVars
<1>4. ASSUME UNCHANGED webVars, kind = "web" PROVE WebInv'
  BY <1>4 DEF BackendInv, WebInv, webVars, backgroundVars
<1> QED BY <1>1, <1>2, <1>3, <1>4

(* Once the buffer is closed and empty it stays so.                        *)
LEMMA EndStays ==
  ASSUME WinrmInv, bufferClosed, buffered = 0, WinrmNext \/ ReadOutput
  PROVE  bufferClosed' /\ buffered' = 0
<1>0. copying = {} /\ command = "ended" /\ bufferClosed = TRUE
  BY DEF WinrmInv
<1>1. ASSUME NEW s, Copy(s) PROVE FALSE
  BY <1>0, <1>1 DEF Copy
<1>2. ASSUME NEW s, CommandWrites(s) \/ CopierReturns(s) PROVE FALSE
  BY <1>0, <1>2 DEF CommandWrites, CopierReturns
<1>3. ASSUME NEW t, EnterOnce(t) \/ StopCommand(t) \/ SkipStop(t) \/ WriteInput(t)
      PROVE  UNCHANGED <<bufferClosed, buffered>>
  BY <1>3 DEF EnterOnce, StopCommand, SkipStop, WriteInput, winrmVars
<1>4. (\/ CreateShell \/ StartCommand \/ PublishShell \/ WatchCommand
       \/ CommandEnds \/ Release \/ ReportExit \/ UNCHANGED winrmVars)
        => UNCHANGED <<bufferClosed, buffered>>
  BY DEF CreateShell, StartCommand, PublishShell, WatchCommand, CommandEnds, Release, ReportExit,
         winrmVars
<1>5. CloseBuffer => bufferClosed' = TRUE /\ buffered' = buffered
  BY DEF CloseBuffer
<1>6. ReadOutput => FALSE
  BY <1>0 DEF ReadOutput
<1> QED BY <1>0, <1>1, <1>2, <1>3, <1>4, <1>5, <1>6 DEF WinrmNext, WinrmWatcher, Copiers

(* The backend steps by its own lemma; the tab leaves the backends alone,  *)
(* but for the view, which takes frames and output.                        *)
LEMMA BackendInvStep ==
  ASSUME LifecycleTypeOK, OneCloser, OneCloser', BackendInv, [TabsNext]_tabsVars
  PROVE  BackendInv'
<1>0. TabInv'
  BY TabInvStep DEF BackendInv
<1>1. CASE Process(ProcessNext)
  BY <1>0, <1>1, ProcessInvStep DEF Process, Notifies, BackendInv
<1>2. CASE Vnc(VncNext)
  BY <1>0, <1>2, VncInvStep, FramesStep DEF Vnc, Notifies, BackendInv
<1>3. CASE Winrm(WinrmNext)
  <2>1. kind = "winrm" /\ kind' = kind /\ view' = view /\ WinrmNext
    BY <1>3 DEF Winrm, Notifies
  <2>2. WinrmInv' /\ (view' = "ended" => bufferClosed' /\ buffered' = 0)
    BY <2>1, WinrmInvStep, EndStays DEF BackendInv
  <2> QED BY <1>0, <2>1, <2>2 DEF BackendInv
<1>4. CASE Web(WebNext)
  BY <1>0, <1>4, WebInvStep DEF Web, Notifies, BackendInv
<1>5. CASE AnyBackend
  BY <1>0, <1>5 DEF AnyBackend, BackendInv
<1>6. ASSUME UNCHANGED <<firing, backgroundVars, clientVars, vncVars, winrmVars, webVars, kind>>,
             view' = "ended" => view = "ended" \/ (kind = "winrm" => AtEnd)
      PROVE  BackendInv'
  <2>1. kind' = "winrm" /\ view' = "ended" => bufferClosed' /\ buffered' = 0
    BY <1>6 DEF BackendInv, AtEnd, winrmVars
  <2> QED BY <1>0, <1>6, <2>1, BackendsUnmoved DEF BackendInv
<1>7. CASE Open
  BY <1>6, <1>7 DEF Open, Register, OnClose
<1>8. CASE PostResult \/ UNCHANGED tabsVars
  BY <1>6, <1>8 DEF PostResult, tabsVars, tabVars, lifecycleVars
<1>9. CASE UILoop
  BY <1>6, <1>9 DEF UILoop, Wired, lifecycleVars
<1>10. CASE ViewReturns
  BY <1>6, <1>10 DEF ViewReturns, lifecycleVars
<1>11. CASE ViewReads
  <2>1. view' = view /\ view = "reading" /\ kind' = kind
    BY <1>11 DEF ViewReads, Vnc, Winrm, Notifies
  <2>2. CASE Vnc(TakeFrame)
    <3>1. kind = "vnc" /\ TakeFrame /\ FramesInv'
      BY <2>2, FramesTaken DEF Vnc, BackendInv
    <3>2. VncInv'
      BY <3>1 DEF BackendInv, VncInv, TakeFrame, lifecycleVars, backgroundVars
    <3> QED BY <1>0, <2>1, <3>1, <3>2 DEF BackendInv
  <2>3. CASE Winrm(ReadOutput)
    <3>1. kind = "winrm" /\ ReadOutput
      BY <2>3 DEF Winrm
    <3>2. WinrmInv'
      BY <3>1 DEF BackendInv, WinrmInv, ReadOutput, backgroundVars
    <3> QED BY <1>0, <2>1, <3>1, <3>2 DEF BackendInv
  <2> QED BY <1>11, <2>2, <2>3 DEF ViewReads
<1> QED BY <1>1, <1>2, <1>3, <1>4, <1>5, <1>7, <1>8, <1>9, <1>10, <1>11 DEF TabsNext

(* What every theorem below about the tabs rests on.                       *)
LEMMA BackendInvariant == TabsSpec => [](LifecycleTypeOK /\ OneCloser /\ BackendInv)
<1>1. LifecycleTypeOK /\ OneCloser /\ OneCloser' /\ BackendInv /\ [TabsNext]_tabsVars => BackendInv'
  BY BackendInvStep
<1> QED BY <1>1, BackendInvInit, TabsLifecycleTypes, TabsOneCloser, PTL DEF TabsSpec

(* The types of every backend and of its tab (TabsTypeOK): whatever the    *)
(* kind of the session, its channels, flags and goroutines stay in their   *)
(* types, what waits in the channels of a VNC session is in order, and the *)
(* UI goroutine is never asked for the same thing twice.                   *)
THEOREM TabsTypeCorrect == TabsSpec => []TabsTypeOK
<1>1. LifecycleTypeOK /\ BackendInv => TabsTypeOK
  <2> SUFFICES ASSUME LifecycleTypeOK, BackendInv PROVE TabsTypeOK
    OBVIOUS
  <2>1. ASSUME kind = "process" PROVE ProcessTypeOK
    <3>1. ProcessInv
      BY <2>1 DEF BackendInv
    <3>2. cmd = (connect \in {"watching", "connected"})
      <4>1. cmd \in BOOLEAN /\ (cmd <=> connect \in {"watching", "connected"})
        BY <3>1 DEF ProcessInv
      <4>2. CASE cmd = TRUE
        <5>1. (connect \in {"watching", "connected"}) = TRUE
          BY <4>1, <4>2
        <5> QED BY <4>2, <5>1, Zenon
      <4>3. CASE cmd = FALSE
        <5>1. (connect \in {"watching", "connected"}) = FALSE
          BY <4>1, <4>3
        <5> QED BY <4>3, <5>1, Zenon
      <4> QED BY <4>1, <4>2, <4>3
    <3>3. BackgroundTypeOK
      BY <3>1 DEF ProcessInv, BackgroundTypeOK
    <3> QED BY <3>1, <3>2, <3>3, Zenon DEF ProcessInv, ProcessTypeOK
  <2>2. ASSUME kind = "vnc" PROVE VncTypeOK
    <3>1. VncInv /\ FramesInv
      BY <2>2 DEF BackendInv
    <3>2. quit = (once # "free")
      <4>1. quit \in BOOLEAN /\ (quit <=> once # "free")
        BY <3>1 DEF VncInv
      <4> QED BY <4>1, Zenon
    <3>3. \A i, j \in DOMAIN (frames \o inbox) : i < j =>
             (frames \o inbox)[i] < (frames \o inbox)[j] /\ (frames \o inbox)[j] <= screen
      <4>1. screen \in Nat /\ InOrder(frames, inbox, screen)
        BY <3>1, VncAssumption DEF FramesInv
      <4> QED BY <4>1, FramesInOrder, Zenon
    <3>4. screen \in 0..MaxScreens /\ Len(frames) <= FrameSlots
      BY <3>1 DEF FramesInv
    <3>5. BackgroundTypeOK
      BY <3>1 DEF VncInv, BackgroundTypeOK
    <3> QED BY <3>1, <3>2, <3>3, <3>4, <3>5, Zenon DEF VncInv, VncTypeOK
  <2>3. ASSUME kind = "winrm" PROVE WinrmTypeOK
    BY <2>3 DEF BackendInv, WinrmInv, WinrmTypeOK, BackgroundTypeOK
  <2>4. ASSUME kind = "web" PROVE WebTypeOK
    BY <2>4 DEF BackendInv, WebInv, WebTypeOK, BackgroundTypeOK
  <2>5. \A i, j \in DOMAIN queue : queue[i] = queue[j] => i = j
    BY DEF BackendInv, TabInv
  <2>6. /\ tab \in {"none", "shown", "removed"}
        /\ view \in {"none", "reading", "embedded", "ended"}
        /\ content = "error" => connect = "failed"
    BY DEF BackendInv, TabInv
  <2> QED BY <2>1, <2>2, <2>3, <2>4, <2>5, <2>6 DEF TabsTypeOK
<1> QED BY <1>1, BackendInvariant, PTL

-----------------------------------------------------------------------------
(* All the output of the command has been taken, is buffered or waits in   *)
(* a stream: the streams are numbered 1..n by e, and before[i] is what     *)
(* waits in the first i of them.                                           *)
Numbers(e, n) == n \in Nat /\ e \in Bijection(1..n, Streams)


(* The sums of the first values of f, stream by stream.                    *)
SumsOf(before, f, e, n) ==
  /\ before \in [0..n -> Int] /\ before[0] = 0
  /\ \A i \in 1..n : before[i] = before[i - 1] + f[e[i]]

(* Nothing is lost on the way from the command to the reader.              *)
OutputAccounted(e, n) ==
  \E before : SumsOf(before, pending, e, n) /\ produced = taken + buffered + before[n]

(* Each stream has one number.                                             *)
LEMMA NumberFacts ==
  ASSUME NEW e, NEW n, Numbers(e, n)
  PROVE  /\ n \in Nat
         /\ \A i \in 1..n : e[i] \in Streams
         /\ \A s \in Streams : \E k \in 1..n : e[k] = s
         /\ \A i, j \in 1..n : e[i] = e[j] => i = j
BY DEF Numbers, Bijection, Injection, Surjection, IsInjective

(* When one stream's value changes by d, so does the sum of all.           *)
LEMMA SumsAfter ==
  ASSUME NEW e, NEW n, Numbers(e, n), NEW f \in [Streams -> Nat],
         NEW s \in Streams, NEW d \in Int, NEW g, g = [f EXCEPT ![s] = @ + d],
         NEW before, SumsOf(before, f, e, n)
  PROVE  \E after : SumsOf(after, g, e, n) /\ after[n] = before[n] + d
<1>1. PICK k \in 1..n : e[k] = s
  BY NumberFacts
<1>2. before \in [0..n -> Int] /\ before[0] = 0
  BY DEF SumsOf
<1> DEFINE after == [i \in 0..n |-> IF i < k THEN before[i] ELSE before[i] + d]
<1>3. n \in Nat /\ k \in 1..n /\ after \in [0..n -> Int] /\ after[0] = 0
  <2>1. n \in Nat
    BY NumberFacts
  <2>2. \A i \in 0..n : before[i] \in Int
    BY <1>2
  <2>3. 0 \in 0..n /\ 0 < k
    BY <2>1, <1>1
  <2> QED BY <1>2, <2>1, <2>2, <2>3
<1>4. ASSUME NEW i \in 1..n PROVE after[i] = after[i - 1] + g[e[i]]
  <2>1. i \in 0..n /\ i - 1 \in 0..n /\ e[i] \in Streams /\ before[i] \in Int /\ before[i - 1] \in Int
    BY <1>2, <1>3, NumberFacts
  <2>2. before[i] = before[i - 1] + f[e[i]] /\ f[e[i]] \in Int
    <3>1. before[i] = before[i - 1] + f[e[i]]
      BY DEF SumsOf
    <3>2. f[e[i]] \in Nat
      BY <2>1
    <3> QED BY <3>1, <3>2
  <2>3. CASE i = k
    <3>1. g[e[i]] = f[e[i]] + d
      BY <1>1, <2>1, <2>3
    <3>2. after[i] = before[i] + d /\ after[i - 1] = before[i - 1]
      BY <2>1, <2>3
    <3> HIDE DEF after
    <3> QED BY <2>1, <2>2, <3>1, <3>2
  <2>4. CASE i # k
    <3>1. g[e[i]] = f[e[i]]
      <4>1. e[i] # s
        BY <1>1, <2>4, NumberFacts
      <4> QED BY <2>1, <4>1
    <3>2. CASE i < k
      <4>1. after[i] = before[i] /\ after[i - 1] = before[i - 1]
        BY <1>3, <2>1, <3>2
      <4> HIDE DEF after
      <4> QED BY <2>2, <3>1, <4>1
    <3>3. CASE k < i
      <4>1. after[i] = before[i] + d /\ after[i - 1] = before[i - 1] + d
        <5>1. ~(i < k) /\ ~(i - 1 < k)
          BY <1>3, <2>1, <3>3
        <5> QED BY <2>1, <5>1
      <4> HIDE DEF after
      <4> QED BY <2>1, <2>2, <3>1, <4>1
    <3> QED BY <1>3, <2>4, <3>2, <3>3
  <2> QED BY <2>3, <2>4
<1>5. after[n] = before[n] + d
  BY <1>2, <1>3
<1> HIDE DEF after
<1>6. SumsOf(after, g, e, n)
  BY <1>3, <1>4 DEF SumsOf
<1> QED BY <1>5, <1>6

(* One stream's waiting output, and what has been taken or buffered, change *)
(* by the same amount: the output stays accounted for.                      *)
LEMMA AccountedAfter ==
  ASSUME NEW e, NEW n, Numbers(e, n), OutputAccounted(e, n),
         NEW s \in Streams, NEW d \in Int, NEW moved \in Int,
         pending \in [Streams -> Nat], pending' = [pending EXCEPT ![s] = @ + d],
         produced' = produced + d + moved, taken' = taken, buffered' = buffered + moved,
         produced \in Int, taken \in Int, buffered \in Int
  PROVE  OutputAccounted(e, n)'
<1>1. PICK before : /\ SumsOf(before, pending, e, n)
                    /\ produced = taken + buffered + before[n]
  BY DEF OutputAccounted
<1>2. PICK after : SumsOf(after, pending', e, n) /\ after[n] = before[n] + d
  <2>1. ASSUME NEW g, g = pending'
        PROVE  \E after : SumsOf(after, g, e, n) /\ after[n] = before[n] + d
    <3>1. g = [pending EXCEPT ![s] = @ + d]
      BY <2>1
    <3>2. ASSUME NEW f, f = pending
          PROVE  f \in [Streams -> Nat] /\ g = [f EXCEPT ![s] = @ + d] /\ SumsOf(before, f, e, n)
      BY <1>1, <3>1, <3>2
    <3>3. ASSUME NEW f, f = pending
          PROVE  \E after : SumsOf(after, g, e, n) /\ after[n] = before[n] + d
      BY <3>2, <3>3, SumsAfter
    <3> QED BY <3>3, Zenon
  <2> QED BY <2>1, Zenon
<1>3. PICK b : b = before[n]
  OBVIOUS
<1>4. b \in Int
  <2>1. n \in 0..n /\ before \in [0..n -> Int]
    BY <1>1, NumberFacts DEF SumsOf
  <2> QED BY <1>3, <2>1
<1>5. ASSUME NEW p \in Int, NEW t \in Int, NEW m \in Int, p = t + m + b
      PROVE  p + d + moved = t + (m + moved) + (b + d)
  BY <1>4, <1>5
<1>6. produced' = taken' + buffered' + after[n]
  <2>1. produced + d + moved = taken + (buffered + moved) + (b + d)
    BY <1>1, <1>3, <1>5, Zenon
  <2> QED BY <1>2, <1>3, <2>1, Zenon
<1> QED BY <1>2, <1>6 DEF OutputAccounted

(* ... and so it does when what is buffered is taken.                      *)
LEMMA AccountedElse ==
  ASSUME NEW e, NEW n, Numbers(e, n), OutputAccounted(e, n), pending' = pending,
         produced' = produced, taken' + buffered' = taken + buffered
  PROVE  OutputAccounted(e, n)'
BY DEF OutputAccounted

(* At first there is no output, and nothing waits.                         *)
LEMMA AccountedInit ==
  ASSUME NEW e, NEW n, Numbers(e, n), TabsInit
  PROVE  OutputAccounted(e, n)
<1> DEFINE none == [i \in 0..n |-> 0]
<1>1. /\ pending = [s \in Streams |-> 0] /\ produced = 0 /\ buffered = 0 /\ taken = 0
      /\ n \in Nat /\ \A i \in 1..n : e[i] \in Streams
  BY NumberFacts DEF TabsInit, WinrmInit
<1>2. none \in [0..n -> Int] /\ none[0] = 0 /\ none[n] = 0
  BY <1>1
<1>3. \A i \in 1..n : none[i] = none[i - 1] + pending[e[i]]
  <2> TAKE i \in 1..n
  <2>1. none[i] = 0 /\ none[i - 1] = 0 /\ pending[e[i]] = 0
    BY <1>1
  <2> QED BY <2>1
<1> HIDE DEF none
<1>4. SumsOf(none, pending, e, n)
  BY <1>2, <1>3 DEF SumsOf
<1> QED BY <1>1, <1>2, <1>4 DEF OutputAccounted

(* The command, a copier and the reader move output; nobody else does.     *)
LEMMA AccountedStep ==
  ASSUME NEW e, NEW n, Numbers(e, n), BackendInv, OutputAccounted(e, n), [TabsNext]_tabsVars
  PROVE  OutputAccounted(e, n)'
<1>1. ASSUME UNCHANGED <<pending, produced, buffered, taken>> PROVE OutputAccounted(e, n)'
  BY <1>1, AccountedElse
<1>2. ASSUME kind = "winrm"
      PROVE  /\ pending \in [Streams -> Nat] /\ produced \in Int
             /\ buffered \in Nat /\ taken \in Nat
  BY <1>2, WinrmAssumption DEF BackendInv, WinrmInv
<1>3. ASSUME kind = "winrm", NEW s \in Streams, CommandWrites(s) PROVE OutputAccounted(e, n)'
  <2>1. /\ pending' = [pending EXCEPT ![s] = @ + 1] /\ produced' = produced + 1
        /\ buffered' = buffered /\ taken' = taken
    BY <1>3 DEF CommandWrites
  <2>2. produced' = produced + 1 + 0 /\ buffered' = buffered + 0 /\ buffered \in Int /\ taken \in Int
    BY <1>2, <1>3, <2>1
  <2> QED BY <1>2, <1>3, <2>1, <2>2, AccountedAfter, 1 \in Int, 0 \in Int
<1>4. ASSUME kind = "winrm", NEW s \in Streams, Copy(s) PROVE OutputAccounted(e, n)'
  <2>1. /\ pending' = [pending EXCEPT ![s] = @ + (-1)] /\ produced' = produced
        /\ buffered' = buffered + 1 /\ taken' = taken
    BY <1>2, <1>4 DEF Copy
  <2>2. produced' = produced + (-1) + 1 /\ buffered' = buffered + 1 /\ buffered \in Int /\ taken \in Int
    BY <1>2, <1>4, <2>1
  <2> QED BY <1>2, <1>4, <2>1, <2>2, AccountedAfter, (-1) \in Int, 1 \in Int
<1>5. ASSUME kind = "winrm", ReadOutput PROVE OutputAccounted(e, n)'
  <2>1. pending' = pending /\ produced' = produced /\ taken' + buffered' = taken + buffered
    BY <1>2, <1>5 DEF ReadOutput
  <2> QED BY <2>1, AccountedElse
<1>6. ASSUME kind = "winrm", WinrmNext PROVE OutputAccounted(e, n)'
  <2>1. ASSUME NEW t, EnterOnce(t) \/ StopCommand(t) \/ SkipStop(t) \/ WriteInput(t)
        PROVE  UNCHANGED <<pending, produced, buffered, taken>>
    BY <2>1 DEF EnterOnce, StopCommand, SkipStop, WriteInput, winrmVars
  <2>2. ASSUME NEW s, CopierReturns(s) PROVE UNCHANGED <<pending, produced, buffered, taken>>
    BY <2>2 DEF CopierReturns
  <2>3. (\/ CreateShell \/ StartCommand \/ PublishShell \/ WatchCommand \/ CommandEnds
         \/ CloseBuffer \/ Release \/ ReportExit \/ UNCHANGED winrmVars)
          => UNCHANGED <<pending, produced, buffered, taken>>
    BY DEF CreateShell, StartCommand, PublishShell, WatchCommand, CommandEnds, CloseBuffer,
           Release, ReportExit, winrmVars
  <2>4. \/ UNCHANGED <<pending, produced, buffered, taken>>
        \/ \E s \in Streams : CommandWrites(s) \/ Copy(s)
    <3>1. CASE \E t \in Threads : EnterOnce(t) \/ StopCommand(t) \/ SkipStop(t) \/ WriteInput(t)
      BY <2>1, <3>1, Zenon
    <3>2. CASE \E s \in Streams : CommandWrites(s) \/ Copy(s) \/ CopierReturns(s)
      BY <2>2, <3>2, Zenon
    <3>3. CASE \/ CreateShell \/ StartCommand \/ PublishShell \/ WatchCommand \/ CommandEnds
               \/ CloseBuffer \/ Release \/ ReportExit \/ UNCHANGED winrmVars
      BY <2>3, <3>3, Zenon
    <3> QED BY <1>6, <3>1, <3>2, <3>3, Zenon DEF WinrmNext, WinrmWatcher, Copiers
  <2> QED BY <1>1, <1>3, <1>4, <1>6, <2>4
<1>7. CASE Winrm(WinrmNext)
  BY <1>6, <1>7 DEF Winrm
<1>8. CASE Process(ProcessNext) \/ Vnc(VncNext) \/ Web(WebNext)
  BY <1>1, <1>8 DEF Process, Vnc, Web, winrmVars
<1>9. CASE AnyBackend \/ Open \/ PostResult \/ UILoop \/ ViewReturns \/ UNCHANGED tabsVars
  BY <1>1, <1>9 DEF AnyBackend, Open, PostResult, UILoop, ViewReturns, tabsVars, winrmVars
<1>10. CASE ViewReads
  BY <1>1, <1>5, <1>10 DEF ViewReads, Vnc, Winrm, winrmVars
<1> QED BY <1>7, <1>8, <1>9, <1>10 DEF TabsNext

(* With the streams numbered in any way, the output is always accounted    *)
(* for.                                                                    *)
LEMMA AccountedAlways ==
  ASSUME NEW CONSTANT e, NEW CONSTANT n, Numbers(e, n)
  PROVE  TabsSpec => []OutputAccounted(e, n)
<1>1. TabsInit => OutputAccounted(e, n)
  BY AccountedInit
<1>2. BackendInv /\ OutputAccounted(e, n) /\ [TabsNext]_tabsVars => OutputAccounted(e, n)'
  BY AccountedStep
<1> QED BY <1>1, <1>2, BackendInvariant, PTL DEF TabsSpec

(* Nothing waits in any stream: nothing waits in the first i of them.      *)
LEMMA NothingWaits ==
  ASSUME NEW e, NEW n, Numbers(e, n), NEW before, SumsOf(before, pending, e, n),
         \A s \in Streams : pending[s] = 0
  PROVE  before[n] = 0
<1> DEFINE wrong == {i \in 0..n : before[i] # 0}
<1>0. n \in Nat /\ \A i \in 1..n : e[i] \in Streams
  BY NumberFacts
<1> SUFFICES ASSUME wrong # {} PROVE FALSE
  BY <1>0
<1>1. PICK R : R = OpToRel(<, Nat)
  OBVIOUS
<1>2. wrong \subseteq Nat
  BY <1>0
<1>3. PICK k \in wrong : \A j \in wrong : <<j, k>> \notin R
  BY <1>1, <1>2, NatLessThanWellFounded, WFMin
<1>4. k \in 1..n /\ before[k] # 0
  BY <1>0, <1>3 DEF SumsOf
<1>5. k - 1 \in 0..n /\ k - 1 < k /\ k \in Nat
  BY <1>0, <1>4
<1>6. before[k - 1] = 0
  <2> SUFFICES ASSUME before[k - 1] # 0 PROVE FALSE
    OBVIOUS
  <2>1. k - 1 \in wrong
    BY <1>5
  <2>2. <<k - 1, k>> \in R
    BY <1>0, <1>1, <1>5 DEF OpToRel
  <2> QED BY <1>3, <2>1, <2>2
<1>7. before[k] = before[k - 1] + pending[e[k]]
  BY <1>4 DEF SumsOf
<1> QED BY <1>0, <1>4, <1>6, <1>7

(* At the end nothing is buffered and nothing waits: all has been taken.   *)
LEMMA CompleteWhenNumbered ==
  ASSUME NEW CONSTANT e, NEW CONSTANT n, Numbers(e, n)
  PROVE  TabsSpec => []OutputComplete
<1>1. BackendInv /\ OutputAccounted(e, n) => OutputComplete
  <2> SUFFICES ASSUME BackendInv, OutputAccounted(e, n), kind = "winrm", view = "ended"
               PROVE  taken = produced
    BY DEF OutputComplete
  <2>1. WinrmInv /\ bufferClosed = TRUE /\ buffered = 0
    BY DEF BackendInv, WinrmInv
  <2>2. \A s \in Streams : pending[s] = 0
    BY <2>1 DEF WinrmInv
  <2>3. PICK before : SumsOf(before, pending, e, n) /\ produced = taken + buffered + before[n]
    BY DEF OutputAccounted
  <2>4. before[n] = 0
    BY <2>2, <2>3, NothingWaits
  <2>5. taken \in Nat /\ produced = taken + buffered + before[n]
    BY <2>1, <2>3 DEF WinrmInv
  <2> QED BY <2>1, <2>4, <2>5
<1>2. TabsSpec => []OutputAccounted(e, n)
  BY AccountedAlways
<1> QED BY <1>1, <1>2, BackendInvariant, PTL

(* The reader of a WinRM session gets all its output before the end        *)
(* (OutputComplete): when Read has returned io.EOF both copiers have read  *)
(* their streams to the end and the buffer is empty.                       *)
THEOREM OutputAlwaysComplete == TabsSpec => []OutputComplete
<1>1. PICK n \in Nat : ExistsBijection(1..n, Streams)
  BY FS_NatBijection, WinrmAssumption
<1>2. PICK e : Numbers(e, n)
  BY <1>1 DEF Numbers, ExistsBijection
<1> QED BY <1>2, CompleteWhenNumbered
=============================================================================
