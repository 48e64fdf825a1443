----------------------------- MODULE WinrmSession -----------------------------
(***************************************************************************)
(* internal/protocol/winrm: Connect opens a shell and starts a command on  *)
(* it; two goroutines copy the command's stdout and stderr into a buffer   *)
(* that grows, and the Watcher waits for both, closes the buffer, releases *)
(* Disconnect and reports the end.                                         *)
(* The two streams come from the client library, which gives them an end   *)
(* when the command is over; but a Disconnect before anything has been     *)
(* read may hang, for a reason nobody has found (winrm.go:256-265), which  *)
(* is modelled as a stream that never ends.                                *)
(***************************************************************************)
EXTENDS BackgroundSession, FiniteSets

CONSTANTS Streams, MaxChunks    \* bound on the output of the command

ASSUME WinrmAssumption == IsFiniteSet(Streams) /\ MaxChunks \in Nat

VARIABLES shell,      \* s.shell and s.cmd are set
          command,    \* the remote command
          stuck,      \* streams the library never ends
          pending,    \* per stream: output its copier has not read yet
          copying,    \* the streams whose copier has not returned
          produced,   \* chunks of output so far
          buffered,   \* growingBuffer.data
          bufferClosed,
          taken       \* what the reader has got

winrmVars == <<shell, command, stuck, pending, copying, produced, buffered, bufferClosed, taken>>
winrmSessionVars == <<lifecycleVars, backgroundVars, winrmVars>>

WinrmInit ==
  /\ BackgroundInit
  /\ shell = FALSE /\ command = "none" /\ stuck = {}
  /\ pending = [s \in Streams |-> 0]
  /\ copying = {}
  /\ produced = 0 /\ buffered = 0 /\ bufferClosed = FALSE /\ taken = 0

-----------------------------------------------------------------------------
(* NewClient, createShell and executeCommand: the first two may fail, and  *)
(* each wait is given up when the context expires.                         *)
CreateShell ==
  /\ \/ connect = "idle" /\ connect' \in {"shell", "failed"}
     \/ connect = "shell" /\ connect' = "command"
     \/ connect \in {"shell", "command"} /\ connect' = "failed"
  /\ UNCHANGED <<lifecycleVars, once, waitDone, pc, winrmVars>>

(* The command runs, and its two copiers.                                  *)
StartCommand ==
  /\ connect = "command"
  /\ connect' = "publishing"
  /\ command' = "running" /\ copying' = Streams
  /\ UNCHANGED <<lifecycleVars, once, waitDone, pc,
                 shell, stuck, pending, produced, buffered, bufferClosed, taken>>

(* The fields that Disconnect looks at, then its channel and the Watcher.  *)
PublishShell ==
  /\ connect = "publishing"
  /\ connect' = "watching"
  /\ shell' = TRUE
  /\ UNCHANGED <<lifecycleVars, once, waitDone, pc,
                 command, stuck, pending, copying, produced, buffered, bufferClosed, taken>>

WatchCommand ==
  /\ connect = "watching"
  /\ connect' = "connected"
  /\ waitDone' = "open"
  /\ pc' = [pc EXCEPT ![Watcher] = "copiers"]
  /\ UNCHANGED <<lifecycleVars, once, winrmVars>>

CommandWrites(s) ==
  /\ command = "running" /\ produced < MaxChunks
  /\ pending' = [pending EXCEPT ![s] = @ + 1]
  /\ produced' = produced + 1
  /\ UNCHANGED <<lifecycleVars, backgroundVars, shell, command, stuck, copying, buffered, bufferClosed, taken>>

CommandEnds ==
  /\ command \in {"running", "stopping"}
  /\ command' = "ended"
  /\ UNCHANGED <<lifecycleVars, backgroundVars,
                 shell, stuck, pending, copying, produced, buffered, bufferClosed, taken>>

-----------------------------------------------------------------------------
(* MUTANT: the write of a pipe, which waits until all of it has been read. *)
CopyIntoPipe(s) ==
  /\ s \in copying /\ pending[s] > 0 /\ buffered = 0
  /\ pending' = [pending EXCEPT ![s] = @ - 1]
  /\ buffered' = buffered + 1
  /\ UNCHANGED <<lifecycleVars, backgroundVars, shell, command, stuck, copying, produced, bufferClosed, taken>>

(* growingBuffer.Write never waits for a reader.                           *)
Copy(s) ==
  /\ s \in copying /\ pending[s] > 0
  /\ pending' = [pending EXCEPT ![s] = @ - 1]
  /\ buffered' = buffered + 1
  /\ UNCHANGED <<lifecycleVars, backgroundVars, shell, command, stuck, copying, produced, bufferClosed, taken>>

(* The stream is at its end.                                               *)
CopierReturns(s) ==
  /\ s \in copying /\ pending[s] = 0 /\ command = "ended" /\ s \notin stuck
  /\ copying' = copying \ {s}
  /\ UNCHANGED <<lifecycleVars, backgroundVars, shell, command, stuck, pending, produced, buffered, bufferClosed, taken>>

Copiers == \E s \in Streams : Copy(s) \/ CopierReturns(s)

(* MUTANT: the Watcher waits for one of the copiers only.                  *)
CloseBufferEarly ==
  /\ Cardinality(copying) <= 1 /\ command = "ended"
  /\ Step(Watcher, "copiers", "release")
  /\ bufferClosed' = TRUE
  /\ UNCHANGED <<lifecycleVars, connect, once, waitDone,
                 shell, command, stuck, pending, copying, produced, buffered, taken>>

(* wg.Wait, cmd.Wait, output.Close.                                        *)
CloseBuffer ==
  /\ copying = {} /\ command = "ended"
  /\ Step(Watcher, "copiers", "release")
  /\ bufferClosed' = TRUE
  /\ UNCHANGED <<lifecycleVars, connect, once, waitDone,
                 shell, command, stuck, pending, copying, produced, buffered, taken>>

Release ==
  /\ Step(Watcher, "release", "report")
  /\ waitDone' = "closed"
  /\ UNCHANGED <<lifecycleVars, connect, once, winrmVars>>

ReportExit == FireCloseThen(Watcher, "report", "returning") /\ UNCHANGED winrmVars

-----------------------------------------------------------------------------
(* closeOnce: one caller tells the server to stop the command and to close *)
(* the shell; the others wait for it in Do.                                *)
EnterOnce(t) ==
  /\ once = "free"
  /\ Step(t, "disconnect", "stopping")
  /\ once' = "running"
  /\ UNCHANGED <<lifecycleVars, connect, waitDone, winrmVars>>

(* The errors of Close are dropped, and the command may go on.             *)
StopCommand(t) ==
  /\ Step(t, "stopping", "waitDone")
  /\ once' = "done"
  /\ \/ UNCHANGED <<command, stuck>>
     \/ /\ shell /\ command = "running"
        /\ command' = "stopping"
        /\ stuck' \in IF taken = 0 THEN SUBSET Streams ELSE {{}}
  /\ UNCHANGED <<lifecycleVars, connect, waitDone,
                 shell, pending, copying, produced, buffered, bufferClosed, taken>>

SkipStop(t) ==
  /\ once = "done"
  /\ Step(t, "disconnect", "waitDone")
  /\ UNCHANGED <<lifecycleVars, connect, once, waitDone, winrmVars>>

(* growingBuffer.Read: whatever is there; at the end, when it is closed    *)
(* and empty, the reader gets io.EOF (see AtEnd).                          *)
ReadOutput ==
  /\ buffered > 0
  /\ taken' = taken + buffered
  /\ buffered' = 0
  /\ UNCHANGED <<lifecycleVars, backgroundVars, shell, command, stuck, pending, copying, produced, bufferClosed>>

AtEnd == bufferClosed /\ buffered = 0

(* Write: an error of the server is reported, no more.                     *)
WriteInput(t) ==
  /\ t \in Closers /\ pc[t] = "ready" /\ shell
  /\ command # "running"
  /\ FireError(t)
  /\ UNCHANGED <<backgroundVars, winrmVars>>

-----------------------------------------------------------------------------
WinrmGoroutine(t) ==
  \/ BackgroundStep(t) /\ UNCHANGED winrmVars
  \/ EnterOnce(t) \/ StopCommand(t) \/ SkipStop(t)

WinrmWatcher == CloseBuffer \/ Release \/ ReportExit

WinrmNext ==
  \/ BackgroundNext /\ UNCHANGED winrmVars
  \/ CreateShell \/ StartCommand \/ PublishShell \/ WatchCommand \/ CommandEnds
  \/ \E s \in Streams : CommandWrites(s)
  \/ Copiers
  \/ WinrmWatcher
  \/ \E t \in Threads : EnterOnce(t) \/ StopCommand(t) \/ SkipStop(t) \/ WriteInput(t)

WinrmConnects ==
  connect # "idle" /\ (CreateShell \/ StartCommand \/ PublishShell \/ WatchCommand)
StoppedCommandEnds == command = "stopping" /\ CommandEnds

(* The goroutines run, requests return, and a command that the server has  *)
(* been told to stop ends; of a stuck stream nothing is assumed.           *)
WinrmFairness ==
  /\ WF_winrmSessionVars(WinrmConnects)
  /\ WF_winrmSessionVars(StoppedCommandEnds)
  /\ WF_winrmSessionVars(Copiers) /\ WF_winrmSessionVars(WinrmWatcher)
  /\ \A t \in Threads : WF_winrmSessionVars(WinrmGoroutine(t))

WinrmSpec == WinrmInit /\ [][WinrmNext]_winrmSessionVars /\ WinrmFairness

-----------------------------------------------------------------------------
(* Types; and the buffer is closed before Disconnect is released.          *)
WinrmTypeOK ==
  /\ BackgroundTypeOK
  /\ connect \in {"idle", "shell", "command", "publishing", "watching", "connected", "failed"}
  /\ command \in {"none", "running", "stopping", "ended"}
  /\ pending \in [Streams -> Nat] /\ copying \subseteq Streams
  /\ produced \in 0..MaxChunks
  /\ stuck \subseteq Streams
  /\ shell = (connect \in {"watching", "connected"})
  /\ waitDone # "nil" <=> connect = "connected"
  /\ waitDone = "closed" => bufferClosed

(* The command is over or will be, and the library ends both streams.      *)
WinrmOver == connect = "connected" /\ command \in {"stopping", "ended"} /\ stuck = {}
=============================================================================
