--------------------------- MODULE BackgroundSession ---------------------------
(***************************************************************************)
(* What the backends with a goroutine of their own share (rdp, anydesk,    *)
(* vnc, winrm, web): the owner registers OnClose and calls Connect in one  *)
(* goroutine, Connect starts a Watcher, and any goroutine calls Disconnect,*)
(* whose body runs once (closeOnce) and which may wait for the Watcher.    *)
(***************************************************************************)
EXTENDS Lifecycle

CONSTANTS Connector, Watcher, Closers,
          ReentrantCallbacks   \* callbacks that call Disconnect themselves

ASSUME BackgroundAssumption ==
  /\ Threads = {Connector, Watcher} \cup Closers
  /\ Connector \notin Closers /\ Watcher \notin Closers /\ Connector # Watcher
  /\ ReentrantCallbacks \subseteq Callbacks

VARIABLES connect,    \* where Connect is
          once,       \* closeOnce: "free", its body "running", "done"
          waitDone,   \* the channel s.waitDone
          pc          \* per goroutine

backgroundVars == <<connect, once, waitDone, pc>>

BackgroundInit ==
  /\ LifecycleInit
  /\ connect = "idle"
  /\ once = "free"
  /\ waitDone = "nil"
  /\ pc = [t \in Threads |-> "ready"]

-----------------------------------------------------------------------------
(* The owner registers before it connects or closes the session.           *)
Register(cb) ==
  /\ connect = "idle" /\ ~closed
  /\ OnClose(cb)
  /\ UNCHANGED backgroundVars

Step(t, from, to) ==
  /\ pc[t] = from
  /\ firing[t] = Idle
  /\ pc' = [pc EXCEPT ![t] = to]

Disconnect(t) ==
  /\ t \in Closers
  /\ Step(t, "ready", "disconnect")
  /\ UNCHANGED <<lifecycleVars, connect, once, waitDone>>

(* FireClose, and where the goroutine goes on.                             *)
FireCloseThen(t, from, to) ==
  /\ Step(t, from, to)
  /\ FireClose(t)
  /\ UNCHANGED <<connect, once, waitDone>>

(* The callback may call Disconnect; t then goes on in there and ends with *)
(* the same statements, which the second time do nothing.                  *)
CallOnClose(t) ==
  /\ RunOnClose(t)
  /\ pc' = [pc EXCEPT ![t] = IF firing[t].cb \in ReentrantCallbacks THEN "disconnect" ELSE @]
  /\ UNCHANGED <<connect, once, waitDone>>

CallOnError(t) ==
  /\ RunOnError(t)
  /\ UNCHANGED backgroundVars

Return(t) ==
  /\ Step(t, "returning", "done")
  /\ UNCHANGED <<lifecycleVars, connect, once, waitDone>>

(* <-s.waitDone, unless there is no channel yet.                           *)
AwaitExit(t) ==
  /\ waitDone # "open"
  /\ Step(t, "waitDone", "done")
  /\ UNCHANGED <<lifecycleVars, connect, once, waitDone>>

BackgroundNext ==
  \/ \E cb \in MaybeCallback : Register(cb)
  \/ \E t \in Threads : Disconnect(t) \/ CallOnClose(t) \/ CallOnError(t) \/ Return(t) \/ AwaitExit(t)

(* What a goroutine that runs does not leave undone.                       *)
BackgroundStep(t) == CallOnClose(t) \/ CallOnError(t) \/ Return(t) \/ AwaitExit(t)

BackgroundTypeOK ==
  /\ LifecycleTypeOK
  /\ once \in {"free", "running", "done"}
  /\ waitDone \in {"nil", "open", "closed"}
=============================================================================
