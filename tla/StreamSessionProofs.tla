------------------------- MODULE StreamSessionProofs -------------------------
(***************************************************************************)
(* Theorems about the byte-stream sessions, for any goroutines, callbacks  *)
(* and bounds.                                                             *)
(***************************************************************************)
EXTENDS StreamSession, LifecycleProofs

(* What a session does to its lifecycle is done by Lifecycle's methods.    *)
LEMMA StreamUsesLifecycle == [Next]_vars => [LifecycleNext]_lifecycleVars
<1>1. ASSUME NEW cb \in MaybeCallback, Register(cb) PROVE LifecycleNext
  BY <1>1 DEF Register, LifecycleNext
<1>2. StartConnect \/ Timeout \/ StageOk \/ StageFails \/ Remote => UNCHANGED lifecycleVars
  BY DEF StartConnect, Timeout, StageOk, StageFails, Remote
<1>3. StartPump \/ ReadReturns \/ WriteTooEarly \/ WriteFails => UNCHANGED lifecycleVars
  BY DEF StartPump, ReadReturns, WriteTooEarly, WriteFails
<1>4. ResizeFails => LifecycleNext
  BY StreamAssumption DEF ResizeFails, LifecycleNext
<1>5. ASSUME NEW t \in Threads, Disconnect(t) PROVE UNCHANGED lifecycleVars
  BY <1>5 DEF Disconnect
<1>6. ASSUME NEW t \in Threads,
             ReportError(t) \/ ReportEnd(t) \/ CallOnError(t) \/ CallOnClose(t)
      PROVE  LifecycleNext
  BY <1>6 DEF ReportError, ReportEnd, CallOnError, CallOnClose, LifecycleNext
<1>7. ASSUME NEW t \in Threads,
             Return(t) \/ EnterOnce(t) \/ CloseTransport(t) \/ SkipOnce(t)
      PROVE  UNCHANGED lifecycleVars
  BY <1>7 DEF Return, EnterOnce, CloseTransport, SkipOnce
<1>8. UNCHANGED vars => UNCHANGED lifecycleVars
  BY DEF vars
<1> QED BY <1>1, <1>2, <1>3, <1>4, <1>5, <1>6, <1>7, <1>8 DEF Next, ThreadStep

(* Every byte-stream session is a user of Lifecycle: what is proved of     *)
(* Lifecycle holds of raw, telnet, serial, rlogin and ssh sessions.        *)
THEOREM StreamRefinesLifecycle == Spec => LifecycleSpec
<1>1. Init => LifecycleInit
  BY DEF Init
<1> QED BY <1>1, StreamUsesLifecycle, PTL DEF Spec, LifecycleSpec

(* raw, telnet, serial, rlogin and ssh sessions tell their owner of the    *)
(* end at most once, and not before the session has ended.                 *)
THEOREM StreamImplementsContract == Spec => ImplementsContract
  BY StreamRefinesLifecycle, LifecycleImplementsContract, PTL

-----------------------------------------------------------------------------
(* The types of the session's own variables.                               *)
SessionTypeOK ==
  /\ backend \in Backends
  /\ connect \in {"idle", "dialing", "handshake", "setup", "connected", "failed"}
  /\ socket \in {"none", "open", "closed"}
  /\ remote \in {"up", "hungup", "broken"}
  /\ once \in {"free", "running", "done"}
  /\ ctxDone \in BOOLEAN /\ panicked \in BOOLEAN
  /\ stream = (connect = "connected")
  /\ pc \in [Threads -> {"ready", "reading", "failed", "ended", "returning",
                         "disconnect", "closing", "done"}]

(* A fresh session has its types.                                          *)
LEMMA SessionTypeInit == Init => SessionTypeOK
  BY DEF Init, SessionTypeOK

(* A goroutine that moves on stays within its program.                     *)
LEMMA StepTypes ==
  ASSUME SessionTypeOK, NEW t \in Threads, NEW from, NEW to,
         to \in {"ready", "reading", "failed", "ended", "returning",
                 "disconnect", "closing", "done"},
         Step(t, from, to), once' \in {"free", "running", "done"}
  PROVE  SessionTypeOK'
  BY DEF SessionTypeOK, Step, Goto

(* Connect keeps the types.                                                *)
LEMMA ConnectTypes ==
  SessionTypeOK /\ (StartConnect \/ Timeout \/ StageOk \/ StageFails) => SessionTypeOK'
<1> SUFFICES ASSUME SessionTypeOK, StartConnect \/ Timeout \/ StageOk \/ StageFails
             PROVE  SessionTypeOK'
  OBVIOUS
<1> USE DEF SessionTypeOK
<1>1. CASE StartConnect
  BY <1>1 DEF StartConnect
<1>2. CASE Timeout
  BY <1>2 DEF Timeout
<1>3. CASE StageOk
  BY <1>3 DEF StageOk, NextStage
<1>4. CASE StageFails
  BY <1>4 DEF StageFails
<1> QED BY <1>1, <1>2, <1>3, <1>4

(* So does every goroutine.                                                *)
LEMMA ThreadTypes ==
  ASSUME SessionTypeOK, NEW t \in Threads, Disconnect(t) \/ ThreadStep(t)
  PROVE  SessionTypeOK'
<1> USE DEF SessionTypeOK
<1>1. CASE Disconnect(t) \/ ReportError(t) \/ ReportEnd(t) \/ Return(t) \/ SkipOnce(t)
  BY <1>1, StepTypes DEF Disconnect, ReportError, ReportEnd, Return, SkipOnce
<1>2. CASE EnterOnce(t)
  BY <1>2, StepTypes DEF EnterOnce
<1>3. CASE CloseTransport(t)
  BY <1>3 DEF CloseTransport, Goto
<1>4. CASE CallOnError(t)
  BY <1>4 DEF CallOnError, sessionVars
<1>5. CASE CallOnClose(t)
  BY <1>5 DEF CallOnClose, Goto
<1> QED BY <1>1, <1>2, <1>3, <1>4, <1>5 DEF ThreadStep

(* So does every step.                                                     *)
LEMMA SessionTypeStep == SessionTypeOK /\ [Next]_vars => SessionTypeOK'
<1> SUFFICES ASSUME SessionTypeOK, [Next]_vars PROVE SessionTypeOK'
  OBVIOUS
<1> USE DEF SessionTypeOK
<1>1. ASSUME NEW cb \in MaybeCallback, Register(cb) PROVE SessionTypeOK'
  BY <1>1 DEF Register, sessionVars
<1>2. CASE StartConnect \/ Timeout \/ StageOk \/ StageFails
  BY <1>2, ConnectTypes
<1>3. CASE Remote
  BY <1>3 DEF Remote
<1>4. Reader \in Threads /\ Writer \in Threads
  BY StreamAssumption
<1>5. CASE StartPump
  BY <1>4, <1>5, StepTypes DEF StartPump
<1>6. CASE ReadReturns
  BY <1>4, <1>6, StepTypes DEF ReadReturns, ReadFailures
<1>7. CASE WriteTooEarly
  BY <1>7 DEF WriteTooEarly
<1>8. CASE WriteFails \/ ResizeFails
  BY <1>4, <1>8, StepTypes DEF WriteFails, ResizeFails
<1>9. ASSUME NEW t \in Threads, Disconnect(t) \/ ThreadStep(t) PROVE SessionTypeOK'
  BY <1>9, ThreadTypes
<1>10. CASE UNCHANGED vars
  BY <1>10 DEF vars, sessionVars
<1> QED BY <1>1, <1>2, <1>3, <1>5, <1>6, <1>7, <1>8, <1>9, <1>10 DEF Next

(* The variables keep their types, and s.stream is set exactly when        *)
(* Connect has succeeded.                                                  *)
THEOREM StreamTypeCorrect == Spec => []TypeOK
<1>1. Spec => []SessionTypeOK
  BY SessionTypeInit, SessionTypeStep, PTL DEF Spec
<1>2. Spec => []LifecycleTypeOK
  BY StreamRefinesLifecycle, LifecycleTypeCorrect, PTL
<1>3. SessionTypeOK /\ LifecycleTypeOK => TypeOK
  BY DEF SessionTypeOK, TypeOK
<1> QED BY <1>1, <1>2, <1>3, PTL

-----------------------------------------------------------------------------
(* closeOnce is used by nobody before the stream is set, and its body is   *)
(* over only when the transport is closed: as Connect opens nothing after  *)
(* it has set the stream, the transport then stays closed.                 *)
OnceMeansClosed ==
  /\ once # "free" => stream
  /\ \A t \in Threads : pc[t] = "closing" => stream
  /\ once = "done" => socket = "closed"

(* Nothing makes the once done without closing the stream.                 *)
LEMMA OnceMeansClosedStep ==
  SessionTypeOK /\ OnceMeansClosed /\ [Next]_vars => OnceMeansClosed'
<1> SUFFICES ASSUME SessionTypeOK, OnceMeansClosed, [Next]_vars PROVE OnceMeansClosed'
  OBVIOUS
<1> USE DEF OnceMeansClosed, SessionTypeOK
<1>1. ASSUME NEW cb \in MaybeCallback, Register(cb) PROVE OnceMeansClosed'
  BY <1>1 DEF Register, sessionVars
<1>2. CASE StartConnect \/ Timeout \/ Remote \/ WriteTooEarly
  BY <1>2 DEF StartConnect, Timeout, Remote, WriteTooEarly
<1>3. CASE StageOk \/ StageFails
  BY <1>3 DEF StageOk, StageFails
<1>4. CASE StartPump \/ ReadReturns \/ WriteFails \/ ResizeFails
  BY <1>4 DEF StartPump, ReadReturns, ReadFailures, WriteFails, ResizeFails, Step, Goto
<1>5. ASSUME NEW t \in Threads, Disconnect(t) \/ ThreadStep(t) PROVE OnceMeansClosed'
  <2>1. CASE Disconnect(t) \/ ReportError(t) \/ ReportEnd(t) \/ Return(t) \/ SkipOnce(t)
    BY <2>1 DEF Disconnect, ReportError, ReportEnd, Return, SkipOnce, Step, Goto
  <2>2. CASE EnterOnce(t)
    BY <2>2 DEF EnterOnce, Step, Goto
  <2>3. CASE CloseTransport(t)
    BY <2>3 DEF CloseTransport, Goto
  <2>4. CASE CallOnError(t) \/ CallOnClose(t)
    BY <2>4 DEF CallOnError, CallOnClose, sessionVars, Goto
  <2> QED BY <1>5, <2>1, <2>2, <2>3, <2>4 DEF ThreadStep
<1>6. CASE UNCHANGED vars
  BY <1>6 DEF vars, sessionVars
<1> QED BY <1>1, <1>2, <1>3, <1>4, <1>5, <1>6 DEF Next

(* No goroutine's Disconnect reports the end of a connected session whose  *)
(* transport is open, also when another goroutine does the closing.        *)
THEOREM DisconnectWaitsForTheClose == Spec => WaitsForTheClose
<1>1. Init => OnceMeansClosed
  BY DEF Init, OnceMeansClosed
<1>2. SessionTypeOK /\ OnceMeansClosed /\ [Next]_vars
        => [\A t \in Threads : stream /\ pc[t] \in {"disconnect", "closing"} /\ pc'[t] = "ended"
              => socket' = "closed"]_vars
  <2> SUFFICES ASSUME SessionTypeOK, OnceMeansClosed, Next,
                      NEW t \in Threads, stream, pc[t] \in {"disconnect", "closing"},
                      pc'[t] = "ended"
               PROVE  socket' = "closed"
    OBVIOUS
  <2> USE DEF SessionTypeOK, Step, Goto
  <2>1. ASSUME NEW cb \in MaybeCallback, Register(cb) PROVE FALSE
    BY <2>1 DEF Register, sessionVars
  <2>2. CASE StartConnect \/ Timeout \/ StageOk \/ StageFails \/ Remote \/ WriteTooEarly
    BY <2>2 DEF StartConnect, Timeout, StageOk, StageFails, Remote, WriteTooEarly
  <2>3. CASE StartPump \/ ReadReturns \/ WriteFails \/ ResizeFails
    BY <2>3, StreamAssumption DEF StartPump, ReadReturns, ReadFailures, WriteFails, ResizeFails
  <2>4. ASSUME NEW u \in Threads, Disconnect(u) \/ ThreadStep(u) PROVE socket' = "closed"
    <3>1. CASE CloseTransport(u)
      BY <3>1 DEF CloseTransport
    <3>2. CASE SkipOnce(u)
      BY <3>2 DEF SkipOnce, OnceMeansClosed
    <3>3. CASE Disconnect(u) \/ ReportError(u) \/ ReportEnd(u) \/ Return(u) \/ EnterOnce(u)
      BY <3>3 DEF Disconnect, ReportError, ReportEnd, Return, EnterOnce
    <3>4. CASE CallOnError(u) \/ CallOnClose(u)
      BY <3>4 DEF CallOnError, CallOnClose, sessionVars
    <3> QED BY <2>4, <3>1, <3>2, <3>3, <3>4 DEF ThreadStep
  <2> QED BY <2>1, <2>2, <2>3, <2>4 DEF Next
<1> QED
  BY <1>1, <1>2, SessionTypeInit, SessionTypeStep, OnceMeansClosedStep, PTL
     DEF Spec, WaitsForTheClose
=============================================================================
