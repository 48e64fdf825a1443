--------------------------- MODULE LifecycleProofs ---------------------------
(***************************************************************************)
(* Theorems about Lifecycle, for any set of goroutines and callbacks.      *)
(***************************************************************************)
EXTENDS Lifecycle, TLAPS

(* The fields, the captured callbacks and the counters keep their types.   *)
THEOREM LifecycleTypeCorrect == LifecycleSpec => []LifecycleTypeOK
<1>1. LifecycleInit => LifecycleTypeOK
  <2> SUFFICES ASSUME LifecycleInit PROVE LifecycleTypeOK
    OBVIOUS
  <2>1. Idle \in Captures /\ NoCallback \in MaybeCallback
    BY DEF Captures, MaybeCallback
  <2>2. onError \in MaybeCallback /\ onClose \in MaybeCallback
    BY <2>1 DEF LifecycleInit
  <2>3. firing \in [Threads -> Captures]
    BY <2>1 DEF LifecycleInit
  <2>4. closed \in BOOLEAN /\ closeRuns \in Nat /\ errorRuns \in Nat
    BY DEF LifecycleInit
  <2> QED BY <2>2, <2>3, <2>4 DEF LifecycleTypeOK
<1>2. LifecycleTypeOK /\ [LifecycleNext]_lifecycleVars => LifecycleTypeOK'
  <2> SUFFICES ASSUME LifecycleTypeOK, [LifecycleNext]_lifecycleVars
               PROVE  LifecycleTypeOK'
    OBVIOUS
  <2> USE DEF LifecycleTypeOK, MaybeCallback, Captures, Idle
  <2>1. ASSUME NEW cb \in MaybeCallback, OnError(cb) PROVE LifecycleTypeOK'
    BY <2>1 DEF OnError
  <2>2. ASSUME NEW cb \in MaybeCallback, OnClose(cb) PROVE LifecycleTypeOK'
    BY <2>2 DEF OnClose
  <2>3. ASSUME NEW t \in Threads, FireError(t) PROVE LifecycleTypeOK'
    BY <2>3 DEF FireError
  <2>4. ASSUME NEW t \in Threads, FireClose(t) PROVE LifecycleTypeOK'
    BY <2>4 DEF FireClose
  <2>5. ASSUME NEW t \in Threads, RunOnError(t) PROVE LifecycleTypeOK'
    BY <2>5 DEF RunOnError, Called
  <2>6. ASSUME NEW t \in Threads, RunOnClose(t) PROVE LifecycleTypeOK'
    BY <2>6 DEF RunOnClose, Called
  <2>7. CASE UNCHANGED lifecycleVars
    BY <2>7 DEF lifecycleVars
  <2> QED BY <2>1, <2>2, <2>3, <2>4, <2>5, <2>6, <2>7 DEF LifecycleNext
<1> QED BY <1>1, <1>2, PTL DEF LifecycleSpec

-----------------------------------------------------------------------------
(* A fresh lifecycle is open and fires nothing.                            *)
LEMMA OneCloserInit == LifecycleInit => OneCloser
  BY DEF LifecycleInit, OneCloser, Closing, Idle

(* Marking the session closed is the only way to a second OnClose call,    *)
(* and it is refused once the session is closed.                           *)
LEMMA OneCloserStep ==
  LifecycleTypeOK /\ OneCloser /\ [LifecycleNext]_lifecycleVars => OneCloser'
<1> SUFFICES ASSUME LifecycleTypeOK, OneCloser, [LifecycleNext]_lifecycleVars
             PROVE  OneCloser'
  OBVIOUS
<1> USE DEF OneCloser, Closing
<1>1. ASSUME NEW cb \in MaybeCallback, OnError(cb) \/ OnClose(cb) PROVE OneCloser'
  BY <1>1 DEF OnError, OnClose
<1>2. ASSUME NEW t \in Threads, FireError(t) PROVE OneCloser'
  BY <1>2 DEF FireError, LifecycleTypeOK
<1>3. ASSUME NEW t \in Threads, FireClose(t) PROVE OneCloser'
  BY <1>3 DEF FireClose, LifecycleTypeOK
<1>4. ASSUME NEW t \in Threads, RunOnError(t) PROVE OneCloser'
  BY <1>4 DEF RunOnError, LifecycleTypeOK, Idle
<1>5. ASSUME NEW t \in Threads, RunOnClose(t) PROVE OneCloser'
  <2>1. closed /\ closeRuns = 0
    BY <1>5 DEF RunOnClose
  <2>2. \A u \in Threads : firing'[u].kind # "close"
    BY <1>5 DEF RunOnClose, LifecycleTypeOK, Idle
  <2>3. closeRuns' \in {0, 1}
    BY <1>5, <2>1 DEF RunOnClose, Called
  <2> QED BY <1>5, <2>1, <2>2, <2>3 DEF RunOnClose
<1>6. CASE UNCHANGED lifecycleVars
  BY <1>6 DEF lifecycleVars
<1> QED BY <1>1, <1>2, <1>3, <1>4, <1>5, <1>6 DEF LifecycleNext

(* At any time at most one goroutine holds an OnClose call that has not    *)
(* returned, and none does once the call has been made.                    *)
THEOREM OneCloserAlways == LifecycleSpec => []OneCloser
  BY LifecycleTypeCorrect, OneCloserInit, OneCloserStep, PTL DEF LifecycleSpec

(* OnClose fires at most once however many goroutines call FireClose and   *)
(* however often the owner registers callbacks.                            *)
THEOREM OnCloseFiresOnce == LifecycleSpec => []OnCloseOnce
<1>1. OneCloser => OnCloseOnce
  BY DEF OneCloser, OnCloseOnce
<1> QED BY <1>1, OneCloserAlways, PTL

-----------------------------------------------------------------------------
(* Lifecycle implements SessionContract: every step of any goroutine ends  *)
(* the session, makes the one call of the owner, or is a stutter.          *)
THEOREM LifecycleImplementsContract == LifecycleSpec => ImplementsContract
<1>1. LifecycleInit => Contract!Init
  BY DEF LifecycleInit, Contract!Init
<1>2. LifecycleTypeOK /\ OneCloser /\ [LifecycleNext]_lifecycleVars
        => [Contract!Next]_<<closed, closeRuns>>
  <2> SUFFICES ASSUME LifecycleTypeOK, OneCloser, [LifecycleNext]_lifecycleVars
               PROVE  [Contract!Next]_<<closed, closeRuns>>
    OBVIOUS
  <2> USE DEF Contract!Next, Contract!End, Contract!Notify
  <2>1. ASSUME NEW cb \in MaybeCallback, OnError(cb) \/ OnClose(cb)
        PROVE UNCHANGED <<closed, closeRuns>>
    BY <2>1 DEF OnError, OnClose
  <2>2. ASSUME NEW t \in Threads, FireError(t) \/ RunOnError(t)
        PROVE UNCHANGED <<closed, closeRuns>>
    BY <2>2 DEF FireError, RunOnError
  <2>3. ASSUME NEW t \in Threads, FireClose(t) PROVE Contract!End \/ UNCHANGED <<closed, closeRuns>>
    BY <2>3 DEF FireClose, LifecycleTypeOK
  <2>4. ASSUME NEW t \in Threads, RunOnClose(t)
        PROVE Contract!Notify \/ UNCHANGED <<closed, closeRuns>>
    BY <2>4 DEF RunOnClose, Called, OneCloser, Closing, LifecycleTypeOK
  <2>5. CASE UNCHANGED lifecycleVars
    BY <2>5 DEF lifecycleVars
  <2> QED BY <2>1, <2>2, <2>3, <2>4, <2>5 DEF LifecycleNext
<1> QED
  BY <1>1, <1>2, LifecycleTypeCorrect, OneCloserAlways, PTL
     DEF LifecycleSpec, ImplementsContract, Contract!Spec
=============================================================================
