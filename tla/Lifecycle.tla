------------------------------ MODULE Lifecycle ------------------------------
(***************************************************************************)
(* protocol.Lifecycle (internal/protocol/lifecycle.go): the OnError and    *)
(* OnClose bookkeeping every backend embeds.  Any goroutine may call any   *)
(* method.  The mutex is held only to read or write the fields, so each    *)
(* locked section is one step; the callback read there is called later,    *)
(* outside the lock, in a step of its own.                                 *)
(***************************************************************************)
EXTENDS Naturals

CONSTANTS Threads,      \* goroutines
          Callbacks,    \* functions an owner can register
          NoCallback,   \* Go's nil
          MaxErrors     \* bound on OnError calls, to keep the model finite

ASSUME LifecycleAssumption == NoCallback \notin Callbacks /\ MaxErrors \in Nat

VARIABLES onError, onClose, closed,   \* Lifecycle's fields
          firing,       \* per goroutine: the callback it has read and must call
          closeRuns,    \* calls of an OnClose callback so far
          errorRuns     \* calls of an OnError callback so far

lifecycleVars == <<onError, onClose, closed, firing, closeRuns, errorRuns>>

MaybeCallback == Callbacks \cup {NoCallback}
Idle == [kind |-> "none", cb |-> NoCallback]
Captures == [kind : {"error", "close"}, cb : MaybeCallback] \cup {Idle}

LifecycleInit ==
  /\ onError = NoCallback
  /\ onClose = NoCallback
  /\ closed = FALSE
  /\ firing = [t \in Threads |-> Idle]
  /\ closeRuns = 0
  /\ errorRuns = 0

OnError(cb) ==
  /\ onError' = cb
  /\ UNCHANGED <<onClose, closed, firing, closeRuns, errorRuns>>

(* MUTANT: registering a callback arms the close-once guard again.         *)
OnCloseRearms(cb) ==
  /\ onClose' = cb
  /\ closed' = FALSE
  /\ UNCHANGED <<onError, firing, closeRuns, errorRuns>>

OnClose(cb) ==
  /\ onClose' = cb
  /\ UNCHANGED <<onError, closed, firing, closeRuns, errorRuns>>

FireError(t) ==
  /\ firing[t] = Idle
  /\ errorRuns < MaxErrors
  /\ firing' = [firing EXCEPT ![t] = [kind |-> "error", cb |-> onError]]
  /\ UNCHANGED <<onError, onClose, closed, closeRuns, errorRuns>>

(* MUTANT: the check for an earlier call is missing.                       *)
FireCloseAgain(t) ==
  /\ firing[t] = Idle
  /\ closed' = TRUE
  /\ firing' = [firing EXCEPT ![t] = [kind |-> "close", cb |-> onClose]]
  /\ UNCHANGED <<onError, onClose, closeRuns, errorRuns>>

(* The first call marks the session closed; every later one returns false. *)
FireClose(t) ==
  /\ firing[t] = Idle
  /\ closed' = TRUE
  /\ firing' = IF closed THEN firing
               ELSE [firing EXCEPT ![t] = [kind |-> "close", cb |-> onClose]]
  /\ UNCHANGED <<onError, onClose, closeRuns, errorRuns>>

Called(t) == IF firing[t].cb = NoCallback THEN 0 ELSE 1

RunOnError(t) ==
  /\ firing[t].kind = "error"
  /\ errorRuns' = errorRuns + Called(t)
  /\ firing' = [firing EXCEPT ![t] = Idle]
  /\ UNCHANGED <<onError, onClose, closed, closeRuns>>

RunOnClose(t) ==
  /\ firing[t].kind = "close"
  /\ closeRuns' = closeRuns + Called(t)
  /\ firing' = [firing EXCEPT ![t] = Idle]
  /\ UNCHANGED <<onError, onClose, closed, errorRuns>>

LifecycleNext ==
  \/ \E cb \in MaybeCallback : OnError(cb) \/ OnClose(cb)
  \/ \E t \in Threads : FireError(t) \/ FireClose(t) \/ RunOnError(t) \/ RunOnClose(t)

LifecycleSpec == LifecycleInit /\ [][LifecycleNext]_lifecycleVars

-----------------------------------------------------------------------------
LifecycleTypeOK ==
  /\ onError \in MaybeCallback
  /\ onClose \in MaybeCallback
  /\ closed \in BOOLEAN
  /\ firing \in [Threads -> Captures]
  /\ closeRuns \in Nat
  /\ errorRuns \in Nat

Closing(t) == firing[t].kind = "close"

(* The strengthening that makes "at most once" inductive: a pending or     *)
(* finished OnClose call means the session is closed, and there is only    *)
(* one of them.                                                            *)
OneCloser ==
  /\ closeRuns \in {0, 1}
  /\ ~closed => closeRuns = 0 /\ \A t \in Threads : ~Closing(t)
  /\ closeRuns = 1 => \A t \in Threads : ~Closing(t)
  /\ \A t, u \in Threads : Closing(t) /\ Closing(u) => t = u

(* OnClose is called at most once, whatever goroutines close the session   *)
(* and however often callbacks are registered again (lifecycle.go:9-13).   *)
OnCloseOnce == closeRuns <= 1

Contract == INSTANCE SessionContract WITH ended <- closed, notified <- closeRuns

ImplementsContract == Contract!Spec
=============================================================================
