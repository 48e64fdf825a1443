--------------------------- MODULE SessionContract ---------------------------
(***************************************************************************)
(* What internal/protocol promises the owner of a session about OnClose: a *)
(* session ends at most once and for good, and the owner is told at most   *)
(* once, never before the session has ended.                               *)
(***************************************************************************)
EXTENDS Naturals

VARIABLES ended,     \* the session is over
          notified   \* how often the owner's OnClose callback has been called

Init == ended = FALSE /\ notified = 0

End == ~ended /\ ended' = TRUE /\ UNCHANGED notified

Notify == ended /\ notified = 0 /\ notified' = 1 /\ UNCHANGED ended

Next == End \/ Notify

Spec == Init /\ [][Next]_<<ended, notified>>
=============================================================================
