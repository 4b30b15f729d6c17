------------------------------ MODULE HostRun -------------------------------
(***************************************************************************)
(* What one application of a plan to a host promises the code around it,   *)
(* whichever executor carries it out: its log only grows and is closed by  *)
(* End, and its verdict comes once.  A good verdict comes after the closed *)
(* log has been shown completely.  A bad one may overtake the log.         *)
(***************************************************************************)
EXTENDS Naturals, Sequences

CONSTANTS Message, End

VARIABLES
  shown,    \* what was taken out of the log so far
  verdict   \* "none", "ok" or "error"

vars == <<shown, verdict>>

Closed == shown # <<>> /\ shown[Len(shown)] = End

Init ==
  /\ shown = <<>>
  /\ verdict = "none"

Show(m) ==
  /\ verdict # "ok"
  /\ ~Closed
  /\ shown' = Append(shown, m)
  /\ UNCHANGED verdict

ReturnOk ==
  /\ verdict = "none"
  /\ Closed
  /\ verdict' = "ok"
  /\ UNCHANGED shown

ReturnError ==
  /\ verdict = "none"
  /\ verdict' = "error"
  /\ UNCHANGED shown

Next == (\E m \in Message : Show(m)) \/ ReturnOk \/ ReturnError

Spec == Init /\ [][Next]_vars
=============================================================================
