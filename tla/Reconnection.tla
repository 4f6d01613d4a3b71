----------------------------- MODULE Reconnection -----------------------------
(***************************************************************************)
(* What the life of an SSH session's connection promises (rules 13 to 17 of *)
(* .pipeline/ssh-conexao-confiavel/spec.md), without the processes, timers, *)
(* probes and tokens that bring it about: how the phase may move, and when  *)
(* the application may insist on its own.                                   *)
(***************************************************************************)
EXTENDS Integers

CONSTANT Deadline  \* how long a drop may be insisted on

VARIABLES
  phase,   \* the phase shown, "disposed" once the session is over on the host
  drop     \* seconds since the drop in course began, -1 outside a drop

InDrop   == drop # -1
Patient  == InDrop /\ drop < Deadline

Init == phase = "connecting" /\ drop \in {-1, 0}

\* The first exit after a login begins a drop. It may be shown only later.
Break     == phase = "live" /\ phase' = phase /\ drop' = 0
LogIn     == phase = "connecting" /\ phase' = "live" /\ drop' = drop
\* Waiting for another attempt is for a drop, and out of a failed attempt only
\* while there is patience left.
Insist    == /\ \/ phase = "live" /\ InDrop
                \/ phase = "connecting" /\ Patient
             /\ phase' = "reconnecting" /\ drop' = drop
Attempt   == phase = "reconnecting" /\ Patient /\ phase' = "connecting" /\ drop' = drop
\* Giving up is for a drop that lasted too long.
GiveUp    == /\ phase \in {"connecting", "reconnecting"}
             /\ InDrop /\ drop >= Deadline
             /\ phase' = "dropped" /\ drop' = drop
Fail      == phase = "connecting" /\ phase' = "failed" /\ drop' = drop
End       == phase = "live" /\ InDrop /\ phase' = "disposed" /\ drop' = drop
\* The owner starts again from nothing.
StartOver == phase \in {"failed", "dropped"} /\ phase' = "connecting" /\ drop' = -1
Pass      == InDrop /\ drop' = drop + 1 /\ phase' = phase

Next == Break \/ LogIn \/ Insist \/ Attempt \/ GiveUp \/ Fail \/ End \/ StartOver \/ Pass

Spec == Init /\ [][Next]_<<phase, drop>>
=============================================================================
