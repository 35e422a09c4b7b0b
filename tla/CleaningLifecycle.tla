--------------------------- MODULE CleaningLifecycle ---------------------------
(***************************************************************************)
(* What the AlgorithmManager promises the app: a cleaning is started from  *)
(* idle, paused and resumed any number of times, and stopped; a stop       *)
(* always gets through; and an idle robot neither drives nor brushes. The  *)
(* first two end when the core loop interferes, on account of the lid or   *)
(* the dust box; the last one holds for ever.                              *)
(***************************************************************************)
VARIABLES
  phase,     \* "idle", "cleaning", "paused" or "stopping"
  active,    \* does the robot drive, brush or suck?
  overruled  \* has the core loop interfered?

vars == <<phase, active, overruled>>

Init == phase = "idle" /\ active = FALSE /\ overruled = FALSE

Begin == phase = "idle" /\ phase' = "cleaning" /\ UNCHANGED <<active, overruled>>

Pause == phase = "cleaning" /\ phase' = "paused" /\ UNCHANGED <<active, overruled>>

Resume == phase = "paused" /\ phase' = "cleaning" /\ UNCHANGED <<active, overruled>>

Stop == phase \in {"cleaning", "paused"} /\ phase' = "stopping" /\ UNCHANGED <<active, overruled>>

\* The robot acts while a cleaning lasts, and for a while after it was paused or stopped.
Act == phase # "idle" /\ active' \in BOOLEAN /\ UNCHANGED <<phase, overruled>>

Finish == phase = "stopping" /\ ~active /\ phase' = "idle" /\ UNCHANGED <<active, overruled>>

Interfere == overruled' = TRUE /\ UNCHANGED <<phase, active>>

\* A write of the core loop is lost, or makes one of the app's be lost.
Overwrite ==
  /\ overruled
  /\ phase' \in {"cleaning", "paused"} \/ (phase' = "idle" /\ ~active)
  /\ UNCHANGED <<active, overruled>>

Next == Begin \/ Pause \/ Resume \/ Stop \/ Act \/ Finish \/ Interfere \/ Overwrite

Spec == Init /\ [][Next]_vars /\ (phase = "stopping" ~> phase = "idle" \/ overruled)
=============================================================================
