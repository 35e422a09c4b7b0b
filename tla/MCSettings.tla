------------------------------ MODULE MCSettings ------------------------------
(* The algorithms of the core, and what its files may hold before the first life: next to    *)
(* nothing, and that from an older version, or other settings than the defaults.             *)
EXTENDS Settings

SimpleAndSmart == <<"simple", "smart">>

OldOrSet ==
  {[f \in Files |-> IF f = "simple" THEN Outdated ELSE Absent],
   [f \in Files |-> IF f = "config" THEN [pid |-> "other", algorithm |-> "smart"]
                    ELSE Arguments("other")]}
=============================================================================
