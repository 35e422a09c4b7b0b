---------------------------- MODULE MCPowerChain ----------------------------
(* Circumstances of the power chain for TLC. *)
EXTENDS PowerChain

\* boot, halt: do they take longer than the timer?
World(commands, faults, press, boot, halt) ==
  [requests |-> commands, a1Faults |-> faults, pressAtCut |-> press, slowBoot |-> boot,
   slowHalt |-> halt]

CalmWorld == World({"shutdown"}, FALSE, FALSE, TRUE, FALSE)
RoughWorld == World({"shutdown", "reboot"}, TRUE, TRUE, FALSE, TRUE)

CalmAndRough == {CalmWorld, RoughWorld}
RebootedAtShutdown == {World({"shutdown", "reboot"}, FALSE, FALSE, TRUE, FALSE)}
=============================================================================
