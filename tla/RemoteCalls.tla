----------------------------- MODULE RemoteCalls -----------------------------
(***************************************************************************)
(* What a thread of the core may rely on when it has A1 execute an         *)
(* instruction: calls reach A1 in the order they were made, each is        *)
(* executed at most once, answered only after that, and returns at most    *)
(* once, only when it was executed. A call may be lost, or never return.   *)
(***************************************************************************)
EXTENDS Naturals

CONSTANT
  Mixed  \* may a call return because another one was answered?

VARIABLES
  calls,     \* how many calls were made; a call stands for its number
  reached,   \* how many of them are through: they reached A1, or were lost
  executed,  \* the calls A1 executed, or began to
  refused,   \* the calls A1 refused
  answered,  \* the calls A1 answered
  told       \* <<call, other>>: the call returned with the answer to the other

vars == <<calls, reached, executed, refused, answered, told>>

Init == calls = 0 /\ reached = 0 /\ executed = {} /\ refused = {} /\ answered = {} /\ told = {}

Make ==
  /\ calls' = calls + 1
  /\ UNCHANGED <<reached, executed, refused, answered, told>>

Lose == UNCHANGED <<executed, refused, answered>>

\* What takes no time is answered at once.
Execute(call) ==
  /\ executed' = executed \cup {call}
  /\ answered' \in {answered, answered \cup {call}}
  /\ UNCHANGED refused

Refuse(call) ==
  /\ refused' = refused \cup {call} /\ answered' = answered \cup {call}
  /\ UNCHANGED executed

Reach ==
  /\ reached < calls
  /\ reached' = reached + 1
  /\ Lose \/ Execute(reached + 1) \/ Refuse(reached + 1)
  /\ UNCHANGED <<calls, told>>

\* What is answered once is not answered for a second time later on.
Answer ==
  /\ \E call \in executed \ answered : answered' = answered \cup {call}
  /\ UNCHANGED <<calls, reached, executed, refused, told>>

Return ==
  /\ \E call \in 1 .. calls, other \in answered \ refused :
       /\ Mixed \/ other = call
       /\ \A t \in told : t[1] # call
       /\ told' = told \cup {<<call, other>>}
  /\ UNCHANGED <<calls, reached, executed, refused, answered>>

Next == Make \/ Reach \/ Answer \/ Return

Spec == Init /\ [][Next]_vars
=============================================================================
