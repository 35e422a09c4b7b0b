--------------------------- MODULE BluetoothProofs ---------------------------
(* What holds of Bluetooth on the robot after any number of presses, clients, failures and   *)
(* pairings. BluetoothService has no constants: the run visits every state of it, and the    *)
(* proof says why its invariants hold.                                                       *)
EXTENDS BluetoothService, TLAPS

\* The flag is cleared only at the end of a pairing, and enable_pairing is reached only
\* while it is clear: the thread it finds is one that has cleared it.
PairingInv ==
  /\ ~enabled => pairing \in {"none", "disabled", "ending", "ended"}
  /\ core = "pairing" => ~enabled
  /\ JoinIsShort

\* An event emitted into the empty set is the only one waiting until the loop takes it, and
\* what the loop has taken is at hand until it is shown.
LedInv ==
  /\ core = "show" => pressed \in Events
  /\ ~mixed =>
       /\ events \subseteq {last}
       /\ events = {} /\ core = "show" => pressed = last
       /\ events = {} /\ core \notin {"show", "failed"} => led = last

BluetoothInv == TypeOK /\ PairingInv /\ LedInv

LEMMA InitInv == Init => BluetoothInv
BY DEF Init, BluetoothInv, TypeOK, PairingInv, JoinIsShort, LedInv,
   Presses, Events, CoreLabels, ServiceLabels, PairingLabels

LEMMA ReportKeeps == BluetoothInv /\ Report => BluetoothInv'
BY DEF Report, BluetoothInv, TypeOK, PairingInv, JoinIsShort, LedInv, history

\* The loop up to enable_pairing.
LEMMA LoopKeeps ==
  ASSUME BluetoothInv, Shutdown \/ Turn \/ TakePress \/ ReadAgain \/ Click \/ LongPress
  PROVE  BluetoothInv'
<1> USE DEF Presses, CoreLabels, history, Goto
<1>1. CASE Shutdown \/ Turn
  BY <1>1 DEF Shutdown, Turn, BluetoothInv, TypeOK, PairingInv, JoinIsShort,
     LedInv
<1>2. CASE TakePress \/ ReadAgain
  BY <1>2 DEF TakePress, ReadAgain, BluetoothInv, TypeOK, PairingInv,
     JoinIsShort, LedInv
<1>3. CASE Click
  BY <1>3 DEF Click, StartAnd, is_alive, ServiceLabels, BluetoothInv, TypeOK,
     PairingInv, JoinIsShort, LedInv
<1>4. CASE LongPress
  BY <1>4 DEF LongPress, StartAnd, is_alive, ServiceLabels, BluetoothInv, TypeOK,
     PairingInv, JoinIsShort, LedInv
<1> QED BY <1>1, <1>2, <1>3, <1>4

LEMMA EnableKeeps ==
  ASSUME BluetoothInv, EnablePairing \/ Join
  PROVE  BluetoothInv'
<1> USE DEF CoreLabels, PairingLabels, history, Goto
<1>1. CASE EnablePairing
  <2> USE <1>1 DEF EnablePairing, Emit
  <2>1. TypeOK' BY DEF BluetoothInv, TypeOK, Events
  <2>2. PairingInv'
    BY DEF BluetoothInv, TypeOK, PairingInv, JoinIsShort
  <2>3. LedInv' BY DEF BluetoothInv, LedInv
  <2> QED BY <2>1, <2>2, <2>3 DEF BluetoothInv
<1>2. CASE Join
  BY <1>2 DEF Join, BluetoothInv, TypeOK, PairingInv, JoinIsShort, LedInv
<1> QED BY <1>1, <1>2

LEMMA EventKeeps ==
  ASSUME BluetoothInv, Pop \/ Show \/ LedFails
  PROVE  BluetoothInv'
<1> USE DEF CoreLabels, history, Goto
<1>1. CASE Pop
  <2> USE <1>1 DEF Pop
  <2>1. TypeOK' BY DEF BluetoothInv, TypeOK, Presses
  <2>2. PairingInv'
    BY DEF BluetoothInv, TypeOK, PairingInv, JoinIsShort
  <2>3. LedInv' BY DEF BluetoothInv, TypeOK, LedInv
  <2> QED BY <2>1, <2>2, <2>3 DEF BluetoothInv
<1>2. CASE Show \/ LedFails
  <2> USE <1>2 DEF Show, LedFails
  <2>1. TypeOK' BY DEF BluetoothInv, LedInv, TypeOK, Presses
  <2>2. PairingInv'
    BY DEF BluetoothInv, TypeOK, PairingInv, JoinIsShort
  <2>3. LedInv' BY DEF BluetoothInv, LedInv
  <2> QED BY <2>1, <2>2, <2>3 DEF BluetoothInv
<1> QED BY <1>1, <1>2

\* What is emitted is an event.
LEMMA EmitTypes ==
  ASSUME TypeOK, NEW event \in Events, Emit(event) \/ NoEvent
  PROVE  events' \subseteq Events /\ last' \in Events \cup {"none"} /\ mixed' \in BOOLEAN
<1>1. CASE Emit(event) BY <1>1 DEF Emit, TypeOK
<1>2. CASE NoEvent BY <1>2 DEF NoEvent, history, TypeOK
<1> QED BY <1>1, <1>2

LEMMA ServiceKeeps ==
  ASSUME BluetoothInv, Service \/ Accept \/ Leave \/ Raise
  PROVE  BluetoothInv'
<1> USE DEF Service, Begin, Enable, EmitError, End, Accept, Leave, Raise, Emit, NoEvent, loop,
        history
<1>1. TypeOK'
  <2>1. events' \subseteq Events /\ last' \in Events \cup {"none"} /\ mixed' \in BOOLEAN
    <3>1. \E event \in Events : Emit(event) \/ NoEvent BY DEF Events
    <3> HIDE DEF Emit, NoEvent
    <3> QED BY <3>1, EmitTypes DEF BluetoothInv
  <2>2. service' \in ServiceLabels BY DEF ServiceLabels
  <2>3. UNCHANGED <<loop, hasThread, pairing, enabled>> OBVIOUS
  <2> QED BY <2>1, <2>2, <2>3 DEF BluetoothInv, TypeOK
<1>2. PairingInv' BY DEF BluetoothInv, PairingInv, JoinIsShort
<1>3. LedInv' BY DEF BluetoothInv, LedInv
<1> QED BY <1>1, <1>2, <1>3 DEF BluetoothInv

LEMMA PairingKeeps ==
  ASSUME BluetoothInv, Pairing \/ PairingFails
  PROVE  BluetoothInv'
<1> USE DEF Pairing, Paired, DisablePairing, FinishPairing, EndPairing, PairingFails, Emit,
        NoEvent, loop, history
<1>1. TypeOK'
  <2>1. events' \subseteq Events /\ last' \in Events \cup {"none"} /\ mixed' \in BOOLEAN
    <3>1. \E event \in Events : Emit(event) \/ NoEvent BY DEF Events
    <3> HIDE DEF Emit, NoEvent
    <3> QED BY <3>1, EmitTypes DEF BluetoothInv
  <2>2. pairing' \in PairingLabels /\ pairing # "none" /\ pairing' # "none" BY DEF PairingLabels
  <2>3. UNCHANGED <<loop, service, hasThread>> /\ enabled' \in {enabled, FALSE} OBVIOUS
  <2> QED BY <2>1, <2>2, <2>3 DEF BluetoothInv, TypeOK
<1>2. PairingInv' BY DEF BluetoothInv, TypeOK, PairingInv, JoinIsShort
<1>3. LedInv' BY DEF BluetoothInv, LedInv
<1> QED BY <1>1, <1>2, <1>3 DEF BluetoothInv

LEMMA StutterKeeps == BluetoothInv /\ UNCHANGED vars => BluetoothInv'
BY DEF vars, BluetoothInv, TypeOK, PairingInv, JoinIsShort, LedInv

\* The invariant holds in every state.
THEOREM BluetoothCorrect == Spec => []BluetoothInv
<1>1. BluetoothInv /\ [Next]_vars => BluetoothInv'
  BY ReportKeeps, LoopKeeps, EnableKeeps, EventKeeps, ServiceKeeps, PairingKeeps, StutterKeeps
  DEF Next, Core
<1> QED BY InitInv, <1>1, PTL DEF Spec

\* Every variable keeps its type, and there is a pairing thread exactly when one is referred to.
THEOREM BluetoothTypeCorrect == Spec => []TypeOK
<1>1. BluetoothInv => TypeOK BY DEF BluetoothInv
<1> QED BY BluetoothCorrect, <1>1, PTL

\* The core loop never waits for a device to pair.
THEOREM JoinNeverWaits == Spec => []JoinIsShort
<1>1. BluetoothInv => JoinIsShort BY DEF BluetoothInv, PairingInv
<1> QED BY BluetoothCorrect, <1>1, PTL

\* The LED shows the last event, but for those that waited together.
THEOREM LedCorrect == Spec => []LedShowsLast
<1>1. BluetoothInv => LedShowsLast BY DEF BluetoothInv, LedInv, LedShowsLast
<1> QED BY BluetoothCorrect, <1>1, PTL
=============================================================================
