------------------------ MODULE DroidRouting_proofs ------------------------
(***************************************************************************)
(* Theorems of DroidRouting, for any streams and devices and whatever the  *)
(* HAL refuses.  All but the first are about audio patches.                *)
(***************************************************************************)
EXTENDS DroidRouting, TLAPS

(* Setting a route is total: it changes a routing into a routing.          *)
LEMMA RoutedType ==
    ASSUME NEW r \in [to : [Streams -> Devices \cup {NoPort}],
                      port : [Streams -> Devices \cup {NoPort}], bt : BOOLEAN],
           NEW open \in SUBSET Streams, NEW cond, NEW d, NEW r2 \in RoutedIf(cond, r, d, open)
    PROVE  r2 \in [to : [Streams -> Devices \cup {NoPort}],
                   port : [Streams -> Devices \cup {NoPort}], bt : BOOLEAN]
<1>1. CASE ~(cond /\ Primary \in open /\ d \in Devices)
    BY <1>1 DEF RoutedIf
<1>2. CASE cond /\ Primary \in open /\ d \in Devices
  <2>1. PICK ok \in Accepted(open) : r2 = Routed(r, d, open, ok)
      BY <1>2 DEF RoutedIf
  <2>2. CASE Legacy
      BY <1>2, <2>1, <2>2, RoutingAssumption DEF Routed
  <2>3. CASE ~Legacy
    <3>1. Patched(r, d, open, ok) \in [Streams -> Devices \cup {NoPort}]
        BY <1>2 DEF Patched
    <3>2. PortAfter(r, d, open, ok) \in [Streams -> Devices \cup {NoPort}]
        BY <1>2 DEF PortAfter
    <3>3. BtScoAfter(r, d) \in BOOLEAN
        BY DEF BtScoAfter
    <3>4. r2 = [to |-> Patched(r, d, open, ok), port |-> PortAfter(r, d, open, ok),
                bt |-> BtScoAfter(r, d)]
        BY <2>1, <2>3 DEF Routed
    <3> QED BY <3>1, <3>2, <3>3, <3>4
  <2> QED BY <2>2, <2>3
<1> QED BY <1>1, <1>2

(* Every variable keeps to its type.                                       *)
THEOREM TypeCorrect == Spec => []TypeOK
<1>1. Init => TypeOK
    BY DEF Init, TypeOK, Modes
<1>2. TypeOK /\ [Next]_vars => TypeOK'
  <2> SUFFICES ASSUME TypeOK, [Next]_vars PROVE TypeOK'
      OBVIOUS
  <2>1. ASSUME NEW s \in Streams, Open(s) PROVE TypeOK'
    <3> DEFINE opened == [routing EXCEPT !.to[s] = IF Legacy THEN DefaultDevice ELSE NoPort]
    <3>1. opened \in [to : [Streams -> Devices \cup {NoPort}],
                      port : [Streams -> Devices \cup {NoPort}], bt : BOOLEAN]
        BY RoutingAssumption DEF TypeOK
    <3>2. /\ routing' \in RoutedIf(TRUE, opened, DefaultDevice, outputs')
          /\ outputs' \in SUBSET Streams /\ mode' \in Modes
        BY <2>1 DEF Open, TypeOK
    <3> HIDE DEF opened
    <3>3. routing' \in [to : [Streams -> Devices \cup {NoPort}],
                        port : [Streams -> Devices \cup {NoPort}], bt : BOOLEAN]
        BY <3>1, <3>2, RoutedType
    <3> QED BY <3>2, <3>3 DEF TypeOK
  <2>2. ASSUME NEW s \in Streams, Close(s) PROVE TypeOK'
      BY <2>2 DEF Close, Forgotten, TypeOK
  <2>3. ASSUME NEW d \in Devices, SetRoute(d) PROVE TypeOK'
      BY <2>3, RoutedType DEF SetRoute, TypeOK
  <2>4. ASSUME NEW m \in Modes, SetMode(m) PROVE TypeOK'
    <3> DEFINE starts == m = "IN_CALL" /\ mode # m
    <3>1. PICK ok \in Outcomes,
               early \in RoutedIf(starts /\ SpeakerBeforeVoice, routing, Speaker, outputs) :
             /\ routing' \in RoutedIf(starts /\ ok, early, Earpiece, outputs)
             /\ mode' = IF ok THEN m ELSE mode
             /\ UNCHANGED outputs
        BY <2>4, Zenon DEF SetMode
    <3>2. routing' \in [to : [Streams -> Devices \cup {NoPort}],
                        port : [Streams -> Devices \cup {NoPort}], bt : BOOLEAN]
        BY <3>1, RoutedType DEF TypeOK
    <3> QED BY <3>1, <3>2 DEF TypeOK
  <2>5. CASE UNCHANGED vars
      BY <2>5 DEF vars, TypeOK
  <2> QED BY <2>1, <2>2, <2>3, <2>4, <2>5 DEF Next
<1> QED BY <1>1, <1>2, PTL DEF Spec

-----------------------------------------------------------------------------
(* What the properties need of a routing, as a predicate of its own: the   *)
(* mode change routes twice in one step.                                   *)

Sound(r, open) ==
    /\ \A s, t \in open : r.to[s] # NoPort /\ r.to[t] # NoPort => r.to[s] = r.to[t]
    /\ Primary \in open /\ r.to[Primary] # NoPort => (r.bt <=> r.to[Primary] \in BtSco)
    /\ \A s \in Streams : r.to[s] # NoPort => s \in open /\ r.port[s] = r.to[s]

(* A route set on the primary stream leaves the routing sound.             *)
LEMMA RoutedSound ==
    ASSUME ~Legacy,
           NEW r, NEW open \in SUBSET Streams, NEW cond, NEW d,
           (cond /\ Primary \in open /\ d \in Devices) \/ Sound(r, open),
           NEW r2 \in RoutedIf(cond, r, d, open)
    PROVE  Sound(r2, open)
<1>1. CASE ~(cond /\ Primary \in open /\ d \in Devices)
    BY <1>1 DEF RoutedIf
<1>2. CASE cond /\ Primary \in open /\ d \in Devices
  <2>1. PICK ok \in Accepted(open) : r2 = Routed(r, d, open, ok)
      BY <1>2 DEF RoutedIf
  <2>2. ok \subseteq open
      BY DEF Accepted
  <2>3. /\ r2.to = [s \in Streams |-> IF s \in ok /\ Primary \in ok THEN d ELSE NoPort]
        /\ r2.port = [s \in Streams |-> IF s = Primary \/ (s \in open /\ Primary \in ok) THEN d
                                        ELSE r.port[s]]
        /\ r2.bt = (d \in BtSco)
      BY <2>1 DEF Routed, Patched, PortAfter, BtScoAfter
  <2>4. \A s \in Streams : r2.to[s] # NoPort => s \in ok /\ Primary \in ok /\ r2.to[s] = d
      BY <2>3
  <2>5. \A s \in Streams : r2.to[s] # NoPort => s \in open /\ r2.port[s] = r2.to[s]
      BY <2>2, <2>3, <2>4
  <2>6. Primary \in open /\ r2.to[Primary] # NoPort => (r2.bt <=> r2.to[Primary] \in BtSco)
      BY <2>3, <2>4
  <2>7. \A s, t \in open : r2.to[s] # NoPort /\ r2.to[t] # NoPort => r2.to[s] = r2.to[t]
      BY <2>4
  <2> QED BY <2>5, <2>6, <2>7 DEF Sound
<1> QED BY <1>1, <1>2

(* The three properties hold together: each open or closed stream, route   *)
(* and mode change leaves a sound routing.                                 *)
THEOREM RoutingSound == ASSUME ~Legacy PROVE Spec => []Sound(routing, outputs)
<1>1. Init => Sound(routing, outputs)
    BY DEF Init, Sound
<1>2. TypeOK /\ Sound(routing, outputs) /\ [Next]_vars => Sound(routing, outputs)'
  <2> SUFFICES ASSUME TypeOK, Sound(routing, outputs), [Next]_vars
               PROVE  Sound(routing', outputs')
      BY DEF Sound
  <2> outputs \in SUBSET Streams
      BY DEF TypeOK
  <2>1. ASSUME NEW s \in Streams, Open(s) PROVE Sound(routing', outputs')
    <3> DEFINE opened == [routing EXCEPT !.to[s] = IF Legacy THEN DefaultDevice ELSE NoPort]
    <3>1. routing' \in RoutedIf(TRUE, opened, DefaultDevice, outputs')
          /\ outputs' = outputs \cup {s} /\ outputs' \in SUBSET Streams
        BY <2>1 DEF Open
    <3>2. CASE Primary \in outputs'
      <4> HIDE DEF opened
      <4> QED BY <3>1, <3>2, RoutedSound, RoutingAssumption
    <3>3. CASE Primary \notin outputs'
      <4>1. routing' = opened
          BY <3>1, <3>3 DEF RoutedIf
      <4>2. /\ opened.to = [routing.to EXCEPT ![s] = NoPort]
            /\ opened.port = routing.port /\ opened.bt = routing.bt
          BY DEF TypeOK
      <4> HIDE DEF opened
      <4>3. /\ routing'.to[s] = NoPort
            /\ \A t \in Streams \ {s} : routing'.to[t] = routing.to[t]
            /\ routing'.port = routing.port
          BY <4>1, <4>2 DEF TypeOK
      <4>4. Primary \notin outputs'
          BY <3>3
      <4> QED BY <3>1, <4>3, <4>4 DEF Sound
    <3> QED BY <3>2, <3>3
  <2>2. ASSUME NEW s \in Streams, Close(s) PROVE Sound(routing', outputs')
    <3>1. /\ outputs' = outputs \ {s}
          /\ routing'.to = [routing.to EXCEPT ![s] = NoPort]
          /\ routing'.port = [routing.port EXCEPT ![s] = NoPort]
          /\ routing'.bt = routing.bt
        BY <2>2 DEF Close, Forgotten, TypeOK
    <3> QED BY <3>1 DEF Sound, TypeOK
  <2>3. ASSUME NEW d \in Devices, SetRoute(d) PROVE Sound(routing', outputs')
      BY <2>3, RoutedSound DEF SetRoute
  <2>4. ASSUME NEW m \in Modes, SetMode(m) PROVE Sound(routing', outputs')
    <3> DEFINE starts == m = "IN_CALL" /\ mode # m
    <3>1. PICK ok \in Outcomes,
               early \in RoutedIf(starts /\ SpeakerBeforeVoice, routing, Speaker, outputs) :
             /\ routing' \in RoutedIf(starts /\ ok, early, Earpiece, outputs)
             /\ UNCHANGED outputs
        BY <2>4, Zenon DEF SetMode
    <3> HIDE DEF starts
    <3>2. Sound(early, outputs)
        BY <3>1, RoutedSound
    <3> QED BY <3>1, <3>2, RoutedSound
  <2>5. CASE UNCHANGED vars
      BY <2>5 DEF vars, Sound
  <2> QED BY <2>1, <2>2, <2>3, <2>4, <2>5 DEF Next
<1> QED BY <1>1, <1>2, TypeCorrect, PTL DEF Spec

(* With audio patches no two streams ever play to different devices.       *)
THEOREM OneDeviceCorrect == ASSUME ~Legacy PROVE Spec => []OneDevice
<1>1. Sound(routing, outputs) => OneDevice
    BY DEF Sound, OneDevice, Playing
<1> QED BY <1>1, RoutingSound, PTL

(* With audio patches the HAL's BT_SCO parameter is that of the route.     *)
THEOREM BtScoCorrect == ASSUME ~Legacy PROVE Spec => []BtScoFollowsRoute
<1>1. Sound(routing, outputs) => BtScoFollowsRoute
    BY DEF Sound, BtScoFollowsRoute, Playing
<1> QED BY <1>1, RoutingSound, PTL

(* A patch handle always comes with the port it was made for.              *)
THEOREM PatchHasPortCorrect == ASSUME ~Legacy PROVE Spec => []PatchHasPort
<1>1. Sound(routing, outputs) => PatchHasPort
    BY DEF Sound, PatchHasPort
<1> QED BY <1>1, RoutingSound, PTL

=============================================================================
