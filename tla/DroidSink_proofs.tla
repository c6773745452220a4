-------------------------- MODULE DroidSink_proofs --------------------------
(***************************************************************************)
(* Theorems of DroidSink, for any streams, devices and volumes, and with   *)
(* no bound on how often streams and calls come and go.                    *)
(***************************************************************************)
EXTENDS DroidSink, SequenceTheorems, TLAPS

(* The fields of a route hold each other up; the stack needs its type for  *)
(* a removal to leave a list.                                              *)
IInv ==
    /\ TypeOK
    /\ StackHasOverride
    /\ RouteIsChosen
    /\ VirtualInCall

(* Removing one device from the list leaves a list.                        *)
LEMMA RemoveAtType ==
    ASSUME NEW S, NEW s \in Seq(S), NEW k \in 1..Len(s)
    PROVE  RemoveAt(s, k) \in Seq(S)
<1>1. SubSeq(s, 1, k - 1) \in Seq(S)
    BY SubSeqProperties
<1>2. SubSeq(s, k + 1, Len(s)) \in Seq(S)
    BY SubSeqProperties
<1> QED BY <1>1, <1>2, ConcatProperties DEF RemoveAt

-----------------------------------------------------------------------------
(* What the parts of an action do to the routing fields.                   *)

LEMMA DoRoutingOK ==
    ASSUME IInv, NEW p \in Devices, port' = p, DoRouting(p)
    PROVE  /\ override' \in Devices \cup {NoPort} /\ route' \in Devices
           /\ stack' \in Seq(Devices) /\ routedBy' \in {"sink", "mode", "output"}
           /\ StackHasOverride' /\ RouteIsChosen'
<1>1. /\ override' = IF Cleared THEN NoPort ELSE override
      /\ stack' = IF Cleared THEN <<>> ELSE stack
      /\ route' = IF override' # NoPort THEN override' ELSE p
      /\ routedBy' = "sink"
    BY DEF DoRouting
<1>2. override' \in Devices \cup {NoPort}
    BY <1>1 DEF IInv, TypeOK
<1>3. stack' \in Seq(Devices)
    BY <1>1, EmptySeq DEF IInv, TypeOK
<1>4. StackHasOverride'
    BY <1>1 DEF IInv, StackHasOverride
<1>5. RouteIsChosen'
    BY <1>1, SinkAssumption DEF RouteIsChosen
<1> QED BY <1>1, <1>2, <1>3, <1>4, <1>5

LEMMA AddExtraOK ==
    ASSUME IInv, NEW d \in Devices, port' = port, parked' = parked, AddExtra(d)
    PROVE  /\ override' \in Devices \cup {NoPort} /\ route' \in Devices
           /\ stack' \in Seq(Devices) /\ routedBy' \in {"sink", "mode", "output"}
           /\ StackHasOverride' /\ RouteIsChosen'
<1>1. stack' \in Seq(Devices)
    BY AppendProperties DEF AddExtra, IInv, TypeOK
<1>2. CASE stack # <<>> /\ Last(stack) = d
    BY <1>1, <1>2 DEF AddExtra, IInv, TypeOK, StackHasOverride, RouteIsChosen
<1>3. CASE ~(stack # <<>> /\ Last(stack) = d)
    BY <1>1, <1>3, SinkAssumption DEF AddExtra, StackHasOverride, RouteIsChosen
<1> QED BY <1>2, <1>3

LEMMA RemoveExtraOK ==
    ASSUME IInv, NEW d \in Devices, port' = port, parked' = parked, port # NoPort,
           RemoveExtra(d)
    PROVE  /\ override' \in Devices \cup {NoPort} /\ route' \in Devices
           /\ stack' \in Seq(Devices) /\ routedBy' \in {"sink", "mode", "output"}
           /\ StackHasOverride' /\ RouteIsChosen'
<1>1. CASE UNCHANGED routes
    BY <1>1 DEF routes, IInv, TypeOK, StackHasOverride, RouteIsChosen
<1>2. ASSUME NEW k \in 1..Len(stack),
             stack' = RemoveAt(stack, k), override' = override,
             IF k # Len(stack)
               THEN UNCHANGED <<route, routedBy>>
               ELSE /\ route' = IF override # NoPort THEN override ELSE port
                    /\ routedBy' = "sink"
      PROVE  /\ override' \in Devices \cup {NoPort} /\ route' \in Devices
             /\ stack' \in Seq(Devices) /\ routedBy' \in {"sink", "mode", "output"}
             /\ StackHasOverride' /\ RouteIsChosen'
  <2>1. stack' \in Seq(Devices)
      BY <1>2, RemoveAtType DEF IInv, TypeOK
  <2>2. /\ override' \in Devices \cup {NoPort} /\ route' \in Devices
        /\ routedBy' \in {"sink", "mode", "output"}
      BY <1>2 DEF IInv, TypeOK
  <2>3. override # NoPort
      BY <1>2 DEF IInv, TypeOK, StackHasOverride
  <2>4. StackHasOverride'
      BY <1>2, <2>3 DEF StackHasOverride
  <2>5. RouteIsChosen'
      BY <1>2, <2>3 DEF IInv, RouteIsChosen
  <2> QED BY <2>1, <2>2, <2>4, <2>5
<1> QED BY <1>1, <1>2 DEF RemoveExtra

LEMMA RoutesKept ==
    ASSUME IInv, port' = port, parked => parked', UNCHANGED routes
    PROVE  /\ override' \in Devices \cup {NoPort} /\ route' \in Devices
           /\ stack' \in Seq(Devices) /\ routedBy' \in {"sink", "mode", "output"}
           /\ StackHasOverride' /\ RouteIsChosen'
BY DEF routes, IInv, TypeOK, StackHasOverride, RouteIsChosen

LEMMA CallRouteOK ==
    ASSUME IInv, NEW d \in CallRoutes, ParkAndSetMode(d), port' = port,
           override' = override, stack' = stack
    PROVE  /\ override' \in Devices \cup {NoPort} /\ route' \in Devices /\ parked'
           /\ stack' \in Seq(Devices) /\ routedBy' \in {"sink", "mode", "output"}
           /\ StackHasOverride' /\ RouteIsChosen'
<1>1. parked'
    BY DEF ParkAndSetMode
<1>2. CASE d = NoPort
  <2>1. route' = route /\ routedBy' = routedBy
      BY <1>2 DEF ParkAndSetMode, StartCall
  <2> QED BY <1>1, <2>1 DEF IInv, TypeOK, StackHasOverride, RouteIsChosen
<1>3. CASE d # NoPort
  <2>1. route' \in Devices /\ routedBy' = "mode"
      BY <1>3 DEF ParkAndSetMode, StartCall, CallRoutes
  <2> QED BY <1>1, <2>1 DEF IInv, TypeOK, StackHasOverride, RouteIsChosen
<1> QED BY <1>2, <1>3

-----------------------------------------------------------------------------
(* The fields that say where the sink plays and what its volume controls   *)
(* stay consistent.                                                        *)
THEOREM SinkInvariant == Spec => []IInv
<1>1. Init => IInv
    BY SinkAssumption, EmptySeq DEF Init, IInv, TypeOK, StackHasOverride, RouteIsChosen,
       VirtualInCall, Connected
<1>2. IInv /\ [Next]_vars => IInv'
  <2> SUFFICES ASSUME IInv, [Next]_vars PROVE IInv'
      OBVIOUS
  <2> USE DEF Connected
  <2>1. ASSUME NEW p \in Devices, SetPort(p) PROVE IInv'
      BY <2>1, DoRoutingOK DEF SetPort, IInv, TypeOK, VirtualInCall
  <2>10. CASE Park
      BY <2>10, RoutesKept DEF Park, IInv, TypeOK, VirtualInCall
  <2>11. CASE OpenOutput
    <3>1. RouteIsChosen' /\ StackHasOverride'
        BY <2>11 DEF OpenOutput, IInv, StackHasOverride, RouteIsChosen
    <3> QED BY <2>11, <3>1, SinkAssumption DEF OpenOutput, IInv, TypeOK, VirtualInCall
  <2>2. ASSUME NEW i \in Streams, Put(i) PROVE IInv'
    <3>1. /\ override' \in Devices \cup {NoPort} /\ route' \in Devices
          /\ stack' \in Seq(Devices) /\ routedBy' \in {"sink", "mode", "output"}
          /\ StackHasOverride' /\ RouteIsChosen'
        BY <2>2, AddExtraOK, RoutesKept DEF Put
    <3>2. /\ here' \subseteq Streams /\ away' \subseteq Streams
          /\ Virtual \in here' \cup away' => Virtual \in here \cup away
        BY <2>2, SinkAssumption DEF Put, IInv, TypeOK, Streams
    <3>3. voiceLevel' \in Levels \cup {NoLevel}
        BY <2>2 DEF Put, IInv, TypeOK
    <3> QED BY <2>2, <3>1, <3>2, <3>3 DEF Put, IInv, TypeOK, VirtualInCall
  <2>3. ASSUME NEW i \in Streams, Unlink(i) PROVE IInv'
    <3>1. CASE Asks(i) /\ RouteOf[i] \in Devices /\ port # NoPort
        BY <2>3, <3>1, RemoveExtraOK DEF Unlink, IInv, TypeOK, VirtualInCall
    <3>2. CASE ~(Asks(i) /\ RouteOf[i] \in Devices)
        BY <2>3, <3>2, RoutesKept DEF Unlink, IInv, TypeOK, VirtualInCall
    <3> QED BY <2>3, <3>1, <3>2 DEF Unlink
  <2>4. ASSUME NEW i \in Streams, Move(i) PROVE IInv'
      BY <2>4, RoutesKept DEF Move, IInv, TypeOK, VirtualInCall
  <2>5. ASSUME NEW i \in Streams, Abort(i) PROVE IInv'
      BY <2>5, RoutesKept DEF Abort, IInv, TypeOK, VirtualInCall
  <2>6. ASSUME NEW i \in Streams, NEW l \in Levels, ChangeVolume(i, l) PROVE IInv'
      BY <2>6, RoutesKept DEF ChangeVolume, IInv, TypeOK, VirtualInCall
  <2>7. CASE StartVoice
    <3>1. PICK created \in IF VirtualStream /\ Virtual \notin Connected
                             THEN {{}, {Virtual}} ELSE {{}} :
            /\ \/ here' = here \cup created /\ UNCHANGED away
               \/ away' = away \cup created /\ UNCHANGED here
            /\ voiceLevel' \in
                 IF here' \cap Phone = {} /\ created \cap Phone # {}
                   THEN {volume[Virtual]} ELSE LevelAtStart(here')
        BY <2>7 DEF StartVoice
    <3>2. created \subseteq Streams
        BY DEF Streams
    <3>3. here' \subseteq Streams /\ away' \subseteq Streams
        BY <3>1, <3>2 DEF IInv, TypeOK
    <3>4. voiceLevel' \in Levels \cup {NoLevel}
        BY <3>1, <3>3 DEF IInv, TypeOK, LevelAtStart, Streams
    <3>5. PICK d \in CallRoutes : ParkAndSetMode(d)
        BY <2>7 DEF StartVoice
    <3>6. /\ override' \in Devices \cup {NoPort} /\ route' \in Devices /\ parked'
          /\ stack' \in Seq(Devices) /\ routedBy' \in {"sink", "mode", "output"}
          /\ StackHasOverride' /\ RouteIsChosen'
        BY <2>7, <3>5, CallRouteOK DEF StartVoice
    <3> QED BY <2>7, <3>3, <3>4, <3>5, <3>6
            DEF StartVoice, ParkAndSetMode, IInv, TypeOK, VirtualInCall
  <2>8. CASE StopVoice
      BY <2>8, RoutesKept DEF StopVoice, StoppedStreams, IInv, TypeOK, VirtualInCall
  <2>9. CASE UNCHANGED vars
      BY <2>9, RoutesKept DEF vars, IInv, TypeOK, VirtualInCall
  <2> QED BY <2>1, <2>2, <2>3, <2>4, <2>5, <2>6, <2>7, <2>8, <2>9, <2>10, <2>11 DEF Next
<1> QED BY <1>1, <1>2, PTL DEF Spec

(* Every variable keeps to its type.                                       *)
THEOREM TypeCorrect == Spec => []TypeOK
<1>1. IInv => TypeOK
    BY DEF IInv
<1> QED BY <1>1, SinkInvariant, PTL

(* The extra devices never outlive the override that do_routing() looks at. *)
THEOREM StackCorrect == Spec => []StackHasOverride
<1>1. IInv => StackHasOverride
    BY DEF IInv
<1> QED BY <1>1, SinkInvariant, PTL

(* The HAL plays to the device the sink's fields choose, or a call or an   *)
(* output routed last: then a port asked for routes again, or the device   *)
(* is the default one.                                                     *)
THEOREM RouteCorrect == Spec => []RouteIsChosen
<1>1. IInv => RouteIsChosen
    BY DEF IInv
<1> QED BY <1>1, SinkInvariant, PTL

(* The virtual stream exists in calls only.                                *)
THEOREM VirtualCorrect == Spec => []VirtualInCall
<1>1. IInv => VirtualInCall
    BY DEF IInv
<1> QED BY <1>1, SinkInvariant, PTL

(* In a call routing goes to the active port: hooks leave it alone, and a  *)
(* port change drops the override first.  Only an output opened meanwhile  *)
(* takes the stream away.                                                  *)
THEOREM CallUsesPortCorrect == Spec => CallUsesPort
<1> DEFINE ToPort == route' = port' \/ (port' = port /\ routedBy' = "output")
<1>1. [Next]_vars => [voice /\ (port' # port \/ route' # route) => ToPort]_vars
  <2> SUFFICES ASSUME Next, voice, port' # port \/ route' # route
               PROVE  ToPort
      BY DEF vars
  <2> USE DEF routes
  <2>1. ASSUME NEW p \in Devices, SetPort(p) PROVE ToPort
    <3>1. override' = NoPort
        BY <2>1 DEF SetPort, DoRouting, Cleared
    <3> QED BY <2>1, <3>1 DEF SetPort, DoRouting
  <2>2. ASSUME NEW i \in Streams, Put(i) PROVE FALSE
      BY <2>2 DEF Put, Asks
  <2>3. ASSUME NEW i \in Streams, Unlink(i) PROVE FALSE
      BY <2>3 DEF Unlink, Asks
  <2>4. ASSUME NEW i \in Streams, Move(i) \/ Abort(i) PROVE FALSE
      BY <2>4 DEF Move, Abort
  <2>5. ASSUME NEW i \in Streams, NEW l \in Levels, ChangeVolume(i, l) PROVE FALSE
      BY <2>5 DEF ChangeVolume
  <2>6. StartVoice \/ StopVoice \/ Park => FALSE
      BY DEF StartVoice, StopVoice, Park
  <2>7. OpenOutput => ToPort
      BY DEF OpenOutput
  <2> QED BY <2>1, <2>2, <2>3, <2>4, <2>5, <2>6, <2>7 DEF Next
<1> QED BY <1>1, PTL DEF Spec, CallUsesPort

(* No path gives the HAL a voice volume outside of a call, or one that is  *)
(* not the volume of a connected voice control stream.                     *)
THEOREM VoiceLevelFromPhoneCorrect == Spec => VoiceLevelFromPhone
<1> DEFINE FromPhone == voice' /\ \E i \in Phone : i \in here' \cup away' /\ voiceLevel' = volume'[i]
<1>1. TypeOK /\ [Next]_vars => [voiceLevel' # voiceLevel /\ voiceLevel' # NoLevel => FromPhone]_vars
  <2> SUFFICES ASSUME TypeOK, Next, voiceLevel' # voiceLevel, voiceLevel' # NoLevel
               PROVE  FromPhone
    OBVIOUS
  <2>1. ASSUME NEW i \in Streams, Put(i) PROVE FromPhone
    <3>1. i \in here' \cup away' /\ volume' = volume /\ voice' = voice /\ Heard(i) /\ voiceLevel' = volume[i]
      BY <2>1 DEF Put
    <3> QED BY <3>1 DEF Heard
  <2>2. ASSUME NEW i \in Streams, NEW l \in Levels, ChangeVolume(i, l) PROVE FromPhone
    <3>1. /\ i \in here' \cup away' /\ volume'[i] = l /\ voice' = voice
          /\ Heard(i) /\ voiceLevel' = l
      BY <2>2 DEF ChangeVolume, Connected, TypeOK
    <3> QED BY <3>1 DEF Heard
  <2>3. ASSUME StartVoice PROVE FromPhone
    <3>1. voice' /\ volume' = volume
      BY <2>3 DEF StartVoice
    <3>2. PICK created \in {{}, {Virtual}} :
             /\ created \subseteq here' \cup away'
             /\ voiceLevel' \in IF here' \cap Phone = {} /\ created \cap Phone # {}
                                  THEN {volume[Virtual]} ELSE LevelAtStart(here')
      BY <2>3 DEF StartVoice
    <3>3. CASE here' \cap Phone = {} /\ created \cap Phone # {}
      BY <3>1, <3>2, <3>3
    <3>4. CASE ~(here' \cap Phone = {} /\ created \cap Phone # {})
      <4>1. PICK i \in here' \cap Phone : voiceLevel' = volume[i]
        BY <3>2, <3>4 DEF LevelAtStart
      <4> QED BY <3>1, <4>1
    <3> QED BY <3>3, <3>4
  <2>4. ASSUME NEW i \in Streams, Unlink(i) \/ Move(i) \/ Abort(i) PROVE FALSE
    BY <2>4 DEF Unlink, Move, Abort
  <2>5. ASSUME NEW p \in Devices, SetPort(p) PROVE FALSE
    BY <2>5 DEF SetPort
  <2>6. StopVoice \/ Park \/ OpenOutput => FALSE
    BY DEF StopVoice, Park, OpenOutput
  <2> QED BY <2>1, <2>2, <2>3, <2>4, <2>5, <2>6 DEF Next
<1> QED BY <1>1, TypeCorrect, PTL DEF Spec, VoiceLevelFromPhone

(* A call has a voice volume if a voice control stream connected to the    *)
(* sink before or during the call and stayed.                              *)
THEOREM VoiceLevelCorrect == Spec => []VoiceLevelSet
<1>1. Init => VoiceLevelSet
    BY DEF Init, VoiceLevelSet
<1>2. TypeOK /\ VoiceLevelSet /\ [Next]_vars => VoiceLevelSet'
  <2> SUFFICES ASSUME TypeOK, VoiceLevelSet, [Next]_vars PROVE VoiceLevelSet'
      OBVIOUS
  <2>1. ASSUME NEW p \in Devices, SetPort(p) PROVE VoiceLevelSet'
      BY <2>1 DEF SetPort, VoiceLevelSet
  <2>2. ASSUME NEW i \in Streams, Put(i) PROVE VoiceLevelSet'
    <3>1. voice' = voice /\ here' \subseteq here \cup {i} /\ moved' = moved
          /\ voiceLevel' = IF Heard(i) THEN volume[i] ELSE voiceLevel
        BY <2>2 DEF Put
    <3>2. volume[i] # NoLevel
        BY SinkAssumption DEF TypeOK
    <3> QED BY <3>1, <3>2 DEF VoiceLevelSet, Heard
  <2>3. ASSUME NEW i \in Streams, Unlink(i) PROVE VoiceLevelSet'
      BY <2>3 DEF Unlink, VoiceLevelSet
  <2>4. ASSUME NEW i \in Streams, Move(i) \/ Abort(i) PROVE VoiceLevelSet'
      BY <2>4 DEF Move, Abort, VoiceLevelSet
  <2>5. ASSUME NEW i \in Streams, NEW l \in Levels, ChangeVolume(i, l) PROVE VoiceLevelSet'
      BY <2>5, SinkAssumption DEF ChangeVolume, VoiceLevelSet, Heard
  <2>6. CASE StartVoice
    <3>1. PICK created \in IF VirtualStream /\ Virtual \notin Connected
                             THEN {{}, {Virtual}} ELSE {{}} :
            /\ \/ here' = here \cup created /\ UNCHANGED away
               \/ away' = away \cup created /\ UNCHANGED here
            /\ voiceLevel' \in
                 IF here' \cap Phone = {} /\ created \cap Phone # {}
                   THEN {volume[Virtual]} ELSE LevelAtStart(here')
        BY <2>6 DEF StartVoice
    <3>2. here' \subseteq Streams
        BY <3>1 DEF TypeOK, Streams
    <3>3. ASSUME here' \cap Phone # {} PROVE voiceLevel' \in Levels
        BY <3>1, <3>2, <3>3 DEF LevelAtStart, TypeOK
    <3> QED BY <3>3, SinkAssumption DEF VoiceLevelSet
  <2>7. CASE StopVoice \/ Park \/ OpenOutput
      BY <2>7 DEF StopVoice, Park, OpenOutput, VoiceLevelSet
  <2>8. CASE UNCHANGED vars
      BY <2>8 DEF vars, VoiceLevelSet
  <2> QED BY <2>1, <2>2, <2>3, <2>4, <2>5, <2>6, <2>7, <2>8 DEF Next
<1> QED BY <1>1, <1>2, TypeCorrect, PTL DEF Spec

=============================================================================
