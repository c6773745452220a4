-------------------------- MODULE DroidCard_proofs --------------------------
(***************************************************************************)
(* The profile machine keeps its bookkeeping right for every set of        *)
(* virtual profiles that satisfies ProfilesAssumption.                     *)
(***************************************************************************)
EXTENDS DroidCard, TLAPS

(* Before pa__init() and after pa__done() nothing is left of the card.     *)
ClosedWhenUnloaded ==
    ~loaded => /\ active = "off" /\ mode = "NORMAL" /\ ~refused
               /\ sinks = {} /\ sources = {}

(* EnabledIsLineage and the others hold each other up: a callback runs     *)
(* only when an enabled flag changes, so voice control is right only if    *)
(* the flags are, and they are only if the sinks of the session exist.     *)
IInv ==
    /\ TypeOK
    /\ ClosedWhenUnloaded
    /\ EnabledIsLineage
    /\ RealProfileKnown
    /\ VoiceControlInCall
    /\ SinksOfProfile
    /\ ModeOfProfile

-----------------------------------------------------------------------------
(* Small facts about the constants.                                        *)

LEMMA ModeTypes ==
    /\ \A p \in Profiles : ModeOf(p) \in Modes
    /\ \A p \in VirtualProfiles : ModeOf(p) # "NORMAL"
    /\ \A p \in RealProfiles : ModeOf(p) = "NORMAL"
BY ProfilesAssumption DEF ModeOf, Profiles, Modes, RealProfiles

LEMMA OpenedSubset ==
    ASSUME NEW W, NEW made \in Opened(W)
    PROVE  made \subseteq W
BY DEF Opened

LEMMA OutcomeTypes == Outcomes \subseteq BOOLEAN
BY DEF Outcomes

(* Walking up from the active profile and down to p turns the lineage of   *)
(* one into the lineage of the other.                                      *)
LEMMA LineageSteps ==
    ASSUME EnabledIsLineage, active \in Profiles, NEW p \in VirtualProfiles, p # active
    PROVE  LET off == DisabledFor(p) \cap enabled
               on  == EnabledFor(p) \ (enabled \ off)
           IN  /\ (enabled \ off) \cup on = Lineage(p)
               /\ off = Lineage(active) \ Lineage(p)
               /\ on = Lineage(p) \ Lineage(active)
<1>1. CASE active \notin VirtualProfiles
  BY <1>1, ProfilesAssumption DEF EnabledIsLineage, Lineage, DisabledFor, EnabledFor, Profiles
<1>2. CASE active \in VirtualProfiles /\ active = Parent[p]
  BY <1>2, ProfilesAssumption DEF EnabledIsLineage, Lineage, DisabledFor, EnabledFor, Profiles
<1>3. CASE active \in VirtualProfiles /\ active # Parent[p]
  BY <1>3, ProfilesAssumption DEF EnabledIsLineage, Lineage, DisabledFor, EnabledFor, Profiles
<1> QED BY <1>1, <1>2, <1>3

-----------------------------------------------------------------------------
(* Helpers of the actions.                                                 *)

LEMMA RouteOnOpenType ==
    ASSUME NEW made, NEW initial \in InitialPorts, NEW old \in DevicePorts \cup {NoPort}
    PROVE  RouteOnOpen(made, initial, old) \in DevicePorts \cup {NoPort}
BY OutputsAssumption DEF RouteOnOpen, InitialPorts

LEMMA RouteOnVoipType ==
    ASSUME NEW made, Primary \notin made, NEW initial, NEW old \in DevicePorts \cup {NoPort}
    PROVE  RouteOnOpen(made, initial, old) \in DevicePorts \cup {NoPort}
BY OutputsAssumption DEF RouteOnOpen

LEMMA RouteOnSetModeType ==
    ASSUME TypeOK, NEW m, NEW ok
    PROVE  RouteOnSetMode(m, ok) \in DevicePorts \cup {NoPort}
BY DEF RouteOnSetMode, TypeOK

LEMMA VoipIsNotPrimary == Primary \in Outputs => VoipRx # Primary
BY OutputsAssumption

LEMMA VoipWantedType ==
    ASSUME NEW on
    PROVE  VoipWanted(on) \subseteq Outputs \cap {VoipRx}
BY DEF VoipWanted

(* The voice callback follows the voicecall flag.                          *)
LEMMA VoiceFollowsLineage ==
    ASSUME TypeOK, VoiceControlInCall, NEW p \in Profiles, NEW off, NEW on,
           off = Lineage(active) \ Lineage(p), on = Lineage(p) \ Lineage(active),
           active \in VirtualProfiles /\ Primary \in Outputs => Primary \in sinks,
           p \in VirtualProfiles /\ Primary \in Outputs => Primary \in sinks,
           VoiceCallback(off, on)
    PROVE  /\ voiceControl' <=> VoiceCall \in Lineage(p) /\ Primary \in sinks
           /\ realcall' <=> RealCall /\ voiceControl'
           /\ voiceControl' \in BOOLEAN /\ realcall' \in BOOLEAN
<1>1. /\ RealCall \in BOOLEAN /\ voiceControl \in BOOLEAN /\ realcall \in BOOLEAN
      /\ sinks \subseteq Outputs
  BY OutputsAssumption DEF TypeOK
<1>2. CASE VoiceCall \in on
  <2>1. p \in VirtualProfiles
    BY <1>2 DEF Lineage
  <2>2. Primary \in sinks <=> Primary \in Outputs
    BY <1>1, <2>1
  <2>3. /\ voiceControl' = (Primary \in sinks)
        /\ realcall' = IF RealCall /\ Primary \in Outputs THEN TRUE ELSE realcall
    BY <1>2 DEF VoiceCallback
  <2>4. ~voiceControl /\ ~realcall
    BY <1>2 DEF VoiceControlInCall
  <2>5. VoiceCall \in Lineage(p)
    BY <1>2
  <2>6. CASE RealCall /\ Primary \in Outputs
    <3>1. voiceControl' = TRUE /\ realcall' = TRUE
      BY <2>2, <2>3, <2>6
    <3> QED BY <2>2, <2>5, <2>6, <3>1
  <2>7. CASE Primary \notin Outputs
    <3>1. voiceControl' = FALSE /\ realcall' = FALSE
      BY <1>1, <2>2, <2>3, <2>4, <2>7
    <3> QED BY <2>2, <2>7, <3>1
  <2>8. CASE ~RealCall /\ Primary \in Outputs
    <3>1. voiceControl' = TRUE /\ realcall' = FALSE
      BY <1>1, <2>2, <2>3, <2>4, <2>8
    <3> QED BY <2>2, <2>5, <2>8, <3>1
  <2> QED BY <2>6, <2>7, <2>8
<1>3. CASE VoiceCall \notin on /\ VoiceCall \in off
  <2>1. active \in VirtualProfiles
    BY <1>3 DEF Lineage
  <2>2. Primary \in sinks <=> Primary \in Outputs
    BY <1>1, <2>1
  <2>3. /\ voiceControl' = FALSE
        /\ realcall' = IF RealCall /\ Primary \in Outputs THEN FALSE ELSE realcall
    <3>1. voiceControl' = (voiceControl /\ VoiceCall \notin off)
      BY <1>3 DEF VoiceCallback
    <3>2. realcall' = IF RealCall /\ Primary \in Outputs THEN VoiceCall \in on ELSE realcall
      BY <1>3 DEF VoiceCallback
    <3>3. (VoiceCall \in on) = FALSE /\ (VoiceCall \notin off) = FALSE
      BY <1>3
    <3> QED BY <1>1, <3>1, <3>2, <3>3
  <2>4. VoiceCall \notin Lineage(p)
    BY <1>3
  <2>5. CASE RealCall /\ Primary \in Outputs
    <3>1. realcall' = FALSE
      BY <2>3, <2>5
    <3> QED BY <2>3, <2>4, <3>1
  <2>6. CASE ~(RealCall /\ Primary \in Outputs)
    <3>1. ~realcall
      BY <1>1, <2>2, <2>6 DEF VoiceControlInCall
    <3>2. realcall' = FALSE
      BY <1>1, <2>3, <2>6, <3>1
    <3> QED BY <2>3, <2>4, <3>2
  <2> QED BY <2>5, <2>6
<1>4. CASE VoiceCall \notin on /\ VoiceCall \notin off
  <2>1. voiceControl' = voiceControl /\ realcall' = realcall
    BY <1>1, <1>4 DEF VoiceCallback
  <2> QED BY <1>1, <1>4, <2>1 DEF VoiceControlInCall
<1> QED BY <1>2, <1>3, <1>4

-----------------------------------------------------------------------------
(* The actions preserve IInv.                                              *)

LEMMA InitInv == Init => IInv
<1> SUFFICES ASSUME Init PROVE IInv
  OBVIOUS
<1>1. TypeOK
  BY DEF Init, TypeOK, Profiles, RealProfiles, Modes
<1>2. Lineage(active) = {} /\ ModeOf(active) = "NORMAL"
  BY ProfilesAssumption DEF Init, Lineage, ModeOf, RealProfiles
<1>3. active \notin VirtualProfiles
  BY ProfilesAssumption DEF Init, RealProfiles
<1>4. ~voiceControl /\ ~realcall /\ sinks = {} /\ VoiceCall \notin Lineage(active)
  BY <1>2 DEF Init
<1>5. VoiceControlInCall
  BY <1>4 DEF VoiceControlInCall
<1> QED
  BY <1>1, <1>2, <1>3, <1>5
  DEF Init, IInv, ClosedWhenUnloaded, EnabledIsLineage, RealProfileKnown, SinksOfProfile, ModeOfProfile

(* Where a real profile becomes active all sinks are gone or were opened   *)
(* for it, and no virtual profile is left enabled.                         *)
LEMMA RealProfileFacts ==
    ASSUME NEW p \in RealProfiles
    PROVE  p \notin VirtualProfiles /\ Lineage(p) = {} /\ ModeOf(p) = "NORMAL"
BY ProfilesAssumption DEF Lineage, ModeOf

LEMMA SwitchSinksType ==
    ASSUME TypeOK, NEW p \in RealProfiles, SwitchSinks(p)
    PROVE  /\ sinks' \subseteq EnabledOutputs /\ sinks' \subseteq Outputs
           /\ p = "off" => sinks' = {}
           /\ sources' \subseteq EnabledInputs
           /\ port' \in DevicePorts \cup {Parking, NoPort}
           /\ route' \in DevicePorts \cup {NoPort}
           /\ displaced' \in BOOLEAN
<1>1. PICK made \in Opened(EnabledOutputs \cap OutputsOf(p)),
          opened \in Opened(InputsOf(p) \ sources), initial \in InitialPorts :
        /\ sinks' = made
        /\ sources' = sources \cup opened
        /\ port' = NewPort(made, initial)
        /\ route' = IF Primary \in made THEN RouteOnOpen(made, initial, NoPort) ELSE NoPort
        /\ displaced' = Displaces(made)
  BY DEF SwitchSinks
<1>2. made \subseteq EnabledOutputs \cap OutputsOf(p) /\ opened \subseteq InputsOf(p) \ sources
  BY OpenedSubset
<1>3. OutputsOf(p) \subseteq Outputs /\ InputsOf(p) \subseteq EnabledInputs
  BY DEF OutputsOf, InputsOf
<1>4. p = "off" => OutputsOf(p) = {}
  BY DEF OutputsOf
<1>5. RouteOnOpen(made, initial, NoPort) \in DevicePorts \cup {NoPort}
  BY RouteOnOpenType
<1>6. port' \in DevicePorts \cup {Parking, NoPort}
  BY <1>1 DEF NewPort, InitialPorts
<1>7. displaced' \in BOOLEAN
  BY <1>1 DEF Displaces
<1> QED BY <1>1, <1>2, <1>3, <1>4, <1>5, <1>6, <1>7 DEF TypeOK

LEMMA LoadInv ==
    ASSUME IInv, NEW p \in RealProfiles, Load(p)
    PROVE  IInv'
<1>1. PICK made \in Opened(EnabledOutputs \cap OutputsOf(p)),
          opened \in Opened(InputsOf(p)), initial \in InitialPorts :
          /\ sinks' = made /\ sources' = opened
          /\ port' = NewPort(made, initial)
          /\ route' = RouteOnOpen(made, initial, NoPort)
          /\ displaced' = Displaces(made)
  BY DEF Load
<1>2. /\ loaded' = TRUE /\ active' = p
      /\ UNCHANGED <<aborted, realProfile, enabled, mode, refused, voiceControl, realcall>>
  BY DEF Load
<1>3. active = "off" /\ mode = "NORMAL"
  BY DEF Load, IInv, ClosedWhenUnloaded
<1>4. enabled = {} /\ realProfile = NoProfile /\ ~voiceControl /\ ~realcall
  BY <1>3, RealProfileFacts
  DEF IInv, EnabledIsLineage, RealProfileKnown, VoiceControlInCall, RealProfiles
<1>5. made \subseteq EnabledOutputs \cap OutputsOf(p) /\ opened \subseteq InputsOf(p)
  BY OpenedSubset
<1>6. /\ sinks' \subseteq EnabledOutputs /\ sinks' \subseteq Outputs
      /\ p = "off" => sinks' = {}
      /\ sources' \subseteq EnabledInputs
  BY <1>1, <1>5 DEF OutputsOf, InputsOf
<1>7. /\ port' \in DevicePorts \cup {Parking, NoPort} /\ route' \in DevicePorts \cup {NoPort}
      /\ displaced' \in BOOLEAN
  BY <1>1, RouteOnOpenType DEF NewPort, InitialPorts, Displaces
<1>8. TypeOK'
  BY <1>2, <1>6, <1>7 DEF IInv, TypeOK, Profiles
<1>9. VoiceCall \notin Lineage(p) /\ ~voiceControl' /\ ~realcall'
  BY <1>2, <1>4, RealProfileFacts
<1>10. VoiceControlInCall'
  BY <1>2, <1>9 DEF VoiceControlInCall, Lineage
<1>11. SinksOfProfile'
  BY <1>2, <1>6, OutputsAssumption, RealProfileFacts DEF SinksOfProfile
<1>12. /\ EnabledIsLineage' /\ RealProfileKnown' /\ ModeOfProfile' /\ ClosedWhenUnloaded'
  BY <1>2, <1>3, <1>4, RealProfileFacts
  DEF EnabledIsLineage, Lineage, RealProfileKnown, ModeOfProfile, ModeOf, ClosedWhenUnloaded
<1> QED BY <1>8, <1>10, <1>11, <1>12 DEF IInv

LEMMA UnloadInv == ASSUME IInv, Unload PROVE IInv'
<1>1. TypeOK'
  BY DEF IInv, TypeOK, Unload, Profiles, RealProfiles, Modes
<1>2. active' = "off" /\ active' \in RealProfiles
  BY DEF Unload, RealProfiles
<1>3. /\ active' \notin VirtualProfiles /\ Lineage(active') = {} /\ ModeOf(active') = "NORMAL"
  BY <1>2, RealProfileFacts
<1>4. VoiceCall \notin Lineage(active') /\ ~voiceControl' /\ ~realcall'
  BY <1>3 DEF Unload
<1>5. VoiceControlInCall'
  BY <1>4 DEF VoiceControlInCall, Lineage
<1> QED
  BY <1>1, <1>2, <1>3, <1>5
  DEF Unload, IInv, ClosedWhenUnloaded, EnabledIsLineage, Lineage, RealProfileKnown,
      SinksOfProfile, ModeOfProfile, ModeOf

LEMMA SwitchRealProfileInv ==
    ASSUME IInv, NEW p \in RealProfiles, SwitchRealProfile(p)
    PROVE  IInv'
<1>1. /\ active \in RealProfiles /\ active' = p /\ SwitchSinks(p) /\ loaded
      /\ UNCHANGED <<loaded, aborted, realProfile, enabled, mode, refused, voiceControl, realcall>>
  BY DEF SwitchRealProfile, Running
<1>2. /\ sinks' \subseteq EnabledOutputs /\ sinks' \subseteq Outputs
      /\ p = "off" => sinks' = {}
      /\ sources' \subseteq EnabledInputs
      /\ port' \in DevicePorts \cup {Parking, NoPort}
      /\ route' \in DevicePorts \cup {NoPort}
      /\ displaced' \in BOOLEAN
  BY <1>1, SwitchSinksType DEF IInv
<1>3. enabled = {} /\ realProfile = NoProfile /\ ~voiceControl /\ ~realcall
  BY <1>1, RealProfileFacts
  DEF IInv, EnabledIsLineage, RealProfileKnown, VoiceControlInCall
<1>4. TypeOK'
  BY <1>1, <1>2 DEF IInv, TypeOK, Profiles
<1>5. VoiceControlInCall'
  <2>1. VoiceCall \notin Lineage(p) /\ ~voiceControl' /\ ~realcall'
    BY <1>1, <1>3, RealProfileFacts
  <2> QED BY <1>1, <2>1 DEF VoiceControlInCall, Lineage
<1>6. SinksOfProfile'
  BY <1>1, <1>2, OutputsAssumption, RealProfileFacts DEF SinksOfProfile
<1>7. /\ EnabledIsLineage' /\ RealProfileKnown' /\ ModeOfProfile' /\ ClosedWhenUnloaded'
  BY <1>1, <1>3, RealProfileFacts
  DEF IInv, EnabledIsLineage, Lineage, RealProfileKnown, ModeOfProfile, ModeOf, ClosedWhenUnloaded
<1> QED BY <1>4, <1>5, <1>6, <1>7 DEF IInv

LEMMA LeaveVirtualProfileInv ==
    ASSUME IInv, NEW p \in RealProfiles, LeaveVirtualProfile(p)
    PROVE  IInv'
<1> DEFINE off == {active, Parent[active]} \cap enabled
<1>1. /\ loaded /\ active \in VirtualProfiles /\ active \in Profiles
      /\ active' = p /\ realProfile' = NoProfile
      /\ UNCHANGED <<loaded, aborted>>
      /\ enabled' = enabled \ off
      /\ VoiceCallback(off, {})
  BY DEF LeaveVirtualProfile, Running, Profiles
<1>2. p \notin VirtualProfiles /\ Lineage(p) = {} /\ ModeOf(p) = "NORMAL"
  BY RealProfileFacts
<1>3. off = Lineage(active) /\ enabled = Lineage(active)
  BY <1>1, ProfilesAssumption DEF IInv, EnabledIsLineage, Lineage
<1>4. PICK ok \in Outcomes :
        /\ mode' = IF ok THEN "NORMAL" ELSE mode
        /\ refused' = ~ok
        /\ IF p = realProfile
             THEN /\ sinks' = sinks \ VoipFreed(off)
                  /\ port' = IF Primary \in sinks THEN Parking ELSE port
                  /\ displaced' = FALSE
                  /\ UNCHANGED <<route, sources>>
             ELSE SwitchSinks(p)
  BY DEF LeaveVirtualProfile
<1>5. realProfile = "default"
  BY <1>1 DEF IInv, RealProfileKnown
<1>6. /\ voiceControl' \in BOOLEAN /\ realcall' \in BOOLEAN
      /\ ~voiceControl' /\ ~realcall'
  <2>1. off = Lineage(active) \ Lineage(p) /\ {} = Lineage(p) \ Lineage(active)
    BY <1>2, <1>3
  <2>2. active \in VirtualProfiles /\ Primary \in Outputs => Primary \in sinks
    BY DEF IInv, SinksOfProfile
  <2>3. p \in Profiles
    BY DEF Profiles
  <2>4. /\ voiceControl' <=> VoiceCall \in Lineage(p) /\ Primary \in sinks
        /\ realcall' <=> RealCall /\ voiceControl'
        /\ voiceControl' \in BOOLEAN /\ realcall' \in BOOLEAN
    BY <1>1, <1>2, <2>1, <2>2, <2>3, VoiceFollowsLineage DEF IInv
  <2> QED BY <1>2, <2>4
<1>7. /\ sinks' \subseteq Outputs /\ sinks' \subseteq EnabledOutputs
      /\ p = "off" => sinks' = {}
      /\ sources' \subseteq EnabledInputs
      /\ port' \in DevicePorts \cup {Parking, NoPort}
      /\ route' \in DevicePorts \cup {NoPort}
      /\ displaced' \in BOOLEAN
  <2>1. CASE p = realProfile
    <3>1. sinks' = sinks \ VoipFreed(off) /\ UNCHANGED <<route, sources>> /\ displaced' = FALSE
          /\ port' = IF Primary \in sinks THEN Parking ELSE port
      BY <1>4, <2>1
    <3>2. VoipRx \in sinks => VoipRx \in VoipFreed(off)
      BY <1>1, <1>3, ProfilesAssumption DEF IInv, SinksOfProfile, VoipFreed, Lineage, Profiles
    <3> QED BY <1>5, <2>1, <3>1, <3>2 DEF IInv, TypeOK, SinksOfProfile, VoipFreed
  <2>2. CASE p # realProfile
    BY <1>4, <2>2, SwitchSinksType DEF IInv
  <2> QED BY <2>1, <2>2
<1>8. mode' \in Modes /\ refused' \in BOOLEAN /\ (mode' = "NORMAL" \/ refused')
  BY <1>4, OutcomeTypes DEF IInv, TypeOK, Modes
<1>9. TypeOK'
  BY <1>1, <1>6, <1>7, <1>8 DEF IInv, TypeOK, Profiles
<1>10. VoiceControlInCall'
  BY <1>1, <1>2, <1>6 DEF VoiceControlInCall, Lineage
<1>11. SinksOfProfile'
  BY <1>1, <1>2, <1>7, OutputsAssumption DEF SinksOfProfile
<1>12. /\ EnabledIsLineage' /\ RealProfileKnown' /\ ModeOfProfile' /\ ClosedWhenUnloaded'
  BY <1>1, <1>2, <1>3, <1>8
  DEF EnabledIsLineage, Lineage, RealProfileKnown, ModeOfProfile, ModeOf, ClosedWhenUnloaded
<1> QED BY <1>9, <1>10, <1>11, <1>12 DEF IInv

LEMMA EnterVirtualProfileInv ==
    ASSUME IInv, NEW p \in VirtualProfiles, EnterVirtualProfile(p)
    PROVE  IInv'
<1> DEFINE off == DisabledFor(p) \cap enabled
           on  == EnabledFor(p) \ (enabled \ off)
<1>1. /\ loaded /\ active # p /\ ~ParkAsserts(p) /\ active' = p
      /\ realProfile' = Owner /\ enabled' = (enabled \ off) \cup on
      /\ VoiceCallback(off, on)
      /\ displaced' = (displaced /\ ~Parks(p))
      /\ UNCHANGED <<loaded, aborted, sources>>
  BY DEF EnterVirtualProfile, Running
<1>2. PICK ok \in Outcomes, made \in Opened(VoipWanted(on)) :
        /\ sinks' = (sinks \ VoipFreed(off)) \cup made
        /\ route' = RouteOnOpen(made, NoPort,
                                IF Parks(p) THEN RouteOnSetMode(ModeOf(p), ok) ELSE route)
        /\ ParkAndSetMode(p, ok)
  BY DEF EnterVirtualProfile
<1>3. active \in Profiles /\ p \in Profiles
  BY DEF IInv, TypeOK, Profiles
<1>4. /\ enabled' = Lineage(p)
      /\ off = Lineage(active) \ Lineage(p)
      /\ on = Lineage(p) \ Lineage(active)
  BY <1>1, <1>3, LineageSteps DEF IInv
<1>5. ModeOf(p) \in Modes /\ ModeOf(p) # "NORMAL"
  BY <1>3, ModeTypes
(* From a real profile the mode always changes, so the card parks, which   *)
(* "off" or a missing primary sink would not survive.                      *)
<1>6. Owner = "default" /\ (Primary \in Outputs => Primary \in sinks)
  <2>1. CASE active \in VirtualProfiles
    <3>1. realProfile = "default"
      BY <2>1 DEF IInv, RealProfileKnown
    <3>2. NoProfile # "default"
      BY ProfilesAssumption DEF Profiles, RealProfiles
    <3> QED BY <2>1, <3>1, <3>2 DEF Owner, IInv, SinksOfProfile
  <2>2. CASE active \notin VirtualProfiles
    <3>1. active \in RealProfiles /\ realProfile = NoProfile
      BY <1>3, <2>2 DEF IInv, RealProfileKnown, Profiles
    <3>2. Owner = active /\ Parks(p)
      BY <1>5, <3>1, RealProfileFacts DEF Owner, Parks
    <3> QED BY <1>1, <3>1, <3>2 DEF ParkAsserts, RealProfiles
  <2> QED BY <2>1, <2>2
<1>7. made \subseteq Outputs \cap {VoipRx}
  <2>1. made \subseteq VoipWanted(on)
    BY OpenedSubset
  <2> QED BY <2>1, VoipWantedType
<1>8. VoipRx \notin made \/ p = Communication
  <2>1. made \subseteq VoipWanted(on)
    BY OpenedSubset
  <2>2. Communication \in on => p = Communication
    BY <1>4, ProfilesAssumption DEF Lineage
  <2> QED BY <2>1, <2>2 DEF VoipWanted
<1>9. VoipRx \in sinks => p = Communication \/ VoipRx \in VoipFreed(off)
  <2>1. Communication \in Lineage(Communication) /\ Communication # NoProfile
    BY ProfilesAssumption DEF Lineage, Profiles
  <2>2. p # Communication => Communication \notin Lineage(p)
    BY ProfilesAssumption DEF Lineage
  <2> QED BY <1>4, <2>1, <2>2 DEF IInv, SinksOfProfile, VoipFreed
<1>10. /\ sinks' \subseteq Outputs /\ sinks' \subseteq EnabledOutputs \cup {VoipRx}
       /\ VoipRx \in sinks' => p = Communication
       /\ Primary \in sinks' <=> Primary \in sinks
       /\ Primary \in Outputs => Primary \in sinks'
  BY <1>2, <1>6, <1>7, <1>8, <1>9, VoipIsNotPrimary DEF IInv, TypeOK, SinksOfProfile, VoipFreed
<1>11. SinksOfProfile'
  BY <1>1, <1>10, ProfilesAssumption DEF SinksOfProfile, RealProfiles
<1>12. /\ voiceControl' <=> VoiceCall \in Lineage(p) /\ Primary \in sinks
       /\ realcall' <=> RealCall /\ voiceControl'
       /\ voiceControl' \in BOOLEAN /\ realcall' \in BOOLEAN
  BY <1>1, <1>3, <1>4, <1>6, VoiceFollowsLineage DEF IInv
<1>13. VoiceControlInCall'
  BY <1>1, <1>10, <1>12 DEF VoiceControlInCall, Lineage
<1>14. /\ mode' \in Modes /\ refused' \in BOOLEAN
       /\ port' \in DevicePorts \cup {Parking, NoPort}
       /\ mode' = ModeOf(p) \/ refused'
       /\ displaced' \in BOOLEAN
  BY <1>1, <1>2, <1>5, OutcomeTypes DEF ParkAndSetMode, Parks, IInv, TypeOK, ModeOfProfile
<1>15. route' \in DevicePorts \cup {NoPort}
  <2>1. (IF Parks(p) THEN RouteOnSetMode(ModeOf(p), ok) ELSE route) \in DevicePorts \cup {NoPort}
    BY RouteOnSetModeType DEF IInv, TypeOK
  <2>2. Primary \notin made
    BY <1>7, VoipIsNotPrimary
  <2> QED BY <1>2, <2>1, <2>2, RouteOnVoipType
<1>16. enabled' \subseteq VirtualProfiles
  BY <1>4, ProfilesAssumption DEF Lineage
<1>17. TypeOK'
  BY <1>1, <1>3, <1>6, <1>10, <1>12, <1>14, <1>15, <1>16 DEF IInv, TypeOK, RealProfiles
<1>18. /\ EnabledIsLineage' /\ RealProfileKnown' /\ ModeOfProfile' /\ ClosedWhenUnloaded'
  BY <1>1, <1>4, <1>6, <1>14
  DEF EnabledIsLineage, Lineage, RealProfileKnown, ModeOfProfile, ModeOf, ClosedWhenUnloaded
<1> QED BY <1>11, <1>13, <1>17, <1>18 DEF IInv

LEMMA OtherInv ==
    ASSUME IInv, NEW p, Abort(p) \/ (p \in InitialPorts /\ SetPort(p))
    PROVE  IInv'
<1>1. UNCHANGED <<loaded, active, realProfile, enabled, mode, refused, sinks, sources,
                  voiceControl, realcall>>
  BY DEF Abort, SetPort
<1>2. /\ aborted' \in BOOLEAN
      /\ port' \in DevicePorts \cup {Parking, NoPort}
      /\ route' \in DevicePorts \cup {NoPort}
      /\ displaced' \in BOOLEAN
  BY DEF Abort, SetPort, InitialPorts, IInv, TypeOK
<1> QED
  BY <1>1, <1>2
  DEF IInv, TypeOK, ClosedWhenUnloaded, EnabledIsLineage, Lineage, RealProfileKnown,
      VoiceControlInCall, SinksOfProfile, ModeOfProfile, ModeOf

LEMMA NextInv == IInv /\ [Next]_vars => IInv'
<1> SUFFICES ASSUME IInv, [Next]_vars PROVE IInv'
  OBVIOUS
<1>1. ASSUME NEW p \in RealProfiles, Load(p) PROVE IInv'
  BY <1>1, LoadInv
<1>2. CASE Unload
  BY <1>2, UnloadInv
<1>3. ASSUME NEW p \in VirtualProfiles, EnterVirtualProfile(p) PROVE IInv'
  BY <1>3, EnterVirtualProfileInv
<1>4. ASSUME NEW p \in RealProfiles, LeaveVirtualProfile(p) PROVE IInv'
  BY <1>4, LeaveVirtualProfileInv
<1>5. ASSUME NEW p \in RealProfiles, SwitchRealProfile(p) PROVE IInv'
  BY <1>5, SwitchRealProfileInv
<1>6. ASSUME NEW p \in Profiles, Abort(p) PROVE IInv'
  BY <1>6, OtherInv
<1>7. ASSUME NEW q \in InitialPorts, SetPort(q) PROVE IInv'
  BY <1>7, OtherInv
<1>8. CASE UNCHANGED vars
  BY <1>8
  DEF vars, IInv, TypeOK, ClosedWhenUnloaded, EnabledIsLineage, Lineage, RealProfileKnown,
      VoiceControlInCall, SinksOfProfile, ModeOfProfile, ModeOf
<1> QED BY <1>1, <1>2, <1>3, <1>4, <1>5, <1>6, <1>7, <1>8 DEF Next

-----------------------------------------------------------------------------
(* The inductive invariant holds in every reachable state.                 *)
THEOREM BookkeepingInvariant == Spec => []IInv
BY InitInv, NextInv, PTL DEF Spec

(* Type correctness of the profile machine.                                *)
THEOREM TypeCorrect == Spec => []TypeOK
<1>1. IInv => TypeOK
  BY DEF IInv
<1> QED BY <1>1, BookkeepingInvariant, PTL

(* However set-card-profile is called, the enabled virtual profiles are    *)
(* the active one and the one it extends.                                  *)
THEOREM LineageCorrect == Spec => []EnabledIsLineage
<1>1. IInv => EnabledIsLineage
  BY DEF IInv
<1> QED BY <1>1, BookkeepingInvariant, PTL

(* Voice volume control and the realcall parameter are on exactly in the   *)
(* voicecall family of profiles.                                           *)
THEOREM VoiceControlCorrect == Spec => []VoiceControlInCall
<1>1. IInv => VoiceControlInCall
  BY DEF IInv
<1> QED BY <1>1, BookkeepingInvariant, PTL

(* A virtual profile always knows the default profile whose sinks it uses. *)
THEOREM RealProfileCorrect == Spec => []RealProfileKnown
<1>1. IInv => RealProfileKnown
  BY DEF IInv
<1> QED BY <1>1, BookkeepingInvariant, PTL

(* Each profile has its own sinks, the VoIP sink only in communication.    *)
THEOREM SinksCorrect == Spec => []SinksOfProfile
<1>1. IInv => SinksOfProfile
  BY DEF IInv
<1> QED BY <1>1, BookkeepingInvariant, PTL

(* The HAL is in the active profile's mode unless it refused that mode.    *)
THEOREM ModeCorrect == Spec => []ModeOfProfile
<1>1. IInv => ModeOfProfile
  BY DEF IInv
<1> QED BY <1>1, BookkeepingInvariant, PTL

(* Every path that changes the HAL mode parks the primary sink if it stays *)
(* open, park_profile(): the sinks of a virtual profile are those of the   *)
(* real one it was entered from, and leaving for another closes them.      *)
THEOREM ModeChangeCorrect == Spec => ModeChangeParks
<1>1. IInv /\ [Next]_vars =>
        [loaded /\ loaded' /\ mode' # mode /\ Primary \in sinks' => port' = Parking]_vars
  <2> SUFFICES ASSUME IInv, Next, loaded, loaded', mode' # mode, Primary \in sinks'
               PROVE  port' = Parking
    OBVIOUS
  <2>1. ASSUME NEW p \in VirtualProfiles, EnterVirtualProfile(p) PROVE port' = Parking
    <3> DEFINE off == DisabledFor(p) \cap enabled
               on  == EnabledFor(p) \ (enabled \ off)
    <3>1. PICK ok \in Outcomes, made \in Opened(VoipWanted(on)) :
              sinks' = (sinks \ VoipFreed(off)) \cup made /\ ParkAndSetMode(p, ok)
      BY <2>1 DEF EnterVirtualProfile
    <3>2. Primary \in sinks
      BY <3>1, OpenedSubset, VoipWantedType, VoipIsNotPrimary
    <3> QED BY <3>1, <3>2 DEF ParkAndSetMode
  <2>2. ASSUME NEW p \in RealProfiles, LeaveVirtualProfile(p) PROVE port' = Parking
    <3>1. CASE p = realProfile
      BY <2>2, <3>1 DEF LeaveVirtualProfile
    <3>2. CASE p # realProfile
      <4>1. p = "off"
        BY <2>2, <3>2 DEF LeaveVirtualProfile, IInv, RealProfileKnown, RealProfiles
      <4>2. OutputsOf(p) = {}
        BY <4>1 DEF OutputsOf
      <4>3. PICK made \in Opened(EnabledOutputs \cap OutputsOf(p)) : sinks' = made
        BY <2>2, <3>2 DEF LeaveVirtualProfile, SwitchSinks
      <4> QED BY <4>2, <4>3, OpenedSubset
    <3> QED BY <3>1, <3>2
  <2>3. ASSUME NEW p \in RealProfiles, Load(p) \/ SwitchRealProfile(p) PROVE FALSE
    BY <2>3 DEF Load, SwitchRealProfile
  <2>4. ASSUME NEW p, Unload \/ Abort(p) \/ SetPort(p) PROVE FALSE
    BY <2>4 DEF Unload, Abort, SetPort
  <2> QED BY <2>1, <2>2, <2>3, <2>4 DEF Next
<1> QED BY <1>1, BookkeepingInvariant, PTL DEF Spec, ModeChangeParks

-----------------------------------------------------------------------------
(* The port shown is the port routed to, or another output was opened.     *)

LEMMA OpenTellsRoute ==
    ASSUME NEW made, Primary \in made, NEW initial, NEW old
    PROVE  \/ NewPort(made, initial) \in {Parking, RouteOnOpen(made, initial, old)}
           \/ Displaces(made) /\ RouteOnOpen(made, initial, old) = DefaultDevice
BY DEF NewPort, RouteOnOpen

LEMMA SwitchTellsRoute ==
    ASSUME NEW p \in RealProfiles, SwitchSinks(p), active' = p
    PROVE  PortTellsRoute'
<1>1. PICK made \in Opened(EnabledOutputs \cap OutputsOf(p)), initial \in InitialPorts :
        /\ sinks' = made
        /\ port' = NewPort(made, initial)
        /\ route' = IF Primary \in made THEN RouteOnOpen(made, initial, NoPort) ELSE NoPort
        /\ displaced' = Displaces(made)
  BY DEF SwitchSinks
<1> QED BY <1>1, OpenTellsRoute DEF PortTellsRoute

LEMMA EnterTellsRoute ==
    ASSUME IInv, PortTellsRoute, NEW p \in VirtualProfiles, EnterVirtualProfile(p)
    PROVE  PortTellsRoute'
<1> DEFINE off == DisabledFor(p) \cap enabled
           on  == EnabledFor(p) \ (enabled \ off)
<1>1. PICK ok \in Outcomes, made \in Opened(VoipWanted(on)) :
        /\ sinks' = (sinks \ VoipFreed(off)) \cup made
        /\ route' = RouteOnOpen(made, NoPort,
                                IF Parks(p) THEN RouteOnSetMode(ModeOf(p), ok) ELSE route)
        /\ ParkAndSetMode(p, ok)
  BY DEF EnterVirtualProfile
<1>2. made \subseteq VoipWanted(on)
  BY OpenedSubset
<1>3. Primary \in Outputs => Primary \notin made
  BY <1>2, VoipIsNotPrimary, VoipWantedType
<1>4. sinks \subseteq Outputs /\ active \in Profiles /\ p # active
  BY DEF IInv, TypeOK, EnterVirtualProfile
<1>5. made \subseteq Outputs
  BY <1>2, VoipWantedType
<1>6. Primary \in sinks' => Primary \in sinks /\ Primary \notin made
  BY <1>1, <1>3, <1>4, <1>5
<1>7. CASE Parks(p)
  BY <1>1, <1>6, <1>7 DEF PortTellsRoute, ParkAndSetMode
<1>8. CASE ~Parks(p)
  <2>1. active \in VirtualProfiles /\ AudioMode[active] = AudioMode[p]
    <3>1. active \notin RealProfiles
      BY <1>8, ModeTypes DEF Parks
    <3> QED BY <1>4, <1>8, <3>1 DEF Parks, ModeOf, Profiles
  <2>2. p # Communication
    BY <1>4, <2>1, ProfilesAssumption
  <2>3. Communication \notin on
    BY <2>2, ProfilesAssumption DEF EnabledFor
  <2>4. made = {}
    BY <1>2, <2>3 DEF VoipWanted
  <2>5. Primary \in sinks' => route' = route /\ port' = port
    BY <1>1, <1>8, <2>4 DEF RouteOnOpen, ParkAndSetMode
  (* A session is only entered by parking: what was displaced is over.     *)
  <2>6. active \notin RealProfiles
    BY <2>1, ProfilesAssumption
  <2> QED BY <1>6, <2>5, <2>6 DEF PortTellsRoute
<1> QED BY <1>7, <1>8

(* Asking for the port the primary sink already shows is a no-op, and may  *)
(* be one: its stream is routed to that port, whatever outputs, profiles   *)
(* and refusals there are; except from the opening of another output to    *)
(* the next port or mode, when the stream is on the default device.        *)
THEOREM PortCorrect == Spec => []PortTellsRoute
<1>1. Init => PortTellsRoute
  BY DEF Init, PortTellsRoute
<1>2. IInv /\ PortTellsRoute /\ [Next]_vars => PortTellsRoute'
  <2> SUFFICES ASSUME IInv, PortTellsRoute, [Next]_vars PROVE PortTellsRoute'
    OBVIOUS
  <2>1. ASSUME NEW p \in RealProfiles, Load(p) PROVE PortTellsRoute'
    <3>1. PICK made \in Opened(EnabledOutputs \cap OutputsOf(p)), initial \in InitialPorts :
            /\ sinks' = made
            /\ port' = NewPort(made, initial)
            /\ route' = RouteOnOpen(made, initial, NoPort)
            /\ displaced' = Displaces(made)
            /\ active' = p
      BY <2>1 DEF Load
    <3> QED BY <3>1, OpenTellsRoute DEF PortTellsRoute
  <2>2. CASE Unload
    BY <2>2 DEF Unload, PortTellsRoute
  <2>3. ASSUME NEW p \in VirtualProfiles, EnterVirtualProfile(p) PROVE PortTellsRoute'
    BY <2>3, EnterTellsRoute
  <2>4. ASSUME NEW p \in RealProfiles, LeaveVirtualProfile(p) PROVE PortTellsRoute'
    <3>1. CASE SwitchSinks(p)
      BY <2>4, <3>1, SwitchTellsRoute DEF LeaveVirtualProfile
    <3>2. CASE /\ sinks' \subseteq sinks
               /\ port' = IF Primary \in sinks THEN Parking ELSE port
      BY <3>2 DEF PortTellsRoute
    <3> QED BY <2>4, <3>1, <3>2 DEF LeaveVirtualProfile
  <2>5. ASSUME NEW p \in RealProfiles, SwitchRealProfile(p) PROVE PortTellsRoute'
    BY <2>5, SwitchTellsRoute DEF SwitchRealProfile
  <2>6. ASSUME NEW p \in Profiles, Abort(p) PROVE PortTellsRoute'
    BY <2>6 DEF Abort, PortTellsRoute
  <2>7. ASSUME NEW q \in InitialPorts, SetPort(q) PROVE PortTellsRoute'
    BY <2>7 DEF SetPort, PortTellsRoute
  <2>8. CASE UNCHANGED vars
    BY <2>8 DEF vars, PortTellsRoute
  <2> QED BY <2>1, <2>2, <2>3, <2>4, <2>5, <2>6, <2>7, <2>8 DEF Next
<1> QED BY <1>1, <1>2, BookkeepingInvariant, PTL DEF Spec

-----------------------------------------------------------------------------
(* The profile machine implements the session promised by README.md.       *)

LEMMA InCallIsLineage ==
    ASSUME NEW p \in VirtualProfiles
    PROVE  Session!InCall(p) <=> VoiceCall \in Lineage(p)
BY ProfilesAssumption DEF Session!InCall, Lineage, Profiles

LEMMA LoadSelects ==
    ASSUME IInv, NEW p \in RealProfiles, Load(p)
    PROVE  Session!Next
<1>1. PICK made \in Opened(EnabledOutputs \cap OutputsOf(p)), opened \in Opened(InputsOf(p)) :
        sinks' = made /\ sources' = opened
  BY DEF Load
<1>2. made \subseteq EnabledOutputs \cap OutputsOf(p) /\ opened \subseteq InputsOf(p)
  BY OpenedSubset
<1>3. active' = p /\ mode' = mode /\ voiceControl' = voiceControl
  BY DEF Load
<1>4. active = "off" /\ sinks = {} /\ sources = {}
  BY DEF Load, IInv, ClosedWhenUnloaded
<1>5. active \notin VirtualProfiles /\ voiceControl = FALSE
  BY <1>4, RealProfileFacts DEF IInv, VoiceControlInCall, TypeOK, RealProfiles
<1>6. CASE p = "default"
  BY <1>1, <1>2, <1>3, <1>4, <1>5, <1>6 DEF Session!Next, Session!SelectDefault, InputsOf
<1>7. CASE p = "off"
  BY <1>1, <1>2, <1>3, <1>4, <1>5, <1>7 DEF Session!Next, Session!SelectOff, InputsOf, OutputsOf
<1> QED BY <1>6, <1>7 DEF RealProfiles

LEMMA SwitchSelects ==
    ASSUME IInv, NEW p \in RealProfiles, SwitchRealProfile(p)
    PROVE  Session!Next
<1>1. PICK made \in Opened(EnabledOutputs \cap OutputsOf(p)),
          opened \in Opened(InputsOf(p) \ sources) :
        sinks' = made /\ sources' = sources \cup opened
  BY DEF SwitchRealProfile, SwitchSinks
<1>2. made \subseteq EnabledOutputs \cap OutputsOf(p) /\ opened \subseteq InputsOf(p)
  BY OpenedSubset
<1>3. active' = p /\ mode' = mode /\ voiceControl' = voiceControl /\ active \in RealProfiles
  BY DEF SwitchRealProfile
<1>4. active \notin VirtualProfiles /\ voiceControl = FALSE /\ sources \subseteq EnabledInputs
  BY <1>3, RealProfileFacts DEF IInv, VoiceControlInCall, TypeOK
<1>5. CASE p = "default"
  BY <1>1, <1>2, <1>3, <1>4, <1>5 DEF Session!Next, Session!SelectDefault, InputsOf
<1>6. CASE p = "off"
  BY <1>1, <1>2, <1>3, <1>4, <1>6 DEF Session!Next, Session!SelectOff, InputsOf, OutputsOf
<1> QED BY <1>5, <1>6 DEF RealProfiles

(* Left for the profile it was entered from, a virtual profile leaves the  *)
(* sinks it found: only communication had one of its own.                  *)
LEMMA LeaveSelects ==
    ASSUME IInv, IInv', NEW p \in RealProfiles, LeaveVirtualProfile(p)
    PROVE  Session!Next
<1> DEFINE off == {active, Parent[active]} \cap enabled
<1>1. PICK ok \in Outcomes :
        /\ mode' = IF ok THEN "NORMAL" ELSE mode
        /\ IF p = realProfile
             THEN sinks' = sinks \ VoipFreed(off) /\ UNCHANGED sources
             ELSE SwitchSinks(p)
  BY DEF LeaveVirtualProfile
<1>2. active \in VirtualProfiles /\ active' = p /\ realProfile = "default"
  BY DEF LeaveVirtualProfile, IInv, RealProfileKnown
<1>3. voiceControl' = FALSE
  BY <1>2, RealProfileFacts DEF IInv, VoiceControlInCall, TypeOK, Lineage
<1>4. CASE p = "default"
  <2>1. VoipRx \in sinks => Communication \in off
    BY <1>2, ProfilesAssumption DEF IInv, SinksOfProfile, EnabledIsLineage, Lineage, Profiles
  <2>2. sinks' = sinks \ {VoipRx} /\ sources' = sources
    BY <1>1, <1>2, <1>4, <2>1 DEF VoipFreed
  <2> QED BY <1>1, <1>2, <1>3, <1>4, <2>2 DEF Session!Next, Session!SelectDefault
<1>5. CASE p = "off"
  <2>1. PICK opened \in Opened(InputsOf(p) \ sources) : sources' = sources \cup opened
    BY <1>1, <1>2, <1>5 DEF SwitchSinks
  <2>2. sources' = sources
    BY <1>5, <2>1, OpenedSubset DEF InputsOf
  <2>3. sinks' = {}
    BY <1>2, <1>5 DEF IInv, SinksOfProfile
  <2> QED BY <1>1, <1>2, <1>3, <1>5, <2>2, <2>3 DEF Session!Next, Session!SelectOff
<1> QED BY <1>4, <1>5 DEF RealProfiles

LEMMA EnterSelects ==
    ASSUME IInv, IInv', NEW p \in VirtualProfiles, EnterVirtualProfile(p)
    PROVE  Session!SelectVirtual(p)
<1> DEFINE off == DisabledFor(p) \cap enabled
           on  == EnabledFor(p) \ (enabled \ off)
<1>1. PICK ok \in Outcomes, made \in Opened(VoipWanted(on)) :
        sinks' = (sinks \ VoipFreed(off)) \cup made /\ ParkAndSetMode(p, ok)
  BY DEF EnterVirtualProfile
<1>2. active' = p /\ sources' = sources /\ realProfile' = Owner
  BY DEF EnterVirtualProfile
<1>3. made \subseteq Outputs \cap {VoipRx}
  BY OpenedSubset, VoipWantedType
<1>4. /\ sinks' \ {VoipRx} = sinks \ {VoipRx}
      /\ Primary \in sinks' <=> Primary \in sinks
  BY <1>1, <1>3, VoipIsNotPrimary DEF VoipFreed, IInv, TypeOK
<1>5. VoipRx \in sinks' => p = Communication
  BY <1>2 DEF IInv, SinksOfProfile
<1>6. active # "off"
  <2>1. Owner = "default"
    BY <1>2 DEF IInv, RealProfileKnown
  <2>2. active \in RealProfiles => Owner = active
    BY RealProfileFacts DEF Owner, IInv, RealProfileKnown
  <2> QED BY <2>1, <2>2 DEF RealProfiles
<1>7. mode' \in {mode, AudioMode[p]}
  BY <1>1 DEF ParkAndSetMode, ModeOf
<1>8. voiceControl' = (Session!InCall(p) /\ Primary \in sinks)
  <2>1. voiceControl' \in BOOLEAN /\ (voiceControl' <=> VoiceCall \in Lineage(p) /\ Primary \in sinks)
    BY <1>2, <1>4 DEF IInv, VoiceControlInCall, TypeOK, Lineage
  <2> QED BY <2>1, InCallIsLineage
<1> QED BY <1>2, <1>4, <1>5, <1>6, <1>7, <1>8 DEF Session!SelectVirtual

(* However profiles are switched, opened or refused, what is seen of a     *)
(* card is a session of README.md: set-card-profile from one profile to    *)
(* another does what the two profiles say, nothing of how the card got     *)
(* there shows.                                                            *)
THEOREM SessionImplemented == Spec => ImplementsSession
<1>1. Init => Session!Init
  BY DEF Init, Session!Init, Session!Closed
<1>2. IInv /\ IInv' /\ [Next]_vars => [Session!Next]_(Session!vars)
  <2> SUFFICES ASSUME IInv, IInv', [Next]_vars PROVE [Session!Next]_(Session!vars)
    OBVIOUS
  <2>1. ASSUME NEW p \in RealProfiles, Load(p) PROVE Session!Next
    BY <2>1, LoadSelects
  <2>2. CASE Unload
    BY <2>2 DEF Unload, Session!Next, Session!Close
  <2>3. ASSUME NEW p \in VirtualProfiles, EnterVirtualProfile(p) PROVE Session!Next
    BY <2>3, EnterSelects DEF Session!Next
  <2>4. ASSUME NEW p \in RealProfiles, LeaveVirtualProfile(p) PROVE Session!Next
    BY <2>4, LeaveSelects
  <2>5. ASSUME NEW p \in RealProfiles, SwitchRealProfile(p) PROVE Session!Next
    BY <2>5, SwitchSelects
  <2>6. ASSUME NEW p, Abort(p) \/ SetPort(p) \/ UNCHANGED vars PROVE UNCHANGED Session!vars
    BY <2>6 DEF Abort, SetPort, vars, Session!vars
  <2> QED BY <2>1, <2>2, <2>3, <2>4, <2>5, <2>6 DEF Next
<1>3. Spec => [][Session!Next]_(Session!vars)
  BY <1>2, BookkeepingInvariant, PTL DEF Spec
<1> QED BY <1>1, <1>3, PTL DEF Spec, ImplementsSession, Session!Spec

=============================================================================
