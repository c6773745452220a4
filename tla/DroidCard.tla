----------------------------- MODULE DroidCard -----------------------------
(***************************************************************************)
(* The profile machine of module-droid-card.  A card has one droid profile *)
(* ("default"), the "off" profile, and virtual profiles that borrow the    *)
(* sinks of the real profile they are entered from: voicecall,             *)
(* voicecall-record (an extension to voicecall), communication, ringtone.  *)
(*                                                                         *)
(* Every handler runs to completion in PulseAudio's main thread, so each   *)
(* action below is one whole call.  What the environment decides is which  *)
(* profile or port is asked for, and, when MayFail, whether the HAL        *)
(* refuses a mode or an output cannot be opened.                           *)
(***************************************************************************)
CONSTANTS
    VirtualProfiles,    \* names given to add_virtual_profile()
    Parent,             \* their extension_to, NoProfile when NULL
    AudioMode,          \* their audio_mode_t
    VoiceCall,          \* the profile of voicecall_profile_event_cb()
    Communication,      \* the profile of in_communication_profile_event_cb()
    NoProfile,
    Outputs,            \* output mappings of the default profile
    EnabledOutputs,     \* the ones output_enabled() accepts
    LateOutputs,        \* the ones after the primary one in the idxset
    Primary,            \* mapping with AUDIO_OUTPUT_FLAG_PRIMARY
    VoipRx,             \* mapping with AUDIO_OUTPUT_FLAG_VOIP_RX
    EnabledInputs,      \* input mappings input_enabled() accepts
    DevicePorts,        \* device ports of the primary mix port
    DefaultDevice,      \* defaultOutputDevice of the configuration
    Earpiece, Speaker,  \* device ports set_mode() looks for
    NoPort,
    SpeakerBeforeVoice, \* DM_OPTION_SPEAKER_BEFORE_VOICE
    RealCall,           \* DM_OPTION_REALCALL
    MayFail             \* whether HAL calls may fail

Parking == "output-parking"
RealProfiles == {"default", "off"}
Profiles == RealProfiles \cup VirtualProfiles
Modes == {"NORMAL", "RINGTONE", "IN_CALL", "IN_COMMUNICATION"}

(* Extensions are one level deep and share the mode of what they extend:   *)
(* every extension_to in pa__init() is voicecall, added with NULL.         *)
ASSUME ProfilesAssumption ==
    /\ VirtualProfiles \cap RealProfiles = {}
    /\ NoProfile \notin Profiles
    /\ Parent \in [VirtualProfiles -> VirtualProfiles \cup {NoProfile}]
    /\ AudioMode \in [VirtualProfiles -> Modes \ {"NORMAL"}]
    /\ \A v \in VirtualProfiles : Parent[v] # NoProfile =>
          /\ Parent[Parent[v]] = NoProfile
          /\ AudioMode[Parent[v]] = AudioMode[v]
    /\ {VoiceCall, Communication} \subseteq VirtualProfiles
    /\ Parent[VoiceCall] = NoProfile
    /\ Parent[Communication] = NoProfile
    /\ \A v \in VirtualProfiles : Parent[v] # Communication
    /\ \A v \in VirtualProfiles : AudioMode[v] = AudioMode[Communication] => v = Communication

ASSUME OutputsAssumption ==
    /\ EnabledOutputs \subseteq Outputs
    /\ LateOutputs \subseteq Outputs \ {Primary}
    /\ Primary \in Outputs => Primary \in EnabledOutputs
    /\ VoipRx \notin EnabledOutputs
    /\ DefaultDevice \in DevicePorts
    /\ {Parking, NoPort} \cap DevicePorts = {}
    /\ Parking # NoPort
    /\ {SpeakerBeforeVoice, RealCall, MayFail} \subseteq BOOLEAN

VARIABLES
    loaded,         \* module loaded, between pa__init() and pa__done()
    aborted,        \* a pa_assert() ended the daemon
    active,         \* card->active_profile
    realProfile,    \* u->real_profile
    enabled,        \* virtual profiles whose virtual.enabled is set
    mode,           \* hw_module->state.mode
    refused,        \* history: the HAL refused the last mode asked for
    sinks,          \* output mappings whose am->sink is not NULL
    sources,        \* input mappings whose am->source is not NULL
    voiceControl,   \* use_voice_volume of the primary sink
    realcall,       \* last realcall= parameter given to the HAL
    port,           \* active_port of the primary sink
    route,          \* device port the primary stream was last routed to
    displaced       \* history: an output opened after the primary sink moved
                    \* its stream; no port was set and it was not parked since

vars == <<loaded, aborted, active, realProfile, enabled, mode, refused, sinks,
          sources, voiceControl, realcall, port, route, displaced>>

Running == loaded /\ ~aborted

-----------------------------------------------------------------------------
(* What the environment may answer.                                        *)

Outcomes == IF MayFail THEN BOOLEAN ELSE {TRUE}
Opened(wanted) == IF MayFail THEN SUBSET wanted ELSE {wanted}

ModeOf(p) == IF p \in VirtualProfiles THEN AudioMode[p] ELSE "NORMAL"
OutputsOf(p) == IF p = "default" THEN Outputs ELSE {}
InputsOf(p) == IF p = "default" THEN EnabledInputs ELSE {}

-----------------------------------------------------------------------------
(* Pieces of the handlers.                                                 *)

(* Whether opening the outputs in made moves the stream of the primary one *)
(* among them, whose sink has been given its port by then.                 *)
Displaces(made) == Primary \in made /\ made \cap LateOutputs # {}

(* A new primary sink starts on the port the core restored or chose, its   *)
(* stream on the default device.  Opening any other output re-routes the   *)
(* primary stream to the default device.                                   *)
RouteOnOpen(made, initial, old) ==
    IF Primary \in made
      THEN IF initial = Parking \/ Displaces(made)
             THEN DefaultDevice ELSE initial
      ELSE IF Primary \in sinks /\ made # {} THEN DefaultDevice ELSE old

(* pa_droid_hw_set_mode(): the routes it forces when a call starts.        *)
RouteOnSetMode(m, ok) ==
    LET starts == m = "IN_CALL" /\ mode # m /\ Primary \in sinks
    IN  IF starts /\ ok /\ Earpiece \in DevicePorts THEN Earpiece
        ELSE IF starts /\ SpeakerBeforeVoice /\ Speaker \in DevicePorts
               THEN Speaker
        ELSE route

(* The real profile whose sinks a virtual profile uses.                    *)
Owner == IF realProfile = NoProfile THEN active ELSE realProfile

(* Mutant of Parks: the mode is set only on the way in from a real profile. *)
ParksFromReal(p) == active \in RealProfiles

(* pa_droid_hw_set_mode() is called, after park_profile(), on a change of  *)
(* audio mode.                                                             *)
Parks(p) == ModeOf(p) # ModeOf(active)

(* park_profile(owner) asserts a droid profile, and a sink in its primary  *)
(* mapping.                                                                *)
ParkAsserts(p) ==
    /\ Parks(p)
    /\ \/ Owner = "off"
       \/ Primary \in Outputs \ sinks

(* Mutant of ParkAndSetMode: the primary sink is not parked.               *)
SetModeUnparked(p, ok) ==
    /\ mode' = IF Parks(p) /\ ok THEN ModeOf(p) ELSE mode
    /\ refused' = IF Parks(p) THEN ~ok ELSE refused
    /\ port' = port

ParkAndSetMode(p, ok) ==
    /\ mode' = IF Parks(p) /\ ok THEN ModeOf(p) ELSE mode
    /\ refused' = IF Parks(p) THEN ~ok ELSE refused
    /\ port' = IF Parks(p) /\ Primary \in sinks THEN Parking ELSE port

(* Mutant of DisabledFor: the chain of parents is not followed.            *)
DisabledForActiveOnly(p) ==
    IF active \notin VirtualProfiles \/ active = Parent[p] THEN {} ELSE {active}

(* Profiles disabled on the way from the active profile to virtual p: up   *)
(* the chain of parents, until p or p's parent is met.                     *)
DisabledFor(p) ==
    IF active \notin VirtualProfiles \/ active = Parent[p] THEN {}
    ELSE {active} \cup ({Parent[active]} \ {p, Parent[p], NoProfile})

(* Mutant of EnabledFor: the extended profile is not enabled with p.       *)
EnabledForAlone(p) == {p}

EnabledFor(p) == {p} \cup ({Parent[p]} \ {active, NoProfile})

(* The event callbacks of the profiles that change from enabled to         *)
(* disabled (off) and from disabled to enabled (on).                       *)
VoiceCallback(off, on) ==
    /\ voiceControl' = IF VoiceCall \in on THEN Primary \in sinks
                       ELSE voiceControl /\ VoiceCall \notin off
    /\ realcall' = IF RealCall /\ Primary \in Outputs /\ VoiceCall \in on \cup off
                     THEN VoiceCall \in on ELSE realcall

VoipWanted(on) ==
    IF Communication \in on /\ VoipRx \in Outputs THEN {VoipRx} \ sinks ELSE {}

VoipFreed(off) == IF Communication \in off THEN {VoipRx} ELSE {}

-----------------------------------------------------------------------------
(* Actions.                                                                *)

TypeOK ==
    /\ loaded \in BOOLEAN /\ aborted \in BOOLEAN
    /\ active \in Profiles
    /\ realProfile \in RealProfiles \cup {NoProfile}
    /\ enabled \subseteq VirtualProfiles
    /\ mode \in Modes /\ refused \in BOOLEAN
    /\ sinks \subseteq Outputs
    /\ sources \subseteq EnabledInputs
    /\ voiceControl \in BOOLEAN /\ realcall \in BOOLEAN
    /\ port \in DevicePorts \cup {Parking, NoPort}
    /\ route \in DevicePorts \cup {NoPort}
    /\ displaced \in BOOLEAN

Init ==
    /\ loaded = FALSE /\ aborted = FALSE
    /\ active = "off" /\ realProfile = NoProfile /\ enabled = {}
    /\ mode = "NORMAL" /\ refused = FALSE /\ sinks = {} /\ sources = {}
    /\ voiceControl = FALSE /\ realcall = FALSE
    /\ port = NoPort /\ route = NoPort /\ displaced = FALSE

(* The port the core gives a new primary sink, NoPort when there is none.  *)
NewPort(made, initial) == IF Primary \in made THEN initial ELSE NoPort
InitialPorts == DevicePorts \cup {Parking}

(* pa__init(): the core chooses or restores the initial profile, a real    *)
(* one here, and init_profile() opens its sinks and sources.               *)
Load(p) ==
    /\ ~loaded /\ ~aborted
    /\ loaded' = TRUE /\ active' = p
    /\ \E made \in Opened(EnabledOutputs \cap OutputsOf(p)),
          opened \in Opened(InputsOf(p)), initial \in InitialPorts :
          /\ sinks' = made /\ sources' = opened
          /\ port' = NewPort(made, initial)
          /\ route' = RouteOnOpen(made, initial, NoPort)
          /\ displaced' = Displaces(made)
    /\ UNCHANGED <<aborted, realProfile, enabled, mode, refused, voiceControl, realcall>>

(* pa__done(): every sink and source is freed and the hw module closed.    *)
Unload ==
    /\ Running
    /\ loaded' = FALSE
    /\ active' = "off" /\ realProfile' = NoProfile /\ enabled' = {}
    /\ mode' = "NORMAL" /\ refused' = FALSE /\ sinks' = {} /\ sources' = {}
    /\ voiceControl' = FALSE /\ realcall' = FALSE
    /\ port' = NoPort /\ route' = NoPort /\ displaced' = FALSE
    /\ UNCHANGED aborted

(* enter_virtual_profile() *)
EnterVirtualProfile(p) ==
    /\ Running /\ p \in VirtualProfiles \ {active} /\ ~ParkAsserts(p)
    /\ LET off == DisabledFor(p) \cap enabled
           on  == EnabledFor(p) \ (enabled \ off)
       IN  \E ok \in Outcomes, made \in Opened(VoipWanted(on)) :
             /\ active' = p
             /\ realProfile' = Owner
             /\ enabled' = (enabled \ off) \cup on
             /\ sinks' = (sinks \ VoipFreed(off)) \cup made
             /\ route' = RouteOnOpen(made, NoPort,
                                     IF Parks(p) THEN RouteOnSetMode(ModeOf(p), ok)
                                                 ELSE route)
             /\ ParkAndSetMode(p, ok)
             /\ VoiceCallback(off, on)
    /\ displaced' = (displaced /\ ~Parks(p))
    /\ UNCHANGED <<loaded, aborted, sources>>

(* The real-to-real part of card_set_profile(): the sinks of the old       *)
(* profile are freed, the sinks and missing sources of the new one opened; *)
(* default and off share no mapping.  input_mapping of a profile is never  *)
(* assigned, so no source is ever freed.                                   *)
SwitchSinks(to) ==
    \E made \in Opened(EnabledOutputs \cap OutputsOf(to)),
       opened \in Opened(InputsOf(to) \ sources), initial \in InitialPorts :
       /\ sinks' = made
       /\ sources' = sources \cup opened
       /\ port' = NewPort(made, initial)
       /\ route' = LET old == NoPort IN
                   IF Primary \in made THEN RouteOnOpen(made, initial, old) ELSE old
       /\ displaced' = Displaces(made)

(* leave_virtual_profile() to a real profile, and what card_set_profile()  *)
(* does next when that is not the profile the session was entered from.    *)
LeaveVirtualProfile(p) ==
    /\ Running /\ active \in VirtualProfiles /\ p \in RealProfiles /\ ~ParkAsserts(p)
    /\ LET off == {active, Parent[active]} \cap enabled
       IN  /\ enabled' = enabled \ off
           /\ VoiceCallback(off, {})
           /\ \E ok \in Outcomes :
                /\ mode' = IF ok THEN "NORMAL" ELSE mode
                /\ refused' = ~ok
                /\ IF p = realProfile
                     THEN /\ sinks' = sinks \ VoipFreed(off)
                          /\ port' = IF Primary \in sinks THEN Parking ELSE port
                          /\ displaced' = FALSE
                          /\ UNCHANGED <<route, sources>>
                     ELSE SwitchSinks(p)
    /\ active' = p
    /\ realProfile' = NoProfile
    /\ UNCHANGED <<loaded, aborted>>

(* card_set_profile() between real profiles.                               *)
SwitchRealProfile(p) ==
    /\ Running /\ active \in RealProfiles /\ p \in RealProfiles \ {active}
    /\ active' = p
    /\ SwitchSinks(p)
    /\ UNCHANGED <<loaded, aborted, realProfile, enabled, mode, refused, voiceControl, realcall>>

(* Assertions: park_profile() reaches them on the way in or out; and       *)
(* init_profile() looks into the output mappings of the initial profile,   *)
(* which a virtual one, saved and restored by the core, does not have.     *)
Abort(p) ==
    /\ ~aborted
    /\ \/ /\ loaded /\ p # active /\ ParkAsserts(p)
          /\ p \in VirtualProfiles \/ active \in VirtualProfiles
       \/ ~loaded /\ p \in VirtualProfiles
    /\ aborted' = TRUE
    /\ UNCHANGED <<loaded, active, realProfile, enabled, mode, refused, sinks, sources,
                   voiceControl, realcall, port, route, displaced>>

(* pa_sink_set_port() on the primary sink: setting the active port is a    *)
(* no-op, the parking port routes nothing.                                 *)
SetPort(q) ==
    /\ Running /\ Primary \in sinks /\ q # port
    /\ port' = q
    /\ route' = IF q = Parking THEN route ELSE q
    /\ displaced' = FALSE
    /\ UNCHANGED <<loaded, aborted, active, realProfile, enabled, mode, refused, sinks, sources,
                   voiceControl, realcall>>

Next ==
    \/ \E p \in RealProfiles : Load(p)
    \/ Unload
    \/ \E p \in VirtualProfiles : EnterVirtualProfile(p)
    \/ \E p \in RealProfiles : LeaveVirtualProfile(p) \/ SwitchRealProfile(p)
    \/ \E p \in Profiles : Abort(p)
    \/ \E q \in InitialPorts : SetPort(q)

Spec == Init /\ [][Next]_vars

-----------------------------------------------------------------------------
(* Properties.                                                             *)

Lineage(p) == IF p \in VirtualProfiles THEN {p, Parent[p]} \ {NoProfile} ELSE {}

(* Toggling profiles one by one along a path of profile switches leaves    *)
(* enabled exactly the active virtual profile and the one it extends.      *)
EnabledIsLineage == enabled = Lineage(active)

(* A virtual profile always remembers the default profile it borrows sinks *)
(* from, a real one never does: the handlers dereference real_profile and  *)
(* its droid profile without a check.                                      *)
RealProfileKnown ==
    realProfile = IF active \in VirtualProfiles THEN "default" ELSE NoProfile

(* Sink volume stops driving the HAL exactly during a call or a recorded   *)
(* call, whatever path of profiles led in or out, and realcall agrees.     *)
VoiceControlInCall ==
    /\ voiceControl <=> VoiceCall \in Lineage(active) /\ Primary \in sinks
    /\ realcall <=> RealCall /\ voiceControl

(* Sinks open in a virtual profile are the default profile's, plus the     *)
(* VoIP sink in communication only; and a call always has the primary one. *)
SinksOfProfile ==
    /\ sinks \subseteq EnabledOutputs \cup {VoipRx}
    /\ VoipRx \in sinks => active = Communication
    /\ active = "off" => sinks = {}
    /\ active \in VirtualProfiles /\ Primary \in Outputs => Primary \in sinks

(* The HAL is in the mode of the active profile unless it refused the last *)
(* mode it was asked for: no path skips a mode change it needed.           *)
ModeOfProfile == mode = ModeOf(active) \/ refused

(* The active port shown for the primary sink is the device its stream is  *)
(* routed to, or the parking port, after which any port routes again.      *)
(* Opening another output is all that can part them: then the stream is on *)
(* the default device, asking for the port shown does nothing, and the     *)
(* next port or mode ends it, so that no call ever starts that way.        *)
PortTellsRoute ==
    Primary \in sinks =>
        \/ port \in {Parking, route}
        \/ displaced /\ route = DefaultDevice /\ active \in RealProfiles

(* A mode takes effect with the next routing change: the HAL mode changes  *)
(* only together with parking the primary sink, so that asking for any     *)
(* device port routes again.                                               *)
ModeChangeParks ==
    [][loaded /\ loaded' /\ mode' # mode /\ Primary \in sinks' => port' = Parking]_vars

(* The bookkeeping above (the remembered real profile, the enabled flags,   *)
(* callbacks called once per change) implements the promise of README.md.  *)
Session == INSTANCE CardSession WITH
    profile <- active, hal <- mode, callVolume <- voiceControl,
    outputs <- sinks, inputs <- sources
ImplementsSession == Session!Spec

(* A loaded card survives every profile change.                            *)
NeverAborts == loaded => ~aborted

=============================================================================
