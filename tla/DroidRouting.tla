---------------------------- MODULE DroidRouting ----------------------------
(***************************************************************************)
(* Output routing inside one hw module: which device the HAL plays every   *)
(* open output stream to.  The streams are those of hw->outputs; one of    *)
(* them, with AUDIO_OUTPUT_FLAG_PRIMARY, decides the route of all.  Every  *)
(* call below is made from the main thread and runs to completion.         *)
(*                                                                         *)
(* Routes are audio patches or, with use_legacy_stream_set_parameters, the *)
(* routing parameter of a stream.                                          *)
(***************************************************************************)
CONSTANTS
    Streams,            \* mix ports an output stream can be opened for
    Primary,            \* the one with AUDIO_OUTPUT_FLAG_PRIMARY
    Devices,            \* output device ports
    BtSco,              \* the Bluetooth SCO ones
    DefaultDevice,      \* defaultOutputDevice of the configuration
    Earpiece, Speaker,  \* device ports set_mode() looks for
    NoPort,
    Legacy,             \* DM_OPTION_USE_LEGACY_STREAM_SET_PARAMETERS
    SpeakerBeforeVoice, \* DM_OPTION_SPEAKER_BEFORE_VOICE
    MayFail             \* whether the HAL may refuse a patch, a route or a mode

Modes == {"NORMAL", "RINGTONE", "IN_CALL", "IN_COMMUNICATION"}

ASSUME RoutingAssumption ==
    /\ Primary \in Streams
    /\ BtSco \subseteq Devices
    /\ DefaultDevice \in Devices
    /\ NoPort \notin Devices
    /\ {Legacy, SpeakerBeforeVoice, MayFail} \subseteq BOOLEAN

VARIABLES
    outputs,    \* hw->outputs
    mode,       \* hw->state.mode
    routing     \* to[s]:   device of the patch or routing parameter of s
                \* port[s]: active_device_port of s
                \* bt:      bt_sco_enabled, and what the HAL was told

vars == <<outputs, mode, routing>>

-----------------------------------------------------------------------------
(* pa_droid_stream_set_route() on the primary stream.                      *)

Outcomes == IF MayFail THEN BOOLEAN ELSE {TRUE}

(* Streams the HAL accepts a route for.                                    *)
Accepted(open) == IF MayFail THEN SUBSET open ELSE {open}

(* Mutant of Patched: patches of the other streams are not released first. *)
PatchedOver(r, d, open, ok) ==
    [s \in Streams |-> IF s \in ok /\ Primary \in ok THEN d
                       ELSE IF s = Primary THEN NoPort ELSE r.to[s]]

(* droid_output_stream_audio_patch_update(): every patch is released, the  *)
(* primary stream patched first and, if that worked, the others.           *)
Patched(r, d, open, ok) ==
    [s \in Streams |-> IF s \in ok /\ Primary \in ok THEN d ELSE NoPort]

(* Mutant of PortAfter: active_device_port of the others is left alone.    *)
PortAfterPrimaryOnly(r, d, open, ok) == [r.port EXCEPT ![Primary] = d]

(* active_device_port is set once a patch was tried, made or not.          *)
PortAfter(r, d, open, ok) ==
    [s \in Streams |-> IF s = Primary \/ (s \in open /\ Primary \in ok) THEN d
                       ELSE r.port[s]]

(* Mutant of BtScoAfter: Bluetooth SCO is turned on and never off.         *)
BtScoAfterSticky(r, d) == r.bt \/ d \in BtSco

(* stream_update_bt_sco(); the result of set_parameters() is ignored.      *)
BtScoAfter(r, d) == d \in BtSco

(* output_stream_set_parameter() gives the route to this stream only.  It  *)
(* sends BT_SCO for a device port flagged as primary, but the parser gives *)
(* device ports no flags.                                                  *)
Routed(r, d, open, ok) ==
    IF Legacy
      THEN [r EXCEPT !.to[Primary] = IF Primary \in ok THEN d ELSE @]
      ELSE [to |-> Patched(r, d, open, ok), port |-> PortAfter(r, d, open, ok),
            bt |-> BtScoAfter(r, d)]

(* Results of setting the route, or not, when the condition holds.         *)
RoutedIf(cond, r, d, open) ==
    IF cond /\ Primary \in open /\ d \in Devices
      THEN {Routed(r, d, open, ok) : ok \in Accepted(open)} ELSE {r}

-----------------------------------------------------------------------------
TypeOK ==
    /\ outputs \subseteq Streams
    /\ mode \in Modes
    /\ routing \in [to : [Streams -> Devices \cup {NoPort}],
                    port : [Streams -> Devices \cup {NoPort}], bt : BOOLEAN]

Init ==
    /\ outputs = {}
    /\ mode = "NORMAL"
    /\ routing = [to |-> [s \in Streams |-> NoPort],
                  port |-> [s \in Streams |-> NoPort], bt |-> FALSE]

(* pa_droid_open_output_stream(): the new stream has no route of its own   *)
(* but the device it was opened with; the primary stream, if open, is then *)
(* routed to that device, and the new one with it.                         *)
Open(s) ==
    /\ s \notin outputs
    /\ outputs' = outputs \cup {s}
    /\ LET opened == [routing EXCEPT !.to[s] = IF Legacy THEN DefaultDevice ELSE NoPort]
       IN  routing' \in RoutedIf(TRUE, opened, DefaultDevice, outputs')
    /\ UNCHANGED mode

(* The stream is freed, with its patch handle and active_device_port.      *)
Forgotten(s) == [routing EXCEPT !.to[s] = NoPort, !.port[s] = NoPort]

(* pa_droid_stream_unref() of the last reference.                          *)
Close(s) ==
    /\ s \in outputs
    /\ outputs' = outputs \ {s}
    /\ routing' = Forgotten(s)
    /\ UNCHANGED mode

(* pa_droid_stream_set_route() from the primary sink.                      *)
SetRoute(d) ==
    /\ Primary \in outputs
    /\ routing' \in RoutedIf(TRUE, routing, d, outputs)
    /\ UNCHANGED <<outputs, mode>>

(* pa_droid_hw_set_mode(): a call starts from the speaker when the option  *)
(* asks for it, then from the earpiece if the HAL takes the mode.          *)
SetMode(m) ==
    LET starts == m = "IN_CALL" /\ mode # m
    IN  \E ok \in Outcomes,
           early \in RoutedIf(starts /\ SpeakerBeforeVoice, routing, Speaker, outputs) :
           /\ routing' \in RoutedIf(starts /\ ok, early, Earpiece, outputs)
           /\ mode' = IF ok THEN m ELSE mode
           /\ UNCHANGED outputs

Next ==
    \/ \E s \in Streams : Open(s) \/ Close(s)
    \/ \E d \in Devices : SetRoute(d)
    \/ \E m \in Modes : SetMode(m)

Spec == Init /\ [][Next]_vars

-----------------------------------------------------------------------------
(* Properties.                                                             *)

Playing == {s \in outputs : routing.to[s] # NoPort}

(* No two streams play to different devices, however streams come and go   *)
(* and whichever patches the HAL refuses: audio never splits between, say, *)
(* the earpiece and the speaker.                                           *)
OneDevice == \A s, t \in Playing : routing.to[s] = routing.to[t]

(* While the primary stream has a route the HAL has been told BT_SCO=on if *)
(* and only if that route is a Bluetooth SCO device.                       *)
BtScoFollowsRoute ==
    Primary \in Playing => (routing.bt <=> routing.to[Primary] \in BtSco)

(* A stream that holds a patch has the port of that patch as its active    *)
(* device port: audio_patch_release() reads the name of that port when the *)
(* release fails, and closed streams hold nothing.                         *)
PatchHasPort ==
    \A s \in Streams : routing.to[s] # NoPort => s \in outputs /\ routing.port[s] = routing.to[s]

=============================================================================
