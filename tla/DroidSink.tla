----------------------------- MODULE DroidSink -----------------------------
(***************************************************************************)
(* The primary droid-sink: extra routes that streams ask for with          *)
(* droid.device.additional-route, and the voice volume during a call.      *)
(* Hooks, port changes and profile callbacks run in the main thread, each  *)
(* to completion.  The hooks are the core's: they fire for streams of      *)
(* every sink, and the code does not ask which sink a stream is on.        *)
(* The stream of this sink is also routed behind the sink's back: by a     *)
(* mode that starts a call, and by any other output when it is opened.     *)
(***************************************************************************)
EXTENDS Naturals, Sequences, SequencesExt

CONSTANTS
    Inputs,         \* sink-inputs of clients
    Virtual,        \* u->voice_virtual_sink_input
    RouteOf,        \* additional-route of a client's stream, NoPort for none
    Phone,          \* streams with voice_property_key = voice_property_value
    Devices,        \* device ports of the hw module
    DefaultDevice,  \* device the stream is opened with
    Earpiece, Speaker, \* device ports a call may start with
    InitialPorts,   \* device ports of sink->active_port when created; NoPort
                    \* for the parking port
    NoPort,
    Levels,         \* stream volumes
    NoLevel,
    VirtualStream,  \* module argument voice_virtual_stream
    MaxStack        \* bound on extra_devices_stack

Streams == Inputs \cup {Virtual}

ASSUME SinkAssumption ==
    /\ Virtual \notin Inputs
    /\ DefaultDevice \in Devices
    /\ NoPort \notin Devices
    /\ NoLevel \notin Levels
    /\ InitialPorts \subseteq Devices \cup {NoPort}
    /\ Phone \subseteq Streams
    /\ VirtualStream \in BOOLEAN

VARIABLES
    aborted,    \* a pa_assert() ended the daemon
    here,       \* streams connected to this sink
    away,       \* streams connected to other sinks
    volume,     \* absolute volume of every stream
    port,       \* active_device_port, which parking leaves as it was
    parked,     \* the sink's active_port is the parking port
    override,   \* override_device_port, NoPort when NULL
    stack,      \* extra_devices_stack
    route,      \* device of the last pa_droid_stream_set_route()
    routedBy,   \* history: who called it: "sink" for do_routing(), else "mode"
                \* or "output"
    voice,      \* use_voice_volume, and the volume changed hook connected
    voiceLevel, \* last set_voice_volume() of this call, NoLevel before one
    moved       \* history: streams moved between sinks during this call

routes == <<override, stack, route, routedBy>>
vars == <<aborted, here, away, volume, port, parked, routes, voice, voiceLevel, moved>>

Connected == here \cup away

-----------------------------------------------------------------------------
TypeOK ==
    /\ aborted \in BOOLEAN
    /\ here \subseteq Streams /\ away \subseteq Streams
    /\ volume \in [Streams -> Levels]
    /\ port \in Devices \cup {NoPort}
    /\ parked \in BOOLEAN
    /\ override \in Devices \cup {NoPort}
    /\ stack \in Seq(Devices)
    /\ route \in Devices
    /\ routedBy \in {"sink", "mode", "output"}
    /\ voice \in BOOLEAN
    /\ voiceLevel \in Levels \cup {NoLevel}
    /\ moved \subseteq Streams

(* pa_droid_sink_new(): the stream is opened to the default device, then   *)
(* routed to the active port if there is one with a device.                *)
Init ==
    /\ aborted = FALSE
    /\ here = {} /\ away = {}
    /\ volume \in [Streams -> Levels]
    /\ port \in InitialPorts /\ parked = (port = NoPort)
    /\ override = NoPort /\ stack = <<>>
    /\ route = IF port = NoPort THEN DefaultDevice ELSE port
    /\ routedBy = "sink"
    /\ voice = FALSE /\ voiceLevel = NoLevel /\ moved = {}

(* Mutant of Cleared: nothing to clear when no extra device is left.       *)
ClearedIfStacked == voice /\ stack # <<>>

(* do_routing() drops the extra devices in a call, when there is an        *)
(* override.                                                               *)
Cleared == voice /\ override # NoPort

(* do_routing() of a sink whose active device port is p.                   *)
DoRouting(p) ==
    /\ override' = IF Cleared THEN NoPort ELSE override
    /\ stack' = IF Cleared THEN <<>> ELSE stack
    /\ route' = IF override' # NoPort THEN override' ELSE p
    /\ routedBy' = "sink"

(* sink_set_port_cb() with a device port.  The core does not call it for   *)
(* the port that is already active.                                        *)
SetPort(p) ==
    /\ ~aborted /\ (p # port \/ parked)
    /\ port' = p /\ parked' = FALSE
    /\ DoRouting(p)
    /\ UNCHANGED <<aborted, here, away, volume, voice, voiceLevel, moved>>

(* The parking port, asked for by a user or by park_profile() before a     *)
(* mode that starts no call: sink_set_port_cb() does nothing for it.       *)
Park ==
    /\ ~aborted /\ ~parked
    /\ parked' = TRUE
    /\ UNCHANGED <<aborted, here, away, volume, port, routes, voice, voiceLevel, moved>>

(* Another output opened to the default device, of this card or another    *)
(* module's: pa_droid_open_output_stream() routes the primary stream too.  *)
OpenOutput ==
    /\ ~aborted
    /\ route' = DefaultDevice /\ routedBy' = "output"
    /\ UNCHANGED <<aborted, here, away, volume, port, parked, override, stack, voice,
                   voiceLevel, moved>>

-----------------------------------------------------------------------------
(* Extra routes.                                                           *)

(* Mutant of AddExtra: a device already asked for is not routed to again.  *)
AddExtraOnce(d) ==
    /\ stack' = Append(stack, d)
    /\ override' = d
    /\ IF \E i \in 1..Len(stack) : stack[i] = d
         THEN UNCHANGED <<route, routedBy>>
         ELSE route' = d /\ routedBy' = "sink"

(* add_extra_devices() and the routing it asks for.                        *)
AddExtra(d) ==
    /\ stack' = Append(stack, d)
    /\ IF stack # <<>> /\ Last(stack) = d
         THEN UNCHANGED <<override, route, routedBy>>
         ELSE override' = d /\ route' = d /\ routedBy' = "sink"

(* remove_extra_devices() looks for the device from the head of the list   *)
(* and asks for routing if it found it at the tail.  override stays.       *)
RemoveExtra(d) ==
    \/ \E k \in 1..Len(stack) :
          /\ stack[k] = d /\ \A i \in 1..(k - 1) : stack[i] # d
          /\ stack' = RemoveAt(stack, k)
          /\ override' = override
          /\ IF k # Len(stack)
               THEN UNCHANGED <<route, routedBy>>
               ELSE /\ route' = IF override # NoPort THEN override ELSE port
                    /\ routedBy' = "sink"
    \/ /\ \A k \in 1..Len(stack) : stack[k] # d
       /\ UNCHANGED routes

(* The hooks do nothing about routes in a call, or for a stream without    *)
(* the property (the pulsesink probe counts as one).                       *)
Asks(i) == ~voice /\ i \in Inputs /\ RouteOf[i] # NoPort

(* A stream whose volume is the voice volume: hooks check only this.       *)
Heard(i) == voice /\ i \in Phone

(* dm_config_find_device_port() asserts its port, active_device_port; it   *)
(* may not find the device.                                                *)
Abort(i) ==
    /\ ~aborted /\ Asks(i) /\ port = NoPort
    /\ aborted' = TRUE
    /\ UNCHANGED <<here, away, volume, port, parked, routes, voice, voiceLevel, moved>>

(* sink_input_put_hook_cb() for a client's stream on this or another sink. *)
Put(i) ==
    /\ ~aborted /\ i \in Inputs \ Connected
    /\ Asks(i) => port # NoPort
    /\ Len(stack) < MaxStack
    /\ \/ here' = here \cup {i} /\ UNCHANGED away
       \/ away' = away \cup {i} /\ UNCHANGED here
    /\ voiceLevel' = IF Heard(i) THEN volume[i] ELSE voiceLevel
    /\ IF Asks(i) /\ RouteOf[i] \in Devices THEN AddExtra(RouteOf[i]) ELSE UNCHANGED routes
    /\ UNCHANGED <<aborted, volume, port, parked, voice, moved>>

(* sink_input_unlink_hook_cb(); also the virtual stream killed by a client. *)
Unlink(i) ==
    /\ ~aborted /\ i \in Connected
    /\ Asks(i) => port # NoPort
    /\ here' = here \ {i} /\ away' = away \ {i}
    /\ IF Asks(i) /\ RouteOf[i] \in Devices THEN RemoveExtra(RouteOf[i]) ELSE UNCHANGED routes
    /\ moved' = moved \ {i}
    /\ UNCHANGED <<aborted, volume, port, parked, voice, voiceLevel>>

(* A stream moved between sinks is not unlinked and put.                   *)
Move(i) ==
    /\ ~aborted /\ i \in Connected
    /\ here' = IF i \in here THEN here \ {i} ELSE here \cup {i}
    /\ away' = IF i \in away THEN away \ {i} ELSE away \cup {i}
    /\ moved' = IF voice THEN moved \cup {i} ELSE moved
    /\ UNCHANGED <<aborted, volume, port, parked, routes, voice, voiceLevel>>

-----------------------------------------------------------------------------
(* Voice volume.                                                           *)

(* sink_input_volume_changed_hook_cb()                                     *)
ChangeVolume(i, l) ==
    /\ ~aborted /\ i \in Connected /\ l # volume[i]
    /\ volume' = [volume EXCEPT ![i] = l]
    /\ voiceLevel' = IF Heard(i) THEN l ELSE voiceLevel
    /\ UNCHANGED <<aborted, here, away, port, parked, routes, voice, moved>>

(* Mutant of LevelAtStart: only the virtual stream is looked at.           *)
LevelAtStartVirtual(on) ==
    {volume[i] : i \in on \cap Phone \cap {Virtual}} \cup
        (IF on \cap Phone \cap {Virtual} = {} THEN {NoLevel} ELSE {})

(* find_volume_control_sink_input() on the streams of this sink.           *)
LevelAtStart(on) ==
    {volume[i] : i \in on \cap Phone} \cup (IF on \cap Phone = {} THEN {NoLevel} ELSE {})

(* Where pa_droid_hw_set_mode() routes the stream when a call starts: to   *)
(* the earpiece; if the HAL refuses the mode, to the speaker where that    *)
(* goes first; not at all, NoPort, if the HAL is in the mode already.      *)
CallRoutes == {NoPort} \cup ({Earpiece, Speaker} \cap Devices)

StartCall(d) ==
    IF d = NoPort THEN UNCHANGED <<route, routedBy>>
    ELSE route' = d /\ routedBy' = "mode"

(* Mutant of ParkAndSetMode: the sink is not parked before the mode.       *)
SetModeUnparked(d) == parked' = parked /\ StartCall(d)

(* park_profile(), then the mode.                                          *)
ParkAndSetMode(d) == parked' = TRUE /\ StartCall(d)

(* A profile in call mode is entered: the sink is parked, the mode set and *)
(* pa_droid_sink_set_voice_control(TRUE) called: the virtual stream, if it *)
(* can be created, goes to the sink the core chooses, and its put hook     *)
(* runs first.                                                             *)
StartVoice ==
    /\ ~aborted /\ ~voice
    /\ voice' = TRUE
    /\ \E created \in IF VirtualStream /\ Virtual \notin Connected
                        THEN {{}, {Virtual}} ELSE {{}} :
         /\ \/ here' = here \cup created /\ UNCHANGED away
            \/ away' = away \cup created /\ UNCHANGED here
         /\ voiceLevel' \in
              IF here' \cap Phone = {} /\ created \cap Phone # {}
                THEN {volume[Virtual]} ELSE LevelAtStart(here')
    /\ \E d \in CallRoutes : ParkAndSetMode(d)
    /\ UNCHANGED <<aborted, volume, port, override, stack, moved>>

(* destroy_voice_virtual_stream()                                          *)
StoppedStreams == {Virtual}

(* The profile is left: another mode, so the sink is parked, and           *)
(* pa_droid_sink_set_voice_control(FALSE).                                 *)
StopVoice ==
    /\ ~aborted /\ voice
    /\ voice' = FALSE
    /\ here' = here \ StoppedStreams /\ away' = away \ StoppedStreams
    /\ voiceLevel' = NoLevel /\ moved' = {}
    /\ parked' = TRUE
    /\ UNCHANGED <<aborted, volume, port, routes>>

Next ==
    \/ \E p \in Devices : SetPort(p)
    \/ Park
    \/ OpenOutput
    \/ \E i \in Streams : Put(i) \/ Unlink(i) \/ Move(i) \/ Abort(i)
    \/ \E i \in Streams, l \in Levels : ChangeVolume(i, l)
    \/ StartVoice
    \/ StopVoice

Spec == Init /\ [][Next]_vars

-----------------------------------------------------------------------------
(* Properties.                                                             *)

(* There is no extra device without an override: do_routing() looks at the *)
(* override only, so extra devices that outlived theirs would survive the  *)
(* clearing that a call does and come back in a later search of the list.  *)
StackHasOverride == stack # <<>> => override # NoPort

(* What the HAL plays to.  Routed last by the sink, it is what the sink's  *)
(* own fields say it chose, after any mix of streams, port changes and     *)
(* calls: no path sets an override or a port and forgets to route.  Routed *)
(* by the start of a call, the sink is parked still: whatever port is      *)
(* asked for, the one it had included, routes again.  Routed by an output  *)
(* that was opened, it is the default device.                              *)
RouteIsChosen ==
    /\ routedBy = "sink" =>
          route = IF override # NoPort THEN override
                  ELSE IF port # NoPort THEN port ELSE DefaultDevice
    /\ routedBy = "mode" => parked
    /\ routedBy = "output" => route = DefaultDevice

(* Dynamic routing changes do not apply during a call: what is routed then *)
(* goes to the active port, whatever extra devices were left; another      *)
(* output that is opened is all that can take the stream from there.       *)
CallUsesPort ==
    [][voice /\ (port' # port \/ route' # route) =>
          \/ route' = port'
          \/ port' = port /\ routedBy' = "output"]_vars

(* The voice volume is set in a call only, and only to the volume of a     *)
(* stream that has the voice control property.                             *)
VoiceLevelFromPhone ==
    [][(voiceLevel' # voiceLevel /\ voiceLevel' # NoLevel) =>
          voice' /\ \E i \in Phone : i \in here' \cup away' /\ voiceLevel' = volume'[i]]_vars

(* In a call with a voice control stream on this sink its volume, or a     *)
(* later one's, has been given to the HAL: whether it came first or the    *)
(* call did.  Only a stream moved here during the call is not heard of.    *)
VoiceLevelSet == voice /\ (here \cap Phone) \ moved # {} => voiceLevel # NoLevel

(* The virtual stream does not outlive the call it was created for.        *)
VirtualInCall == Virtual \in Connected => voice

(* An extra route lasts for the duration of its stream: with no stream     *)
(* left that asks for one, a sink nobody else routed plays to its port.    *)
ExtraRouteEnds ==
    /\ ~voice /\ routedBy = "sink" /\ port # NoPort
    /\ \A i \in Inputs \cap Connected : RouteOf[i] = NoPort
    => route = port

=============================================================================
