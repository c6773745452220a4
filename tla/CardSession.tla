---------------------------- MODULE CardSession ----------------------------
(***************************************************************************)
(* What README.md promises of set-card-profile, as a function of the       *)
(* profile asked for: its audio mode, voice volume control in calls, the   *)
(* sinks and sources of the default profile kept through virtual profiles, *)
(* a VoIP sink in the communication profile.  There is no remembered real  *)
(* profile, no enabled flag and no parking here.                           *)
(***************************************************************************)
CONSTANTS VirtualProfiles, Parent, AudioMode, VoiceCall, Communication,
          EnabledOutputs, Primary, VoipRx, EnabledInputs

VARIABLES
    profile,    \* the profile last selected
    hal,        \* audio mode of the HAL
    callVolume, \* whether streams of the call, not the sink, set the volume
    outputs,    \* open sinks
    inputs      \* open sources

vars == <<profile, hal, callVolume, outputs, inputs>>

InCall(p) == p = VoiceCall \/ (p \in VirtualProfiles /\ Parent[p] = VoiceCall)

Closed == profile = "off" /\ hal = "NORMAL" /\ callVolume = FALSE /\ outputs = {} /\ inputs = {}

Init == Closed

(* The HAL may refuse a mode, and then stays in the one it is in.          *)
SelectVirtual(p) ==
    /\ profile # "off"
    /\ profile' = p
    /\ hal' \in {hal, AudioMode[p]}
    /\ outputs' \ {VoipRx} = outputs \ {VoipRx}
    /\ VoipRx \in outputs' => p = Communication
    /\ callVolume' = (InCall(p) /\ Primary \in outputs)
    /\ inputs' = inputs

(* Back to the default profile, its sinks and sources are still there; from *)
(* off they are opened, each of them if the HAL lets it.                    *)
SelectDefault ==
    /\ profile' = "default"
    /\ hal' \in {hal, "NORMAL"}
    /\ IF profile \in VirtualProfiles
         THEN outputs' = outputs \ {VoipRx} /\ inputs' = inputs
         ELSE outputs' \subseteq EnabledOutputs /\ inputs \subseteq inputs' /\ inputs' \subseteq EnabledInputs
    /\ callVolume' = FALSE

SelectOff ==
    /\ profile' = "off"
    /\ hal' \in {hal, "NORMAL"}
    /\ outputs' = {}
    /\ inputs' = inputs
    /\ callVolume' = FALSE

Close ==
    /\ profile' = "off" /\ hal' = "NORMAL" /\ callVolume' = FALSE
    /\ outputs' = {} /\ inputs' = {}

Next ==
    \/ \E p \in VirtualProfiles : SelectVirtual(p)
    \/ SelectDefault
    \/ SelectOff
    \/ Close

Spec == Init /\ [][Next]_vars

=============================================================================
