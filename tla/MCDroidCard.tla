---------------------------- MODULE MCDroidCard ----------------------------
(***************************************************************************)
(* The profiles pa__init() adds, on a configuration with a primary, a deep *)
(* buffer and a VoIP output and three output devices.                      *)
(***************************************************************************)
EXTENDS DroidCard

MCVirtualProfiles == {"voicecall", "voicecall-record", "communication", "ringtone"}
MCParent == [v \in MCVirtualProfiles |->
                IF v = "voicecall-record" THEN "voicecall" ELSE "none"]
MCAudioMode == [v \in MCVirtualProfiles |->
                CASE v = "communication" -> "IN_COMMUNICATION"
                  [] v = "ringtone" -> "RINGTONE"
                  [] OTHER -> "IN_CALL"]
MCOutputs == {"primary", "deep_buffer", "voip_rx"}
MCEnabledOutputs == {"primary", "deep_buffer"}
MCDevicePorts == {"speaker", "earpiece", "headphone"}

=============================================================================
