--------------------------- MODULE MCDroidSource ---------------------------
(***************************************************************************)
(* A phone's microphone and a headset, outputs of two sample specs, one    *)
(* that asks for an audio source, and a mix port for internet calls that   *)
(* has 16-bit mono only: 32-bit samples have no profile there.             *)
(***************************************************************************)
EXTENDS DroidSource

MCOutputs == {"recorder", "dictation"}
MCSpecOf == [o \in MCOutputs |-> IF o = "recorder" THEN "32-bit 48k" ELSE "mono 16k"]
MCSourceOf == [o \in MCOutputs |-> IF o = "recorder" THEN "none" ELSE "recognition"]
MCSpecs == {"stereo 44.1k", "32-bit 48k", "mono 16k"}
MCPorts == {"mic", "headset"}
MCDefaultSource == [p \in MCPorts |-> IF p = "mic" THEN "mic" ELSE "none"]
MCModes == {"NORMAL", "IN_COMMUNICATION"}
MCOverride == [m \in MCModes |-> IF m = "IN_COMMUNICATION" THEN "communication" ELSE "none"]
MCFill == [m \in MCModes |-> [s \in MCSpecs |->
             IF m = "NORMAL" THEN s
             ELSE IF s = "32-bit 48k" THEN "no spec" ELSE "mono 16k"]]

=============================================================================
