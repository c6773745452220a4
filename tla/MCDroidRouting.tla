--------------------------- MODULE MCDroidRouting ---------------------------
(***************************************************************************)
(* A primary, a deep buffer and a fast output on a phone with a speaker,   *)
(* an earpiece, a wired and a Bluetooth headset.                           *)
(***************************************************************************)
EXTENDS DroidRouting

MCStreams == {"primary", "deep_buffer", "fast"}
MCDevices == {"speaker", "earpiece", "wired", "bt_sco"}

=============================================================================
