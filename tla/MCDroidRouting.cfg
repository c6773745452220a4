SPECIFICATION Spec
CONSTANTS
    Streams <- MCStreams
    Primary = "primary"
    Devices <- MCDevices
    BtSco = {"bt_sco"}
    DefaultDevice = "speaker"
    Earpiece = "earpiece"
    Speaker = "speaker"
    NoPort = "no port"
    Legacy = FALSE
    SpeakerBeforeVoice = TRUE
    MayFail = TRUE
INVARIANT OneDevice BtScoFollowsRoute PatchHasPort
CHECK_DEADLOCK FALSE
