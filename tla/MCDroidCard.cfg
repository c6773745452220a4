SPECIFICATION Spec
CONSTANTS
    VirtualProfiles <- MCVirtualProfiles
    Parent <- MCParent
    AudioMode <- MCAudioMode
    VoiceCall = "voicecall"
    Communication = "communication"
    NoProfile = "none"
    Outputs <- MCOutputs
    EnabledOutputs <- MCEnabledOutputs
    LateOutputs = {"deep_buffer"}
    Primary = "primary"
    VoipRx = "voip_rx"
    EnabledInputs = {"primary_in"}
    DevicePorts <- MCDevicePorts
    DefaultDevice = "speaker"
    Earpiece = "earpiece"
    Speaker = "speaker"
    NoPort = "no port"
    SpeakerBeforeVoice = TRUE
    RealCall = TRUE
    MayFail = TRUE
INVARIANTS EnabledIsLineage ModeOfProfile PortTellsRoute
PROPERTIES ImplementsSession
CHECK_DEADLOCK FALSE
