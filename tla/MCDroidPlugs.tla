---------------------------- MODULE MCDroidPlugs ----------------------------
EXTENDS DroidPlugs

MCH2w == [nothing |-> 0, headset |-> 1, headphone |-> 2]
MCInserted ==
    [nothing |-> {}, headset |-> {"headphone", "microphone"}, headphone |-> {"headphone"}]
MCPcms == [c1 |-> <<{"playback"}, {"capture"}>>, c2 |-> <<{"playback", "capture"}>>]

=============================================================================
