SPECIFICATION PlugSpec
CONSTANTS
    CardPorts = {"output-wired_headset", "output-wired_headphone", "input-wired_headset",
                 "output-usb_headset", "input-usb_headset", "output-usb_device"}
    Cards = {"c1", "c2"}
    Accessories = {"nothing", "headset", "headphone"}
    H2w <- MCH2w
    Inserted <- MCInserted
    MaxQueue = 2
    MaxPlugs = 3
    Pcms <- MCPcms
    Ignored = {"c1"}
    MaxEvents = 3
    Hardware = {{}, {"h2w", "input", "usb"}}
    MaxChanges = 3
INVARIANT JackShown ShownWasThere PortsFollowCards KnownIsThere
PROPERTY Settles
CHECK_DEADLOCK FALSE
