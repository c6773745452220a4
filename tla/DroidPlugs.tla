------------------------------ MODULE DroidPlugs ------------------------------
(***************************************************************************)
(* The accessories of a card: module-droid-card sets up the detection of   *)
(* the jack and of USB cards one after the other when it is loaded, while  *)
(* accessories come and go, and gives it up when it is unloaded.           *)
(***************************************************************************)
EXTENDS DroidJack, DroidUsb

CONSTANTS
    Hardware,       \* what a device may have of {"h2w", "input", "usb"}
    MaxChanges      \* bound on the changes of jack and cards together

ASSUME HardwareAssumption ==
    Hardware \subseteq SUBSET {"h2w", "input", "usb"} /\ MaxChanges \in Nat

VARIABLES
    has,        \* what the device has; "usb" the usb_devices option
    stage       \* how far pa__init() is, "running", "unloaded", "aborted",
                \* or "dangling" when freed memory was used

plugVars == <<jackVars, usbVars, ports, has, stage>>

Stages == {"switch", "listen", "input", "query", "usb", "scan", "monitor", "running",
           "unloaded", "aborted", "dangling"}

PlugTypeOK ==
    /\ ports \in PortStates /\ JackTypeOK /\ UsbTypeOK
    /\ has \in Hardware /\ stage \in Stages

PlugInit ==
    /\ ports = NewPorts /\ JackInit /\ UsbInit
    /\ has \in Hardware /\ stage = "switch"

Wired(act, to) == act /\ stage' = to /\ UNCHANGED <<usbVars, has>>
Usb(act, to) == act /\ stage' = to /\ UNCHANGED <<jackVars, has>>
Goes(from, to) ==
    stage = from /\ stage' = to /\ UNCHANGED <<jackVars, usbVars, ports, has>>

(* pa_droid_extcon_new(): without a switch, or when udev fails, it is an   *)
(* input device.                                                           *)
LoadSwitch == stage = "switch" /\ "h2w" \in has /\ Wired(ReadSwitch, "listen")
NoSwitch == Goes("switch", "input")
LoadListen == stage = "listen" /\ Wired(ListenSwitch, "usb")
NoUdev == Goes("listen", "input")

(* pa_droid_extevdev_new(): without a device it frees an event that is     *)
(* NULL.                                                                   *)
LoadInput == stage = "input" /\ "input" \in has /\ Wired(OpenInput, "query")
NoInput == Goes("input", "aborted")
LoadQuery == stage = "query" /\ Wired(QueryInput, "usb")

(* pa_droid_extusbdev_new(), if the hw module has the option; udev or a    *)
(* monitor that fail are done without.                                     *)
LoadScan == stage = "usb" /\ "usb" \in has /\ Usb(Scan, "scan")
NoUsb == Goes("usb", "running")
LoadListed == \E c \in Cards : stage = "scan" /\ Usb(AddListed(c), "scan")
LoadMonitor == stage = "scan" /\ listed = {} /\ Usb(Monitor, "running")
NoMonitor == listed = {} /\ Goes("scan", "running")

LoadStep ==
    \/ LoadSwitch \/ NoSwitch \/ LoadListen \/ NoUdev \/ LoadInput \/ NoInput \/ LoadQuery
    \/ LoadScan \/ NoUsb \/ LoadListed \/ LoadMonitor \/ NoMonitor

(* pa__done(): pa_droid_extusbdev_free() frees the object only, its io     *)
(* event and monitor stay.                                                 *)
Unload ==
    /\ stage = "running" /\ stage' = "unloaded"
    /\ FreeJack
    /\ UNCHANGED <<usbVars, ports, has>>

(* An io event of an object that was freed.                                *)
Dangle ==
    /\ stage = "unloaded"
    /\ (listening /\ queue # <<>>) \/ (monitored /\ uevents # <<>>)
    /\ stage' = "dangling"
    /\ UNCHANGED <<jackVars, usbVars, ports, has>>

JackStep ==
    /\ stage = "running"
    /\ \/ SwitchEvent \/ ReceiveFails
       \/ (\E sw \in Switches : InputSwitch(sw)) \/ InputSyn \/ InputFails
    /\ UNCHANGED <<usbVars, has, stage>>

UsbStep ==
    /\ stage = "running"
    /\ UsbAdded \/ UsbRemoved \/ UsbReceiveFails
    /\ UNCHANGED <<jackVars, has, stage>>

Kernel ==
    /\ plugs + events < MaxChanges
    /\ \/ (\E a \in Accessories : Plug(a)) /\ UNCHANGED <<usbVars, has, stage>>
       \/ (\E c \in Cards : PlugCard(c) \/ UnplugCard(c)) /\ UNCHANGED <<jackVars, has, stage>>

PlugNext == LoadStep \/ JackStep \/ UsbStep \/ Kernel \/ Unload \/ Dangle

(* pa__init() goes on, and the main loop calls back an io event that is    *)
(* ready.                                                                  *)
PlugSpec ==
    /\ PlugInit /\ [][PlugNext]_plugVars
    /\ WF_plugVars(LoadStep) /\ WF_plugVars(JackStep) /\ WF_plugVars(UsbStep)

-----------------------------------------------------------------------------
(* Once the callbacks have read all reports the ports show what is in the  *)
(* jack, whenever it was changed: while the reader was set up, or while it *)
(* was reading.  Unless the kernel or a failed call lost a change, or one  *)
(* fell between droid_switch_new() and init_udev().                        *)
JackShown ==
    stage # "query" /\ listening /\ queue = <<>> /\ lost = {} =>
        Shown = PortsOf(jack) \cap CardPorts

(* Whatever is plugged in and whenever, the ports come to show it for good *)
(* while the module is loaded and nothing was lost: no change waits for    *)
(* the next one.  And cards that were unplugged are forgotten.             *)
Settles ==
    /\ <>[](stage = "running" /\ lost = {}) => <>[](Shown = PortsOf(jack) \cap CardPorts)
    /\ <>[](stage = "running" /\ monitored /\ ~missed) => <>[](DOMAIN known \ Ignored \subseteq there)

(* Nothing calls back into freed memory but the USB monitor, which         *)
(* pa_droid_extusbdev_free() leaves in the main loop.                      *)
FreedIsSilent == stage = "dangling" => "usb" \in has /\ ~listening

=============================================================================
