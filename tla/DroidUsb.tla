------------------------------ MODULE DroidUsb ------------------------------
(***************************************************************************)
(* USB sound cards: those there when the card module is loaded, and those  *)
(* that udev reports later.  All cards of a kind share the ports of it.    *)
(***************************************************************************)
EXTENDS DroidPorts, Sequences, FiniteSets

CONSTANTS
    Pcms,           \* what each card can do: a sequence of PCM devices, each
                    \* a subset of {"playback", "capture"}
    Ignored,        \* cards marked PULSE_IGNORE, or modems
    MaxEvents       \* bound on the cards plugged and unplugged

ASSUME UsbAssumption ==
    /\ \A c \in Cards : Pcms[c] \in Seq(SUBSET {"playback", "capture"})
    /\ Ignored \subseteq Cards /\ MaxEvents \in Nat

VARIABLES
    there,      \* the cards plugged in
    listed,     \* found by udev_enumerate_scan_devices(), not yet handled
    monitored,  \* the io event of the monitor is there
    uevents,    \* uevents not received yet
    known,      \* u->cards: the devpaths, with their caps
    missed,     \* history: an uevent may have been lost, or came too early
    robbed,     \* history: cards whose ports went with another of their kind,
                \* and did not come back with a third
    events      \* bound: events so far

usbVars == <<there, listed, monitored, uevents, known, missed, robbed, events>>

(* The ports of a kind of card: connect_card().                            *)
PortsFor(caps) ==
    CASE caps = {"playback", "capture"} -> {"output-usb_headset", "input-usb_headset"}
      [] caps = {"playback"} -> {"output-usb_device"}
      [] caps = {"capture"} -> {"input-usb_device"}
      [] OTHER -> {}

UsbTypeOK ==
    /\ there \subseteq Cards /\ listed \subseteq Cards /\ monitored \in BOOLEAN
    /\ uevents \in Seq([action : {"change", "remove"}, card : Cards])
    /\ DOMAIN known \subseteq Cards
    /\ \A c \in DOMAIN known : known[c] \in (SUBSET {"playback", "capture"}) \ {{}}
    /\ missed \in BOOLEAN /\ robbed \subseteq Cards
    /\ events \in 0..MaxEvents

UsbInit ==
    /\ there \in SUBSET Cards /\ listed = {} /\ monitored = FALSE
    /\ uevents = <<>> /\ known = << >>
    /\ missed = FALSE /\ robbed = {} /\ events = 0

-----------------------------------------------------------------------------
(* The environment: udev reports to the monitor, if there is one.          *)
Uevent(action, c) ==
    /\ events < MaxEvents /\ events' = events + 1
    /\ IF monitored
       THEN uevents' = Append(uevents, [action |-> action, card |-> c]) /\ UNCHANGED missed
       ELSE missed' = TRUE /\ UNCHANGED uevents
    /\ UNCHANGED <<listed, monitored, known, robbed, ports>>

PlugCard(c) == c \notin there /\ there' = there \cup {c} /\ Uevent("change", c)
UnplugCard(c) == c \in there /\ there' = there \ {c} /\ Uevent("remove", c)

-----------------------------------------------------------------------------
(* inspect_card(): what the first device that opens for anything can do.   *)
Inspected(pcms) ==
    LET usable == {i \in DOMAIN pcms : pcms[i] # {}}
    IN  IF usable = {} THEN {} ELSE pcms[CHOOSE i \in usable : \A j \in usable : i <= j]

(* Devices in use do not open; nor does the card when it is gone.          *)
Opening(c) ==
    IF c \notin there THEN {<<>>}
    ELSE {o \in [DOMAIN Pcms[c] -> SUBSET {"playback", "capture"}] :
             \A i \in DOMAIN o : o[i] \subseteq Pcms[c][i]}

(* connect_card() *)
Connected(c, caps) ==
    Announced([ports EXCEPT !.usb = [p \in CardPorts |-> IF p \in PortsFor(caps) THEN c ELSE @[p]]],
              PortsFor(caps), {})

(* Mutant of Disconnected: all USB ports go.                               *)
DisconnectedAll(c) ==
    Announced([ports EXCEPT !.usb = [p \in CardPorts |-> NoCard]], {}, UsbPorts)

Disconnected(c) ==
    Announced([ports EXCEPT !.usb = [p \in CardPorts |-> IF p \in PortsFor(known[c])
                                                         THEN NoCard ELSE @[p]]],
              {}, PortsFor(known[c]))

(* The known cards that can do the same.                                   *)
Kind(caps) == {d \in DOMAIN known : known[d] = caps}

(* handle_usb_device_added() *)
Added(c, caps) ==
    IF c \in DOMAIN known \/ caps = {}
    THEN UNCHANGED <<known, robbed, ports>>
    ELSE /\ known' = [d \in DOMAIN known \cup {c} |-> IF d = c THEN caps ELSE known[d]]
         /\ robbed' = robbed \ Kind(caps)
         /\ ports' = Connected(c, caps)

(* enumerate_existing(): before there is a monitor, and without a look at  *)
(* the marks of the cards.                                                 *)
Scan ==
    /\ listed' = there
    /\ UNCHANGED <<there, monitored, uevents, known, missed, robbed, events, ports>>

AddListed(c) ==
    /\ c \in listed /\ listed' = listed \ {c}
    /\ \E pcms \in Opening(c) : Added(c, Inspected(pcms))
    /\ UNCHANGED <<there, monitored, uevents, missed, events>>

Monitor ==
    /\ monitored' = TRUE
    /\ UNCHANGED <<there, listed, uevents, known, missed, robbed, events, ports>>

(* monitor_cb() *)
UsbAdded ==
    /\ monitored /\ uevents # <<>> /\ Head(uevents).action = "change"
    /\ LET c == Head(uevents).card IN
         IF c \in Ignored THEN UNCHANGED <<known, robbed, ports>>
         ELSE \E pcms \in Opening(c) : Added(c, Inspected(pcms))
    /\ uevents' = Tail(uevents)
    /\ UNCHANGED <<there, listed, monitored, missed, events>>

(* Mutant of UsbRemoved: the card stays in the table.                      *)
UsbRemovedKept ==
    /\ monitored /\ uevents # <<>> /\ Head(uevents).action = "remove"
    /\ LET c == Head(uevents).card IN
         IF c \in Ignored \/ c \notin DOMAIN known THEN UNCHANGED ports
         ELSE ports' = Disconnected(c)
    /\ uevents' = Tail(uevents)
    /\ UNCHANGED <<there, listed, monitored, known, missed, robbed, events>>

UsbRemoved ==
    /\ monitored /\ uevents # <<>> /\ Head(uevents).action = "remove"
    /\ LET c == Head(uevents).card IN
         IF c \in Ignored \/ c \notin DOMAIN known THEN UNCHANGED <<known, robbed, ports>>
         ELSE /\ known' = [d \in DOMAIN known \ {c} |-> known[d]]
              /\ ports' = Disconnected(c)
              /\ robbed' = (robbed \cup Kind(known[c])) \ {c}
    /\ uevents' = Tail(uevents)
    /\ UNCHANGED <<there, listed, monitored, missed, events>>

(* udev_monitor_receive_device() fails.                                    *)
UsbReceiveFails ==
    /\ monitored /\ uevents # <<>>
    /\ uevents' = Tail(uevents) /\ missed' = TRUE
    /\ UNCHANGED <<there, listed, monitored, known, robbed, events, ports>>

-----------------------------------------------------------------------------
(* A USB port is available only for a card that is known and of its kind,  *)
(* the one the port names.                                                 *)
PortHasCard ==
    \A p \in ports.available \cap UsbPorts :
        LET c == ports.usb[p] IN c \in DOMAIN known /\ p \in PortsFor(known[c])

(* The HAL uses a device exactly while its port is available, and with a   *)
(* card that is still known: never one that was removed.                   *)
HalUsesKnownCard ==
    \A p \in CardPorts :
        /\ ports.hal[p] # Gone <=> p \in ports.available
        /\ p \in ports.available \cap UsbPorts =>
              ports.hal[p] \in DOMAIN known /\ p \in PortsFor(known[ports.hal[p]])

(* Every known card has its ports, the first of its kind to come and those *)
(* that share them, until one of these is removed.                         *)
CardHasPorts ==
    \A c \in DOMAIN known \ robbed : PortsFor(known[c]) \cap CardPorts \subseteq ports.available

(* Whatever cards came and went, in whatever order: ports, known cards and *)
(* what the HAL was told agree, and no card takes the ports of another.    *)
PortsFollowCards == PortHasCard /\ HalUsesKnownCard /\ CardHasPorts

(* When all uevents are handled only cards that are there are known.       *)
KnownIsThere ==
    monitored /\ uevents = <<>> /\ ~missed => DOMAIN known \ Ignored \subseteq there

=============================================================================
