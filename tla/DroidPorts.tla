----------------------------- MODULE DroidPorts -----------------------------
(***************************************************************************)
(* Availability of the ports of a card that can be plugged in, and what    *)
(* the HAL is told of it: pa_device_port_set_available() does nothing when *)
(* the availability is not new, and calls the card's hook when it is.      *)
(***************************************************************************)
EXTENDS Integers

CONSTANTS
    CardPorts,      \* the ports of the card by their names
    Cards           \* sound cards of USB devices

WiredPorts == {"output-wired_headset", "output-wired_headphone", "input-wired_headset"}
UsbPorts == {"output-usb_headset", "input-usb_headset", "output-usb_device", "input-usb_device"}

NoCard == "no card"     \* usb.card of a port, -1
Gone == "gone"          \* what the HAL knows of a device not connected

ASSUME PortsAssumption ==
    /\ CardPorts \subseteq WiredPorts \cup UsbPorts
    /\ NoCard \notin Cards /\ Gone \notin Cards

VARIABLE ports  \* available: set of ports; usb: the card of every port;
                \* hal: with which card the HAL was told of it, or Gone

PortStates ==
    [available : SUBSET CardPorts,
     usb : [CardPorts -> Cards \cup {NoCard}],
     hal : [CardPorts -> Cards \cup {NoCard, Gone}]]

(* The ports after pa_droid_add_card_ports(): none of these is always      *)
(* connected, and the HAL takes devices for gone.                          *)
NewPorts ==
    [available |-> {},
     usb |-> [p \in CardPorts |-> NoCard],
     hal |-> [p \in CardPorts |-> Gone]]

(* Some ports become available and others not.  For each that changes      *)
(* port_availability_changed_hook_callback() tells the HAL, with the card  *)
(* the port has at the time.                                               *)
Announced(s, on, off) ==
    LET came == (on \cap CardPorts) \ s.available
        went == off \cap s.available
    IN  [s EXCEPT !.available = (@ \cup came) \ went,
                  !.hal = [p \in CardPorts |-> IF p \in came THEN s.usb[p]
                                               ELSE IF p \in went THEN Gone ELSE @[p]]]

=============================================================================
