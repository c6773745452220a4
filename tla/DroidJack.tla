------------------------------ MODULE DroidJack ------------------------------
(***************************************************************************)
(* Detection of wired accessories, from the h2w switch of the kernel (a    *)
(* number that comes with every uevent) or, where that cannot be used,     *)
(* from an input device (one event per switch, then SYN).  The kernel acts *)
(* at any time; its queue is emptied by callbacks of the main loop.        *)
(***************************************************************************)
EXTENDS DroidPorts, Sequences, FiniteSets

CONSTANTS
    Accessories,    \* what may be in the jack
    H2w,            \* the state of the h2w switch for each
    Inserted,       \* the switches of the input device on for each
    MaxQueue,       \* the kernel keeps this many reports for a reader
    MaxPlugs        \* bound on the changes of the jack

Switches == {"headphone", "microphone", "lineout"}

ASSUME JackAssumption ==
    /\ H2w \in [Accessories -> Nat]
    /\ Inserted \in [Accessories -> SUBSET Switches]
    /\ MaxQueue \in Nat \ {0} /\ MaxPlugs \in Nat

VARIABLES
    jack,       \* what is in the jack
    reader,     \* who detects: "none", "extcon" or "extevdev"
    listening,  \* the io event of the reader is there
    seen,       \* current_value, and the sw_*_insert fields that are set
    queue,      \* reports not read yet; of the input device, a report is the
                \* switches that changed and ends when they are all read
    lost,       \* history: how the code may have missed a change
    past,       \* history: what was in the jack so far
    plugs       \* bound: changes so far

jackVars == <<jack, reader, listening, seen, queue, lost, past, plugs>>

Headset == {"output-wired_headset", "input-wired_headset"}
Headphone == {"output-wired_headphone"}
Unseen == [value |-> 0, on |-> {}]
Losses == {"gap", "query", "overflow", "receive", "hangup"}

(* hsmic_avail() and hponly_avail() *)
SwitchPorts(value) ==
    (IF value % 2 = 1 THEN Headset ELSE {}) \cup (IF (value \div 2) % 2 = 1 THEN Headphone ELSE {})

(* notify_ports() of the input device *)
InputPorts(on) ==
    IF on \cap {"headphone", "lineout"} = {} THEN {}
    ELSE IF "microphone" \in on THEN Headset ELSE Headphone

(* notify_ports() *)
Notified(shown) == Announced(ports, shown, WiredPorts \ shown)

JackTypeOK ==
    /\ jack \in Accessories /\ past \subseteq Accessories
    /\ reader \in {"none", "extcon", "extevdev"} /\ listening \in BOOLEAN
    /\ seen \in [value : Nat, on : SUBSET Switches]
    /\ queue \in Seq([value : Nat, changed : SUBSET Switches, on : SUBSET Switches])
    /\ lost \subseteq Losses
    /\ plugs \in 0..MaxPlugs

JackInit ==
    /\ jack \in Accessories /\ past = {jack}
    /\ reader = "none" /\ listening = FALSE /\ seen = Unseen
    /\ queue = <<>> /\ lost = {} /\ plugs = 0

-----------------------------------------------------------------------------
(* The environment: the jack changes, and who listens is sent a report.    *)
(* The queue of an input device that is full is replaced by SYN_DROPPED; a *)
(* full socket loses the uevent.                                           *)
Report(a) ==
    [value |-> H2w[a],
     changed |-> (Inserted[a] \ Inserted[jack]) \cup (Inserted[jack] \ Inserted[a]),
     on |-> Inserted[a]]
Dropped == [value |-> 0, changed |-> {}, on |-> {}]

Plug(a) ==
    /\ plugs < MaxPlugs /\ plugs' = plugs + 1
    /\ a # jack /\ jack' = a /\ past' = past \cup {a}
    /\ \/ /\ listening /\ Len(queue) < MaxQueue
          /\ queue' = Append(queue, Report(a)) /\ UNCHANGED lost
       \/ /\ listening /\ Len(queue) = MaxQueue
          /\ queue' = IF reader = "extcon" THEN queue ELSE <<Dropped>>
          /\ lost' = lost \cup {"overflow"}
       \/ /\ ~listening
          /\ lost' = lost \cup {"gap"} /\ UNCHANGED queue
    /\ UNCHANGED <<reader, listening, seen, ports>>

-----------------------------------------------------------------------------
(* pa_droid_extcon_new(): droid_switch_new() reads the state, ...          *)
ReadSwitch ==
    /\ seen' = [seen EXCEPT !.value = H2w[jack]] /\ lost' = lost \ {"gap"}
    /\ UNCHANGED <<jack, reader, listening, queue, past, plugs, ports>>

(* Mutant of ListenSwitch: ports wait for the first uevent.                *)
ListenSwitchQuietly ==
    /\ reader' = "extcon" /\ listening' = TRUE
    /\ UNCHANGED <<jack, seen, queue, lost, past, plugs, ports>>

(* ... init_udev() listens, and then the ports are told what was read.     *)
ListenSwitch ==
    /\ reader' = "extcon" /\ listening' = TRUE
    /\ ports' = Notified(SwitchPorts(seen.value))
    /\ UNCHANGED <<jack, seen, queue, lost, past, plugs>>

(* udev_cb() *)
SwitchEvent ==
    /\ reader = "extcon" /\ listening /\ queue # <<>>
    /\ seen' = [seen EXCEPT !.value = Head(queue).value]
    /\ ports' = Notified(SwitchPorts(seen'.value))
    /\ queue' = Tail(queue) /\ lost' = lost \ {"gap"}
    /\ UNCHANGED <<jack, reader, listening, past, plugs>>

(* udev_monitor_receive_device() fails: the event is freed.                *)
ReceiveFails ==
    /\ reader = "extcon" /\ listening /\ queue # <<>>
    /\ listening' = FALSE /\ queue' = <<>> /\ lost' = lost \cup {"receive"}
    /\ UNCHANGED <<jack, reader, seen, past, plugs, ports>>

(* pa_droid_extevdev_new(): the device is open from find_input_device() on, *)
OpenInput ==
    /\ reader' = "extevdev" /\ listening' = TRUE /\ seen' = Unseen
    /\ UNCHANGED <<jack, queue, lost, past, plugs, ports>>

(* and query_initial_state() reads its switches, or fails to.  The kernel  *)
(* drops the events that came before.                                      *)
QueryInput ==
    /\ \/ /\ seen' = [seen EXCEPT !.on = Inserted[jack]]
          /\ lost' = lost \ {"gap", "overflow"} /\ queue' = <<>>
          /\ ports' = Notified(InputPorts(seen'.on))
       \/ lost' = lost \cup {"query"} /\ UNCHANGED <<seen, queue, ports>>
    /\ UNCHANGED <<jack, reader, listening, past, plugs>>

Switched(sw) == (seen.on \ {sw}) \cup ({sw} \cap Head(queue).on)

(* Mutant of InputSwitch: the ports do not wait for SYN.                   *)
InputSwitchAtOnce(sw) ==
    /\ reader = "extevdev" /\ listening /\ queue # <<>> /\ sw \in Head(queue).changed
    /\ seen' = [seen EXCEPT !.on = Switched(sw)]
    /\ queue' = [queue EXCEPT ![1].changed = @ \ {sw}]
    /\ ports' = Notified(InputPorts(seen'.on))
    /\ UNCHANGED <<jack, reader, listening, lost, past, plugs>>

(* event_callback(): EV_SW sets one switch, in the order of the driver.    *)
InputSwitch(sw) ==
    /\ reader = "extevdev" /\ listening /\ queue # <<>> /\ sw \in Head(queue).changed
    /\ seen' = [seen EXCEPT !.on = Switched(sw)]
    /\ queue' = [queue EXCEPT ![1].changed = @ \ {sw}]
    /\ UNCHANGED <<jack, reader, listening, lost, past, plugs, ports>>

(* EV_SYN, SYN_DROPPED too, tells the ports.                               *)
InputSyn ==
    /\ reader = "extevdev" /\ listening /\ queue # <<>> /\ Head(queue).changed = {}
    /\ ports' = Notified(InputPorts(seen.on)) /\ queue' = Tail(queue)
    /\ UNCHANGED <<jack, reader, listening, seen, lost, past, plugs>>

(* Hangup, error, or nothing read, then and from then on.                  *)
InputFails ==
    /\ reader = "extevdev" /\ listening
    /\ listening' = FALSE /\ queue' = <<>> /\ lost' = lost \cup {"hangup"}
    /\ UNCHANGED <<jack, reader, seen, past, plugs, ports>>

(* pa_droid_extcon_free() and pa_droid_extevdev_free()                     *)
FreeJack ==
    /\ listening' = FALSE /\ queue' = <<>>
    /\ UNCHANGED <<jack, reader, seen, lost, past, plugs>>

-----------------------------------------------------------------------------
(* What the reader would show for an accessory.                            *)
PortsOf(a) == IF reader = "extcon" THEN SwitchPorts(H2w[a]) ELSE InputPorts(Inserted[a])
Shown == ports.available \cap WiredPorts

(* No port is shown for an accessory that never was in the jack: a headset *)
(* whose switches arrive one by one is not a headphone first.              *)
ShownWasThere ==
    lost \cap {"query", "overflow"} = {} =>
        Shown = {} \/ \E a \in past : Shown = PortsOf(a) \cap CardPorts

=============================================================================
