-------------------------- MODULE DroidPlugs_proofs --------------------------
(***************************************************************************)
(* Theorems of DroidPlugs about the cards and their ports, for any cards,  *)
(* devices and ports, and with no bound on what is plugged and unplugged.  *)
(***************************************************************************)
EXTENDS DroidPlugs, SequenceTheorems, WellFoundedInduction, TLAPS

Uevents == [action : {"change", "remove"}, card : Cards]

(* Before the monitor there is nothing to miss; with it, a known card that *)
(* is gone has its removal among the uevents to come.                      *)
GoneIsReported ==
    ~missed =>
        /\ ~monitored => DOMAIN known \cup listed \subseteq there
        /\ monitored => \A c \in (DOMAIN known \ Ignored) \ there :
              \E i \in 1..Len(uevents) : uevents[i] = [action |-> "remove", card |-> c]

UsbPart ==
    /\ ports \in PortStates /\ DOMAIN known \subseteq Cards /\ listed \subseteq Cards
    /\ there \subseteq Cards /\ uevents \in Seq(Uevents)

UsbInv ==
    /\ UsbPart
    /\ PortHasCard /\ HalUsesKnownCard /\ CardHasPorts
    /\ GoneIsReported

-----------------------------------------------------------------------------
LEMMA PortNames == WiredPorts \cap UsbPorts = {} /\ \A c : PortsFor(c) \subseteq UsbPorts
BY DEF WiredPorts, UsbPorts, PortsFor

(* A port belongs to one kind of card.                                     *)
LEMMA PortsDiffer ==
    ASSUME NEW a, NEW b, a # b PROVE PortsFor(a) \cap PortsFor(b) = {}
<1> DEFINE both == {"playback", "capture"} play == {"playback"} capt == {"capture"}
<1>1. both # play /\ both # capt /\ play # capt
    OBVIOUS
<1>2. \A c : /\ c = both => PortsFor(c) = {"output-usb_headset", "input-usb_headset"}
             /\ c = play => PortsFor(c) = {"output-usb_device"}
             /\ c = capt => PortsFor(c) = {"input-usb_device"}
             /\ c \notin {both, play, capt} => PortsFor(c) = {}
    BY <1>1 DEF PortsFor
<1> HIDE DEF both, play, capt
<1> QED BY <1>2

(* What pa_device_port_set_available() leaves of the ports.                *)
LEMMA AnnouncedParts ==
    ASSUME NEW s \in PortStates, NEW on, NEW off
    PROVE  LET new == Announced(s, on, off)
               came == (on \cap CardPorts) \ s.available
               went == off \cap s.available
           IN  /\ new \in PortStates
               /\ new.available = (s.available \cup came) \ went
               /\ new.usb = s.usb
               /\ \A p \in CardPorts :
                     new.hal[p] = IF p \in came THEN s.usb[p] ELSE IF p \in went THEN Gone ELSE s.hal[p]
<1> DEFINE came == (on \cap CardPorts) \ s.available
           went == off \cap s.available
           avail == (s.available \cup came) \ went
           hal == [p \in CardPorts |-> IF p \in came THEN s.usb[p] ELSE IF p \in went THEN Gone ELSE s.hal[p]]
<1>1. /\ s = [available |-> s.available, usb |-> s.usb, hal |-> s.hal]
      /\ s.available \subseteq CardPorts
      /\ s.usb \in [CardPorts -> Cards \cup {NoCard}]
      /\ s.hal \in [CardPorts -> Cards \cup {NoCard, Gone}]
    BY DEF PortStates
<1>2. Announced(s, on, off) = [available |-> avail, usb |-> s.usb, hal |-> hal]
  <2>1. Announced(s, on, off) = [s EXCEPT !.available = avail, !.hal = hal]
    BY DEF Announced
  <2> HIDE DEF avail, hal
  <2> QED BY <1>1, <2>1
<1>3. avail \subseteq CardPorts
    BY <1>1
<1>4. hal \in [CardPorts -> Cards \cup {NoCard, Gone}]
    BY <1>1
<1> HIDE DEF avail, hal
<1>5. [available |-> avail, usb |-> s.usb, hal |-> hal] \in PortStates
    BY <1>1, <1>3, <1>4 DEF PortStates
<1>6. /\ Announced(s, on, off).available = avail /\ Announced(s, on, off).usb = s.usb
      /\ Announced(s, on, off).hal = hal
    BY <1>2
<1>7. \A p \in CardPorts :
         hal[p] = IF p \in came THEN s.usb[p] ELSE IF p \in went THEN Gone ELSE s.hal[p]
    BY DEF hal
<1> QED BY <1>2, <1>5, <1>6, <1>7 DEF avail

(* A change of the wired ports.                                            *)
LEMMA WiredKeeps ==
    ASSUME UsbInv, NEW shown \in SUBSET WiredPorts, ports' = Notified(shown), UNCHANGED usbVars
    PROVE  UsbInv'
<1>1. ports \in PortStates
    BY DEF UsbInv, UsbPart
<1>2. /\ ports' \in PortStates /\ ports'.usb = ports.usb
      /\ \A p \in UsbPorts : p \in ports'.available <=> p \in ports.available
      /\ \A p \in UsbPorts \cap CardPorts : ports'.hal[p] = ports.hal[p]
    BY <1>1, AnnouncedParts, PortNames DEF Notified
<1>3. \A p \in CardPorts \ UsbPorts : ports'.hal[p] # Gone <=> p \in ports'.available
  <2>1. \A p \in CardPorts : ports.usb[p] # Gone
    BY <1>1, PortsAssumption DEF PortStates, NoCard, Gone
  <2> QED BY <1>1, <2>1, AnnouncedParts DEF Notified, UsbInv, HalUsesKnownCard
<1>4. PortHasCard'
    BY <1>2 DEF UsbInv, PortHasCard, usbVars
<1>5. HalUsesKnownCard'
    BY <1>2, <1>3 DEF UsbInv, HalUsesKnownCard, usbVars
<1>6. CardHasPorts'
    BY <1>2, PortNames DEF UsbInv, CardHasPorts, usbVars
<1> QED BY <1>2, <1>4, <1>5, <1>6 DEF UsbInv, UsbPart, usbVars, GoneIsReported

(* The ports and nothing of the cards are the same.                        *)
LEMMA SameKeeps ==
    ASSUME UsbInv, UNCHANGED <<ports, usbVars>> PROVE UsbInv'
BY DEF UsbInv, UsbPart, usbVars, PortHasCard, HalUsesKnownCard, CardHasPorts, GoneIsReported

(* The parts of UsbInv that connecting or disconnecting a card is about.   *)
CardPart == PortHasCard /\ HalUsesKnownCard /\ CardHasPorts

LEMMA AddedKeeps ==
    ASSUME UsbInv, NEW c \in Cards, NEW caps, Added(c, caps)
    PROVE  /\ CardPart' /\ ports' \in PortStates
           /\ DOMAIN known' \subseteq DOMAIN known \cup {c}
           /\ caps = {} => DOMAIN known' = DOMAIN known
<1>1. CASE c \in DOMAIN known \/ caps = {}
    BY <1>1 DEF Added, UsbInv, UsbPart, CardPart, PortHasCard, HalUsesKnownCard, CardHasPorts
<1>2. CASE ~(c \in DOMAIN known \/ caps = {})
  <2> DEFINE s == [ports EXCEPT !.usb = [p \in CardPorts |-> IF p \in PortsFor(caps) THEN c ELSE @[p]]]
  <2>1. /\ known' = [d \in DOMAIN known \cup {c} |-> IF d = c THEN caps ELSE known[d]]
        /\ \A d \in DOMAIN known : known[d] # caps /\ d \in robbed => d \in robbed'
        /\ ports' = Announced(s, PortsFor(caps), {})
    BY <1>2 DEF Added, Connected, Kind
  <2>2. /\ ports \in PortStates
        /\ ports.available \subseteq CardPorts
        /\ ports.usb \in [CardPorts -> Cards \cup {NoCard}]
    BY DEF UsbInv, UsbPart, PortStates
  <2>3. /\ s \in PortStates /\ s.available = ports.available /\ s.hal = ports.hal
        /\ \A p \in CardPorts : s.usb[p] = IF p \in PortsFor(caps) THEN c ELSE ports.usb[p]
    BY <2>2 DEF PortStates
  <2> HIDE DEF s
  <2>4. /\ ports' \in PortStates
        /\ ports'.available = ports.available \cup (PortsFor(caps) \cap CardPorts)
        /\ \A p \in CardPorts : ports'.usb[p] = IF p \in PortsFor(caps) THEN c ELSE ports.usb[p]
        /\ \A p \in CardPorts : ports'.hal[p] = IF p \in PortsFor(caps) \ ports.available THEN c
                                               ELSE ports.hal[p]
    <3> DEFINE on == PortsFor(caps)
    <3>1. /\ Announced(s, on, {}) \in PortStates
          /\ Announced(s, on, {}).available = s.available \cup (on \cap CardPorts)
          /\ Announced(s, on, {}).usb = s.usb
          /\ \A p \in CardPorts :
                Announced(s, on, {}).hal[p] = IF p \in on \ s.available THEN s.usb[p] ELSE s.hal[p]
        BY <2>3, AnnouncedParts
    <3> HIDE DEF on
    <3> QED BY <2>1, <2>3, <3>1 DEF on
  <2>5. c # Gone
    BY PortsAssumption
  <2>6. PortHasCard'
    BY <2>1, <2>2, <2>4, <1>2 DEF UsbInv, PortHasCard
  <2>7. HalUsesKnownCard'
    BY <2>1, <2>2, <2>4, <2>5, <1>2 DEF UsbInv, HalUsesKnownCard
  <2>8. CardHasPorts'
    BY <2>1, <2>2, <2>4 DEF UsbInv, CardHasPorts
  <2> QED BY <2>1, <2>4, <2>6, <2>7, <2>8, <1>2 DEF CardPart
<1> QED BY <1>1, <1>2

LEMMA RemovedKeeps ==
    ASSUME UsbInv, NEW c \in DOMAIN known,
           known' = [d \in DOMAIN known \ {c} |-> known[d]],
           ports' = Disconnected(c), robbed' = (robbed \cup Kind(known[c])) \ {c}
    PROVE  CardPart' /\ ports' \in PortStates
<1> DEFINE gone == PortsFor(known[c])
           s == [ports EXCEPT !.usb = [p \in CardPorts |-> IF p \in gone THEN NoCard ELSE @[p]]]
<1>1. /\ ports \in PortStates
      /\ ports.available \subseteq CardPorts
      /\ ports.usb \in [CardPorts -> Cards \cup {NoCard}]
    BY DEF UsbInv, UsbPart, PortStates
<1>2. /\ s \in PortStates /\ s.available = ports.available /\ s.hal = ports.hal
      /\ \A p \in CardPorts : s.usb[p] = IF p \in gone THEN NoCard ELSE ports.usb[p]
    BY <1>1 DEF PortStates
<1>3. ports' = Announced(s, {}, gone)
    BY DEF Disconnected
<1> HIDE DEF s, gone
<1>4. /\ ports' \in PortStates
      /\ ports'.available = ports.available \ gone
      /\ \A p \in CardPorts : ports'.usb[p] = IF p \in gone THEN NoCard ELSE ports.usb[p]
      /\ \A p \in CardPorts : ports'.hal[p] = IF p \in gone \cap ports.available THEN Gone ELSE ports.hal[p]
    BY <1>1, <1>2, <1>3, AnnouncedParts
<1>5. \A d \in DOMAIN known : known[d] # known[c] => PortsFor(known[d]) \cap gone = {}
    BY PortsDiffer DEF gone
<1>6. PortHasCard'
    BY <1>1, <1>4 DEF UsbInv, PortHasCard, gone
<1>7. HalUsesKnownCard'
    BY <1>1, <1>4 DEF UsbInv, HalUsesKnownCard, gone
<1>8. CardHasPorts'
    BY <1>1, <1>4, <1>5 DEF UsbInv, CardHasPorts, Kind
<1> QED BY <1>4, <1>6, <1>7, <1>8 DEF CardPart

-----------------------------------------------------------------------------
(* One lemma for each step of the cards.                                   *)

LEMMA SwitchPortsWired ==
    /\ \A v : SwitchPorts(v) \subseteq WiredPorts
    /\ \A on : InputPorts(on) \subseteq WiredPorts
BY DEF SwitchPorts, InputPorts, Headset, Headphone, WiredPorts

(* A card that is not there opens for nothing.                             *)
LEMMA GoneOpensNot ==
    ASSUME NEW c \in Cards, c \notin there, NEW pcms \in Opening(c) PROVE Inspected(pcms) = {}
<1>1. pcms = <<>> /\ DOMAIN pcms = {}
    BY DEF Opening
<1>2. {i \in DOMAIN pcms : pcms[i] # {}} = {}
    BY <1>1
<1> QED BY <1>2 DEF Inspected

LEMMA UeventKeeps ==
    ASSUME UsbInv, NEW c \in Cards, PlugCard(c) \/ UnplugCard(c) PROVE UsbInv'
<1>1. CardPart' /\ UNCHANGED <<ports, known, robbed, monitored, listed>>
    BY DEF PlugCard, UnplugCard, Uevent, UsbInv, CardPart, PortHasCard, HalUsesKnownCard,
           CardHasPorts
<1>2. there' \subseteq Cards
    BY DEF PlugCard, UnplugCard, UsbInv, UsbPart
<1>3. CASE ~monitored
  <2>1. missed' /\ UNCHANGED uevents
    BY <1>3 DEF PlugCard, UnplugCard, Uevent
  <2> QED BY <1>1, <1>2, <2>1 DEF UsbInv, UsbPart, CardPart, GoneIsReported
<1>4. CASE monitored
  <2> DEFINE n == Len(uevents)
  <2>1. PICK action \in {"change", "remove"} :
            /\ uevents' = Append(uevents, [action |-> action, card |-> c])
            /\ missed' = missed
            /\ action = "change" => there' = there \cup {c}
            /\ action = "remove" => there' = there \ {c}
    BY <1>4 DEF PlugCard, UnplugCard, Uevent
  <2>2. uevents \in Seq(Uevents)
    BY DEF UsbInv, UsbPart
  <2>3. [action |-> action, card |-> c] \in Uevents
    BY DEF Uevents
  <2>4. /\ uevents' \in Seq(Uevents) /\ Len(uevents') = n + 1 /\ n \in Nat
        /\ \A i \in 1..n : uevents'[i] = uevents[i]
        /\ uevents'[n + 1] = [action |-> action, card |-> c]
    BY <2>1, <2>2, <2>3, AppendProperties, LenProperties
  <2>5. GoneIsReported'
    <3> SUFFICES ASSUME ~missed, NEW d \in (DOMAIN known \ Ignored) \ there'
                 PROVE  \E i \in 1..Len(uevents') : uevents'[i] = [action |-> "remove", card |-> d]
        BY <1>1, <1>4, <2>1 DEF GoneIsReported
    <3>1. CASE d \in there
        BY <3>1, <2>1, <2>4
    <3>2. CASE d \notin there
      <4>1. PICK i \in 1..n : uevents[i] = [action |-> "remove", card |-> d]
        BY <3>2, <1>4 DEF UsbInv, GoneIsReported
      <4> QED BY <4>1, <2>4
    <3> QED BY <3>1, <3>2
  <2> QED BY <1>1, <1>2, <2>4, <2>5 DEF UsbInv, UsbPart, CardPart
<1> QED BY <1>3, <1>4

LEMMA ScanKeeps ==
    ASSUME UsbInv, Scan PROVE UsbInv'
BY DEF Scan, UsbInv, UsbPart, PortHasCard, HalUsesKnownCard, CardHasPorts, GoneIsReported

LEMMA MonitorKeeps ==
    ASSUME UsbInv, Monitor \/ UsbReceiveFails PROVE UsbInv'
<1>1. uevents \in Seq(Uevents) /\ (uevents # <<>> => Tail(uevents) \in Seq(Uevents))
    BY HeadTailProperties DEF UsbInv, UsbPart
<1>2. CASE Monitor
  <2>1. UNCHANGED <<there, listed, uevents, known, missed, robbed, ports>>
    BY <1>2 DEF Monitor
  <2>2. ~missed => DOMAIN known \ Ignored \subseteq there
                   \/ \A c \in (DOMAIN known \ Ignored) \ there :
                          \E i \in 1..Len(uevents) : uevents[i] = [action |-> "remove", card |-> c]
    BY DEF UsbInv, GoneIsReported
  <2>3. GoneIsReported'
    BY <1>2, <2>1, <2>2 DEF Monitor, GoneIsReported
  <2> QED BY <2>1, <2>3 DEF UsbInv, UsbPart, PortHasCard, HalUsesKnownCard, CardHasPorts
<1>3. CASE UsbReceiveFails
    BY <1>1, <1>3 DEF UsbReceiveFails, UsbInv, UsbPart, PortHasCard, HalUsesKnownCard, CardHasPorts,
                      GoneIsReported
<1> QED BY <1>2, <1>3

LEMMA AddListedKeeps ==
    ASSUME UsbInv, NEW c \in Cards, AddListed(c) PROVE UsbInv'
<1>1. PICK pcms \in Opening(c) : Added(c, Inspected(pcms))
    BY DEF AddListed
<1>2. /\ CardPart' /\ ports' \in PortStates
      /\ DOMAIN known' \subseteq DOMAIN known \cup {c}
      /\ c \notin there => DOMAIN known' = DOMAIN known
    BY <1>1, AddedKeeps, GoneOpensNot
<1> QED BY <1>2 DEF AddListed, UsbInv, UsbPart, CardPart, GoneIsReported

(* The uevents after the first one.                                        *)
LEMMA TailKeeps ==
    ASSUME uevents \in Seq(Uevents), uevents # <<>>
    PROVE  /\ Tail(uevents) \in Seq(Uevents) /\ Head(uevents) \in Uevents
           /\ \A u : (\E i \in 1..Len(uevents) : uevents[i] = u) /\ Head(uevents) # u =>
                  \E i \in 1..Len(Tail(uevents)) : Tail(uevents)[i] = u
<1>1. /\ Tail(uevents) \in Seq(Uevents) /\ Head(uevents) \in Uevents
      /\ Len(Tail(uevents)) = Len(uevents) - 1 /\ Len(uevents) \in Nat \ {0}
      /\ Head(uevents) = uevents[1]
      /\ \A i \in 1..Len(Tail(uevents)) : Tail(uevents)[i] = uevents[i + 1]
    BY HeadTailProperties, EmptySeq, LenProperties
<1>2. ASSUME NEW u, NEW i \in 1..Len(uevents), uevents[i] = u, Head(uevents) # u
      PROVE  \E j \in 1..Len(Tail(uevents)) : Tail(uevents)[j] = u
  <2>1. i - 1 \in 1..Len(Tail(uevents)) /\ (i - 1) + 1 = i
    BY <1>1, <1>2
  <2> QED BY <1>1, <1>2, <2>1
<1> QED BY <1>1, <1>2

LEMMA UsbAddedKeeps ==
    ASSUME UsbInv, UsbAdded PROVE UsbInv'
<1> DEFINE c == Head(uevents).card
<1>1. /\ uevents' = Tail(uevents) /\ uevents' \in Seq(Uevents) /\ c \in Cards
      /\ Head(uevents).action = "change" /\ monitored
      /\ UNCHANGED <<there, listed, monitored, missed>>
      /\ \A d : (\E i \in 1..Len(uevents) : uevents[i] = [action |-> "remove", card |-> d]) =>
             \E i \in 1..Len(uevents') : uevents'[i] = [action |-> "remove", card |-> d]
  <2>1. uevents \in Seq(Uevents) /\ uevents # <<>>
    BY DEF UsbAdded, UsbInv, UsbPart
  <2>2. Head(uevents) \in Uevents /\ Tail(uevents) \in Seq(Uevents)
    BY <2>1, TailKeeps
  <2>3. c \in Cards
    BY <2>2 DEF Uevents
  <2>4. \A d : Head(uevents) # [action |-> "remove", card |-> d]
    BY DEF UsbAdded
  <2> QED BY <2>1, <2>2, <2>3, <2>4, TailKeeps DEF UsbAdded
<1>2. /\ CardPart' /\ ports' \in PortStates
      /\ DOMAIN known' \subseteq DOMAIN known \cup {c}
      /\ c \notin there => DOMAIN known' = DOMAIN known
  <2>1. CASE c \in Ignored
    BY <2>1 DEF UsbAdded, UsbInv, UsbPart, CardPart, PortHasCard, HalUsesKnownCard, CardHasPorts
  <2>2. CASE c \notin Ignored
    <3>1. PICK pcms \in Opening(c) : Added(c, Inspected(pcms))
        BY <2>2 DEF UsbAdded
    <3> QED BY <1>1, <3>1, AddedKeeps, GoneOpensNot
  <2> QED BY <2>1, <2>2
<1> HIDE DEF c
<1> QED BY <1>1, <1>2 DEF UsbInv, UsbPart, CardPart, GoneIsReported

LEMMA UsbRemovedKeeps ==
    ASSUME UsbInv, UsbRemoved PROVE UsbInv'
<1> DEFINE c == Head(uevents).card
<1>1. /\ uevents' = Tail(uevents) /\ uevents' \in Seq(Uevents) /\ c \in Cards /\ monitored
      /\ UNCHANGED <<there, listed, monitored, missed>>
      /\ \A d : d # c /\ (\E i \in 1..Len(uevents) : uevents[i] = [action |-> "remove", card |-> d]) =>
             \E i \in 1..Len(uevents') : uevents'[i] = [action |-> "remove", card |-> d]
  <2>1. uevents \in Seq(Uevents) /\ uevents # <<>>
    BY DEF UsbRemoved, UsbInv, UsbPart
  <2>2. Head(uevents) \in Uevents /\ Tail(uevents) \in Seq(Uevents)
    BY <2>1, TailKeeps
  <2>3. c \in Cards
    BY <2>2 DEF Uevents
  <2>4. \A d : d # c => Head(uevents) # [action |-> "remove", card |-> d]
    OBVIOUS
  <2> QED BY <2>1, <2>2, <2>3, <2>4, TailKeeps DEF UsbRemoved
<1>2. /\ CardPart' /\ ports' \in PortStates
      /\ DOMAIN known' \subseteq DOMAIN known
      /\ c \in DOMAIN known' => c \in Ignored
  <2>1. CASE c \in Ignored \/ c \notin DOMAIN known
    BY <2>1 DEF UsbRemoved, UsbInv, UsbPart, CardPart, PortHasCard, HalUsesKnownCard, CardHasPorts
  <2>2. CASE ~(c \in Ignored \/ c \notin DOMAIN known)
    <3>1. /\ known' = [d \in DOMAIN known \ {c} |-> known[d]]
          /\ ports' = Disconnected(c) /\ robbed' = (robbed \cup Kind(known[c])) \ {c}
        BY <2>2 DEF UsbRemoved
    <3> QED BY <2>2, <3>1, RemovedKeeps
  <2> QED BY <2>1, <2>2
<1> HIDE DEF c
<1> QED BY <1>1, <1>2 DEF UsbInv, UsbPart, CardPart, GoneIsReported

-----------------------------------------------------------------------------
(* Any step of the card module, its callbacks, or the world around.        *)

LEMMA UsbInvStep ==
    ASSUME UsbInv, [PlugNext]_plugVars PROVE UsbInv'
<1>1. CASE LoadStep
  <2>1. CASE LoadListen \/ LoadQuery
    <3>1. UNCHANGED usbVars
        BY <2>1 DEF LoadListen, LoadQuery, Wired
    <3>2. UNCHANGED ports \/ \E shown \in SUBSET WiredPorts : ports' = Notified(shown)
        BY <2>1, SwitchPortsWired
        DEF LoadListen, LoadQuery, Wired, ListenSwitch, QueryInput
    <3> QED BY <3>1, <3>2, WiredKeeps, SameKeeps
  <2>2. CASE LoadScan \/ LoadMonitor
    BY <2>2, ScanKeeps, MonitorKeeps DEF LoadScan, LoadMonitor, Usb
  <2>3. CASE LoadListed
    BY <2>3, AddListedKeeps DEF LoadListed, Usb
  <2>4. CASE LoadSwitch \/ NoSwitch \/ NoUdev \/ LoadInput \/ NoInput \/ NoUsb \/ NoMonitor
    <3>1. UNCHANGED <<ports, usbVars>>
        BY <2>4
        DEF LoadSwitch, NoSwitch, NoUdev, LoadInput, NoInput, NoUsb, NoMonitor, Goes, Wired,
            ReadSwitch, OpenInput
    <3> QED BY <3>1, SameKeeps
  <2> QED BY <1>1, <2>1, <2>2, <2>3, <2>4 DEF LoadStep
<1>2. CASE JackStep
  <2>1. UNCHANGED usbVars
    BY <1>2 DEF JackStep
  <2>2. UNCHANGED ports \/ \E shown \in SUBSET WiredPorts : ports' = Notified(shown)
    BY <1>2, SwitchPortsWired
    DEF JackStep, SwitchEvent, ReceiveFails, InputSwitch, InputSyn, InputFails
  <2> QED BY <2>1, <2>2, WiredKeeps, SameKeeps
<1>3. CASE UsbStep
    BY <1>3, UsbAddedKeeps, UsbRemovedKeeps, MonitorKeeps DEF UsbStep
<1>4. CASE Kernel
  <2>1. CASE \E a \in Accessories : Plug(a) /\ UNCHANGED <<usbVars, has, stage>>
    <3>1. UNCHANGED <<ports, usbVars>>
        BY <2>1 DEF Plug
    <3> QED BY <3>1, SameKeeps
  <2>2. CASE \E c \in Cards : PlugCard(c) \/ UnplugCard(c)
    BY <2>2, UeventKeeps
  <2> QED BY <1>4, <2>1, <2>2 DEF Kernel
<1>5. CASE Unload \/ Dangle \/ UNCHANGED plugVars
    BY <1>5, SameKeeps DEF Unload, Dangle, plugVars
<1> QED BY <1>1, <1>2, <1>3, <1>4, <1>5 DEF PlugNext

LEMMA UsbInvInit == PlugInit => UsbInv
<1> SUFFICES ASSUME PlugInit PROVE UsbInv
    OBVIOUS
<1>1. /\ ports = NewPorts /\ there \subseteq Cards /\ listed = {} /\ monitored = FALSE
      /\ uevents = <<>> /\ DOMAIN known = {} /\ missed = FALSE
    BY DEF PlugInit, UsbInit
<1>2. ports \in PortStates
    BY <1>1 DEF NewPorts, PortStates
<1>3. uevents \in Seq(Uevents)
    BY <1>1, EmptySeq
<1> QED BY <1>1, <1>2, <1>3
        DEF UsbInv, UsbPart, PortHasCard, HalUsesKnownCard, CardHasPorts,
            GoneIsReported, NewPorts

(* The USB ports of extusbdev.c follow the cards for ever, with any number *)
(* of cards of any kind, plugged and unplugged at any time, in the middle  *)
(* of loading too.                                                         *)
THEOREM UsbSafety == PlugSpec => []PortsFollowCards
<1>1. UsbInv => PortsFollowCards
    BY DEF UsbInv, PortsFollowCards
<1> QED BY UsbInvInit, UsbInvStep, <1>1, PTL DEF PlugSpec

(* With all uevents handled monitor_cb() has forgotten every card that is  *)
(* gone: enumerating first and monitoring then only loses cards that       *)
(* were unplugged in between.                                              *)
THEOREM KnownCardsAreThere == PlugSpec => []KnownIsThere
<1>1. UsbInv => KnownIsThere
  <2> SUFFICES ASSUME UsbInv, monitored, uevents = <<>>, ~missed
               PROVE  DOMAIN known \ Ignored \subseteq there
    BY DEF KnownIsThere
  <2>1. Len(uevents) = 0 /\ 1..Len(uevents) = {}
    BY EmptySeq
  <2> QED BY <2>1 DEF UsbInv, GoneIsReported
<1> QED BY UsbInvInit, UsbInvStep, <1>1, PTL DEF PlugSpec

-----------------------------------------------------------------------------
(* Types.                                                                  *)

Reports == [value : Nat, changed : SUBSET Switches, on : SUBSET Switches]
Seen == [value : Nat, on : SUBSET Switches]

LEMMA ReportIs ==
    ASSUME jack \in Accessories, NEW a \in Accessories
    PROVE  Report(a) \in Reports /\ Dropped \in Reports /\ Inserted[a] \in SUBSET Switches
           /\ H2w[a] \in Nat
<1>1. Inserted[a] \in SUBSET Switches /\ Inserted[jack] \in SUBSET Switches /\ H2w[a] \in Nat
    BY JackAssumption
<1>2. (Inserted[a] \ Inserted[jack]) \cup (Inserted[jack] \ Inserted[a]) \in SUBSET Switches
    BY <1>1
<1> QED BY <1>1, <1>2 DEF Report, Dropped, Reports

(* The head and tail of a queue.                                           *)
LEMMA QueueParts ==
    ASSUME NEW S, NEW q \in Seq(S), q # <<>>
    PROVE  Head(q) \in S /\ Tail(q) \in Seq(S) /\ 1 \in 1..Len(q) /\ q[1] = Head(q)
<1>1. Head(q) \in S /\ Tail(q) \in Seq(S)
    BY HeadTailProperties
<1>2. Len(q) \in Nat /\ Len(q) # 0
    BY LenProperties, EmptySeq
<1>3. Head(q) = q[1]
    BY HeadTailProperties
<1> QED BY <1>1, <1>2, <1>3

LEMMA JackTypeStep ==
    ASSUME JackTypeOK, [PlugNext]_plugVars PROVE JackTypeOK'
<1>1. CASE UNCHANGED jackVars
    BY <1>1 DEF jackVars, JackTypeOK
<1>2. /\ queue \in Seq(Reports) /\ seen \in Seen /\ jack \in Accessories
      /\ seen = [value |-> seen.value, on |-> seen.on]
    BY DEF JackTypeOK, Reports, Seen
<1>3. ASSUME UNCHANGED <<jack, past, plugs>>, reader' \in {"none", "extcon", "extevdev"},
             listening' \in BOOLEAN, seen' \in Seen, queue' \in Seq(Reports), lost' \subseteq Losses
      PROVE  JackTypeOK'
    BY <1>3 DEF JackTypeOK, Reports, Seen
<1>4. ASSUME NEW a \in Accessories, Plug(a) PROVE JackTypeOK'
  <2>1. /\ plugs' \in 0..MaxPlugs /\ jack' \in Accessories
        /\ past' \subseteq Accessories /\ UNCHANGED <<reader, listening, seen>>
    BY <1>4, JackAssumption DEF Plug, JackTypeOK
  <2>2. lost' \subseteq Losses
    BY <1>4 DEF Plug, JackTypeOK, Losses
  <2>3. Report(a) \in Reports /\ Dropped \in Reports
    BY <1>2, ReportIs
  <2>4. Append(queue, Report(a)) \in Seq(Reports) /\ <<Dropped>> \in Seq(Reports)
    BY <1>2, <2>3, AppendProperties
  <2>5. queue' \in {queue, Append(queue, Report(a)), <<Dropped>>}
    BY <1>4 DEF Plug
  <2>6. queue' \in Seq(Reports)
    BY <1>2, <2>4, <2>5
  <2> QED BY <2>1, <2>2, <2>6 DEF JackTypeOK, Reports
<1>5. CASE ReadSwitch
  <2>1. seen' = [value |-> H2w[jack], on |-> seen.on]
    BY <1>2, <1>5 DEF ReadSwitch
  <2>2. seen' \in Seen
    BY <1>2, <2>1, ReportIs DEF Seen
  <2> QED BY <1>2, <1>3, <1>5, <2>2 DEF ReadSwitch, JackTypeOK
<1>6. CASE ListenSwitch
    BY <1>2, <1>3, <1>6 DEF ListenSwitch, JackTypeOK
<1>7. CASE SwitchEvent
  <2>1. Head(queue) \in Reports /\ Tail(queue) \in Seq(Reports)
    BY <1>2, <1>7, QueueParts DEF SwitchEvent
  <2>2. seen' = [value |-> Head(queue).value, on |-> seen.on]
    BY <1>2, <1>7 DEF SwitchEvent
  <2>3. seen' \in Seen
    BY <1>2, <2>1, <2>2 DEF Seen, Reports
  <2> QED BY <1>3, <1>7, <2>1, <2>3 DEF SwitchEvent, JackTypeOK
<1>8. CASE ReceiveFails \/ InputFails
  <2>1. queue' \in Seq(Reports)
    BY <1>8, EmptySeq DEF ReceiveFails, InputFails
  <2>2. lost' \subseteq Losses
    BY <1>8 DEF ReceiveFails, InputFails, JackTypeOK, Losses
  <2> QED BY <1>2, <1>3, <1>8, <2>1, <2>2 DEF ReceiveFails, InputFails, JackTypeOK
<1>9. CASE OpenInput
  <2>1. seen' \in Seen
    BY <1>9 DEF OpenInput, Unseen, Seen
  <2> QED BY <1>2, <1>3, <1>9, <2>1 DEF OpenInput, JackTypeOK
<1>10. CASE QueryInput
  <2>1. seen' \in Seen
    <3>1. seen' = [value |-> seen.value, on |-> Inserted[jack]] \/ seen' = seen
        BY <1>2, <1>10 DEF QueryInput
    <3> QED BY <1>2, <3>1, ReportIs DEF Seen
  <2>2. queue' \in Seq(Reports) /\ lost' \subseteq Losses
    BY <1>2, <1>10, EmptySeq DEF QueryInput, JackTypeOK, Losses
  <2> QED BY <1>3, <1>10, <2>1, <2>2 DEF QueryInput, JackTypeOK
<1>11. ASSUME NEW sw \in Switches, InputSwitch(sw) PROVE JackTypeOK'
  <2>1. Head(queue) \in Reports /\ 1 \in 1..Len(queue) /\ queue[1] = Head(queue)
    BY <1>2, <1>11, QueueParts DEF InputSwitch
  <2> DEFINE less == [queue[1] EXCEPT !.changed = @ \ {sw}]
  <2>2. less \in Reports
    BY <2>1 DEF Reports
  <2>3. queue' = [queue EXCEPT ![1] = less]
    BY <1>11 DEF InputSwitch
  <2> HIDE DEF less
  <2>4. queue' \in Seq(Reports)
    BY <1>2, <2>1, <2>2, <2>3, ExceptSeq
  <2>5. seen' = [value |-> seen.value, on |-> Switched(sw)] /\ Switched(sw) \in SUBSET Switches
    BY <1>2, <1>11, <2>1 DEF InputSwitch, Switched, Seen, Reports
  <2>6. seen' \in Seen
    BY <1>2, <2>5 DEF Seen
  <2> QED BY <1>3, <1>11, <2>4, <2>6 DEF InputSwitch, JackTypeOK
<1>12. CASE InputSyn
  <2>1. Tail(queue) \in Seq(Reports)
    BY <1>2, <1>12, QueueParts DEF InputSyn
  <2> QED BY <1>2, <1>3, <1>12, <2>1 DEF InputSyn, JackTypeOK
<1>13. CASE FreeJack
  <2>1. queue' \in Seq(Reports)
    BY <1>13, EmptySeq DEF FreeJack
  <2> QED BY <1>2, <1>3, <1>13, <2>1 DEF FreeJack, JackTypeOK
<1>14. CASE LoadStep
    BY <1>1, <1>5, <1>6, <1>9, <1>10, <1>14
    DEF LoadStep, LoadSwitch, NoSwitch, LoadListen, NoUdev, LoadInput, NoInput, LoadQuery, LoadScan,
        NoUsb, LoadListed, LoadMonitor, NoMonitor, Goes, Wired, Usb
<1>15. CASE JackStep
    BY <1>7, <1>8, <1>11, <1>12, <1>15 DEF JackStep
<1>16. CASE UsbStep \/ Dangle \/ UNCHANGED plugVars
    BY <1>1, <1>16 DEF UsbStep, Dangle, plugVars
<1>17. CASE Kernel
    BY <1>1, <1>4, <1>17 DEF Kernel
<1>18. CASE Unload
    BY <1>13, <1>18 DEF Unload
<1> QED BY <1>14, <1>15, <1>16, <1>17, <1>18 DEF PlugNext

Caps == SUBSET {"playback", "capture"}

(* What a card is found to be able to do.                                  *)
LEMMA InspectedIs ==
    ASSUME NEW c \in Cards, NEW pcms \in Opening(c)
    PROVE  Inspected(pcms) \in Caps
<1> DEFINE usable == {i \in DOMAIN pcms : pcms[i] # {}}
<1>1. usable \in SUBSET Nat /\ \A i \in usable : pcms[i] \in Caps
  <2>1. CASE pcms = <<>>
    <3>1. DOMAIN pcms = {}
        BY <2>1
    <3> QED BY <3>1
  <2>2. CASE pcms \in [DOMAIN Pcms[c] -> Caps]
    <3>1. Pcms[c] \in Seq(Caps)
        BY UsbAssumption DEF Caps
    <3>2. DOMAIN Pcms[c] \subseteq Nat
        BY <3>1, LenProperties
    <3> QED BY <2>2, <3>2
  <2> QED BY <2>1, <2>2 DEF Opening, Caps
<1>2. CASE usable = {}
    BY <1>2 DEF Inspected, Caps
<1>3. CASE usable # {}
  <2> HIDE DEF usable
  <2>1. \E i \in usable : \A j \in usable : i <= j
    <3>1. PICK i \in usable : \A j \in usable : ~(<<j, i>> \in OpToRel(<, Nat))
        BY <1>1, <1>3, WFMin, NatLessThanWellFounded, Zenon
    <3>2. \A j \in usable : ~(j < i)
        BY <1>1, <3>1 DEF OpToRel
    <3> QED BY <1>1, <3>2
  <2>2. (CHOOSE i \in usable : \A j \in usable : i <= j) \in usable
    BY <2>1
  <2>3. Inspected(pcms) = pcms[CHOOSE i \in usable : \A j \in usable : i <= j]
    BY <1>3 DEF Inspected, usable
  <2> QED BY <1>1, <2>2, <2>3
<1> QED BY <1>2, <1>3

(* What UsbTypeOK says beyond UsbInv.                                      *)
UsbRest ==
    /\ monitored \in BOOLEAN /\ missed \in BOOLEAN /\ robbed \subseteq Cards
    /\ \A c \in DOMAIN known : known[c] \in Caps \ {{}}
    /\ events \in 0..MaxEvents

LEMMA AddedRest ==
    ASSUME UsbRest, UsbInv, NEW c \in Cards, NEW pcms \in Opening(c), Added(c, Inspected(pcms))
    PROVE  robbed' \subseteq Cards /\ \A d \in DOMAIN known' : known'[d] \in Caps \ {{}}
<1> DEFINE caps == Inspected(pcms)
<1>1. caps \in Caps /\ DOMAIN known \subseteq Cards
    BY InspectedIs DEF UsbInv, UsbPart
<1> HIDE DEF caps
<1>2. Added(c, caps)
    BY DEF caps
<1>3. CASE c \in DOMAIN known \/ caps = {}
    BY <1>2, <1>3 DEF Added, UsbRest
<1>4. CASE ~(c \in DOMAIN known \/ caps = {})
    BY <1>1, <1>2, <1>4 DEF Added, UsbRest
<1> QED BY <1>3, <1>4

LEMMA UsbRestStep ==
    ASSUME UsbRest, UsbInv, [PlugNext]_plugVars PROVE UsbRest'
<1>1. CASE UNCHANGED usbVars
    BY <1>1 DEF usbVars, UsbRest
<1>2. ASSUME NEW c \in Cards, AddListed(c) PROVE UsbRest'
  <2>1. PICK pcms \in Opening(c) : Added(c, Inspected(pcms))
    BY <1>2 DEF AddListed
  <2> QED BY <1>2, <2>1, AddedRest DEF AddListed, UsbRest
<1>3. CASE UsbAdded
  <2> DEFINE c == Head(uevents).card
  <2>1. c \in Cards
    <3>1. Head(uevents) \in Uevents
        BY <1>3, TailKeeps DEF UsbAdded, UsbInv, UsbPart
    <3> QED BY <3>1 DEF Uevents
  <2>2. UNCHANGED <<known, robbed>> \/ \E pcms \in Opening(c) : Added(c, Inspected(pcms))
    BY <1>3 DEF UsbAdded
  <2>3. UNCHANGED <<monitored, missed, events>>
    BY <1>3 DEF UsbAdded
  <2> HIDE DEF c
  <2>4. CASE UNCHANGED <<known, robbed>>
    BY <2>3, <2>4 DEF UsbRest
  <2>5. CASE \E pcms \in Opening(c) : Added(c, Inspected(pcms))
    BY <2>1, <2>3, <2>5, AddedRest DEF UsbRest
  <2> QED BY <2>2, <2>4, <2>5
<1>4. CASE UsbRemoved \/ UsbReceiveFails
  <2>1. robbed' \subseteq robbed \cup DOMAIN known
    BY <1>4 DEF UsbRemoved, UsbReceiveFails, Kind
  <2>2. /\ DOMAIN known' \subseteq DOMAIN known /\ \A d \in DOMAIN known' : known'[d] = known[d]
        /\ monitored' = monitored /\ events' = events /\ missed' \in BOOLEAN
    BY <1>4 DEF UsbRemoved, UsbReceiveFails, UsbRest
  <2> QED BY <2>1, <2>2 DEF UsbRest, UsbInv, UsbPart
<1>5. CASE Scan \/ Monitor
    BY <1>5 DEF Scan, Monitor, UsbRest
<1>6. ASSUME NEW c \in Cards, PlugCard(c) \/ UnplugCard(c) PROVE UsbRest'
  <2>1. events' \in 0..MaxEvents
    BY <1>6, UsbAssumption DEF PlugCard, UnplugCard, Uevent, UsbRest
  <2>2. missed' \in BOOLEAN /\ UNCHANGED <<monitored, known, robbed>>
    BY <1>6 DEF PlugCard, UnplugCard, Uevent, UsbRest
  <2> QED BY <2>1, <2>2 DEF UsbRest
<1>7. CASE LoadStep
    BY <1>1, <1>2, <1>5, <1>7
    DEF LoadStep, LoadSwitch, NoSwitch, LoadListen, NoUdev, LoadInput, NoInput, LoadQuery, LoadScan,
        NoUsb, LoadListed, LoadMonitor, NoMonitor, Goes, Wired, Usb
<1>8. CASE UsbStep
    BY <1>3, <1>4, <1>8 DEF UsbStep
<1>9. CASE Kernel
    BY <1>1, <1>6, <1>9 DEF Kernel
<1>10. CASE JackStep \/ Unload \/ Dangle \/ UNCHANGED plugVars
    BY <1>1, <1>10 DEF JackStep, Unload, Dangle, plugVars
<1> QED BY <1>7, <1>8, <1>9, <1>10 DEF PlugNext

(* Loading goes through its stages, and nobody changes the hardware.       *)
LEMMA StageStep ==
    ASSUME has \in Hardware, stage \in Stages, [PlugNext]_plugVars
    PROVE  has' \in Hardware /\ stage' \in Stages
<1>1. CASE LoadStep
    BY <1>1
    DEF LoadStep, LoadSwitch, NoSwitch, LoadListen, NoUdev, LoadInput, NoInput, LoadQuery, LoadScan,
        NoUsb, LoadListed, LoadMonitor, NoMonitor, Goes, Wired, Usb, Stages
<1>2. CASE JackStep \/ UsbStep
    BY <1>2 DEF JackStep, UsbStep
<1>3. CASE Kernel
    BY <1>3 DEF Kernel
<1>4. CASE Unload \/ Dangle \/ UNCHANGED plugVars
    BY <1>4 DEF Unload, Dangle, plugVars, Stages
<1> QED BY <1>1, <1>2, <1>3, <1>4 DEF PlugNext

LEMMA TypeInit == PlugInit => JackTypeOK /\ UsbRest /\ has \in Hardware /\ stage \in Stages
<1> SUFFICES ASSUME PlugInit PROVE JackTypeOK /\ UsbRest /\ has \in Hardware /\ stage \in Stages
    OBVIOUS
<1>1. JackTypeOK
  <2>1. queue \in Seq(Reports) /\ seen \in Seen
    BY EmptySeq DEF PlugInit, JackInit, Unseen, Seen
  <2>2. /\ jack \in Accessories /\ past = {jack} /\ reader = "none" /\ listening = FALSE
        /\ lost = {} /\ plugs \in 0..MaxPlugs
    BY JackAssumption DEF PlugInit, JackInit
  <2> QED BY <2>1, <2>2 DEF JackTypeOK, Reports, Seen
<1>2. UsbRest
  <2>1. DOMAIN known = {}
    BY DEF PlugInit, UsbInit
  <2>2. monitored = FALSE /\ missed = FALSE /\ robbed = {} /\ events \in 0..MaxEvents
    BY UsbAssumption DEF PlugInit, UsbInit
  <2> QED BY <2>1, <2>2 DEF UsbRest
<1> QED BY <1>1, <1>2 DEF PlugInit, Stages

(* Whatever is plugged in and fails to open, what is known of jack and     *)
(* cards is well formed: a card in the table can play or record, and what  *)
(* is read of a report is a set of switches.                               *)
THEOREM TypeCorrect == PlugSpec => []PlugTypeOK
<1> DEFINE Types == UsbInv /\ JackTypeOK /\ UsbRest /\ has \in Hardware /\ stage \in Stages
<1>1. PlugInit => Types
    BY UsbInvInit, TypeInit
<1>2. Types /\ [PlugNext]_plugVars => Types'
    BY UsbInvStep, JackTypeStep, UsbRestStep, StageStep
<1>3. Types => PlugTypeOK
  <2>1. UsbRest /\ UsbInv => UsbTypeOK
    <3>1. UsbRest => \A c \in DOMAIN known : known[c] \in (SUBSET {"playback", "capture"}) \ {{}}
        BY DEF UsbRest, Caps
    <3>2. UsbInv => /\ there \subseteq Cards /\ listed \subseteq Cards /\ DOMAIN known \subseteq Cards
                    /\ uevents \in Seq([action : {"change", "remove"}, card : Cards])
        BY DEF UsbInv, UsbPart, Uevents
    <3> QED BY <3>1, <3>2 DEF UsbRest, UsbTypeOK
  <2> QED BY <2>1 DEF UsbInv, UsbPart, PlugTypeOK
<1> QED BY <1>1, <1>2, <1>3, PTL DEF PlugSpec

(* What unloading leaves behind.                                           *)
SilentInv ==
    /\ stage \in {"unloaded", "dangling"} => ~listening
    /\ monitored \/ stage = "scan" => "usb" \in has
    /\ stage = "dangling" => monitored

(* After pa__done() no jack event is left to call back, and whatever still *)
(* calls back into freed memory is the monitor of USB devices.             *)
THEOREM FreedJackIsSilent == PlugSpec => []FreedIsSilent
<1>1. PlugInit => SilentInv
    BY DEF PlugInit, JackInit, UsbInit, SilentInv
<1>2. SilentInv /\ [PlugNext]_plugVars => SilentInv'
  <2> SUFFICES ASSUME SilentInv, [PlugNext]_plugVars PROVE SilentInv'
    OBVIOUS
  <2>1. CASE LoadStep
    <3>1. CASE LoadSwitch \/ NoSwitch \/ LoadListen \/ NoUdev \/ LoadInput \/ NoInput \/ LoadQuery
        BY <3>1
        DEF LoadSwitch, NoSwitch, LoadListen, NoUdev, LoadInput, NoInput, LoadQuery, Goes, Wired,
            ReadSwitch, ListenSwitch, OpenInput, QueryInput, SilentInv, usbVars, jackVars
    <3>2. CASE LoadScan \/ NoUsb \/ LoadListed \/ LoadMonitor \/ NoMonitor
        BY <3>2
        DEF LoadScan, NoUsb, LoadListed, LoadMonitor, NoMonitor, Goes, Usb, Scan, AddListed, Monitor,
            SilentInv, usbVars, jackVars
    <3> QED BY <2>1, <3>1, <3>2 DEF LoadStep
  <2>2. CASE JackStep
    BY <2>2 DEF JackStep, SilentInv, usbVars
  <2>3. CASE UsbStep
    BY <2>3 DEF UsbStep, UsbAdded, UsbRemoved, UsbReceiveFails, SilentInv, jackVars
  <2>4. CASE Kernel
    <3>1. UNCHANGED <<listening, monitored, has, stage>>
        BY <2>4 DEF Kernel, Plug, PlugCard, UnplugCard, Uevent, usbVars, jackVars
    <3> QED BY <3>1 DEF SilentInv
  <2>5. CASE Unload \/ Dangle
    BY <2>5 DEF Unload, Dangle, FreeJack, SilentInv, usbVars, jackVars
  <2>6. CASE UNCHANGED plugVars
    <3>1. UNCHANGED <<listening, monitored, has, stage>>
        BY <2>6 DEF plugVars, usbVars, jackVars
    <3> QED BY <3>1 DEF SilentInv
  <2> QED BY <2>1, <2>2, <2>3, <2>4, <2>5, <2>6 DEF PlugNext
<1>3. SilentInv => FreedIsSilent
    BY DEF SilentInv, FreedIsSilent
<1> QED BY <1>1, <1>2, <1>3, PTL DEF PlugSpec

-----------------------------------------------------------------------------
(* What the ports show of the jack.                                        *)

(* No report was overwritten by the kernel, and the switches were read.    *)
Trusted == lost \cap {"query", "overflow"} = {}

(* Who listens, and what may have been lost, at each stage of loading.     *)
ReaderInv ==
    /\ jack \in past
    /\ reader = "none" => ~listening /\ Shown = {} /\ lost \subseteq {"gap"}
    /\ stage \in {"switch", "listen", "input"} => reader = "none"
    /\ stage = "query" => reader = "extevdev" /\ Shown = {} /\ lost \subseteq {"gap", "overflow"}
    /\ ~listening => queue = <<>>

(* Between droid_switch_new() and init_udev().                             *)
SwitchRead ==
    stage = "listen" =>
        /\ \E a \in past : seen.value = H2w[a]
        /\ lost = {} => seen.value = H2w[jack]

(* The ports show what was read last, and what will be read last is what   *)
(* is in the jack, even if a uevent came too early.                        *)
SwitchShown ==
    reader = "extcon" =>
        /\ Shown = SwitchPorts(seen.value) \cap CardPorts
        /\ \E a \in past : seen.value = H2w[a]
        /\ \A k \in 1..Len(queue) : \E a \in past : queue[k].value = H2w[a]
        /\ lost \subseteq {"gap"} /\ queue # <<>> => queue[Len(queue)].value = H2w[jack]
        /\ lost = {} /\ listening /\ queue = <<>> => seen.value = H2w[jack]

(* But for the switches a report is still to change, it is known already.  *)
Agree(on, r) == \A sw \in Switches \ r.changed : sw \in on <=> sw \in r.on

(* Each report starts from the one before, the first from what was seen.   *)
Chain ==
    /\ queue = <<>> => seen.on = Inserted[jack]
    /\ queue # <<>> => queue[Len(queue)].on = Inserted[jack] /\ Agree(seen.on, queue[1])
    /\ \A k \in 1..(Len(queue) - 1) : Agree(queue[k].on, queue[k + 1])
    /\ \A k \in 1..Len(queue) : \E a \in past : queue[k].on = Inserted[a]

InputShown ==
    reader = "extevdev" /\ stage # "query" /\ Trusted =>
        /\ Shown = {} \/ \E a \in past : Shown = InputPorts(Inserted[a]) \cap CardPorts
        /\ listening => Chain /\ (queue = <<>> => Shown = InputPorts(seen.on) \cap CardPorts)

JackInv == ReaderInv /\ SwitchRead /\ SwitchShown /\ InputShown

LEMMA NotifiedShown ==
    ASSUME ports \in PortStates, NEW shown \in SUBSET WiredPorts, ports' = Notified(shown)
    PROVE  Shown' = shown \cap CardPorts
<1>1. ports'.available = (ports.available \cup ((shown \cap CardPorts) \ ports.available))
                             \ ((WiredPorts \ shown) \cap ports.available)
    BY AnnouncedParts DEF Notified
<1>2. ports.available \subseteq CardPorts
    BY DEF PortStates
<1> QED BY <1>1, <1>2 DEF Shown

LEMMA AnnouncedWired ==
    ASSUME NEW s \in PortStates, NEW on \in SUBSET UsbPorts, NEW off \in SUBSET UsbPorts
    PROVE  Announced(s, on, off).available \cap WiredPorts = s.available \cap WiredPorts
<1>1. Announced(s, on, off).available = (s.available \cup ((on \cap CardPorts) \ s.available))
                                            \ (off \cap s.available)
    BY AnnouncedParts
<1> QED BY <1>1, PortNames

(* USB cards change nothing of what is shown of the jack.                  *)
LEMMA RenamedPorts ==
    ASSUME ports \in PortStates, NEW c \in Cards \cup {NoCard}, NEW on, NEW s,
           s = [ports EXCEPT !.usb = [p \in CardPorts |-> IF p \in on THEN c ELSE @[p]]]
    PROVE  s \in PortStates /\ s.available = ports.available
BY DEF PortStates

LEMMA AddedShowsNothing ==
    ASSUME ports \in PortStates, NEW c \in Cards, NEW caps, Added(c, caps) PROVE Shown' = Shown
<1> DEFINE s == [ports EXCEPT !.usb = [p \in CardPorts |-> IF p \in PortsFor(caps) THEN c ELSE @[p]]]
<1>1. s \in PortStates /\ s.available = ports.available
    BY RenamedPorts
<1>2. ports' = ports \/ ports' = Announced(s, PortsFor(caps), {})
    BY DEF Added, Connected
<1> HIDE DEF s
<1>3. PortsFor(caps) \in SUBSET UsbPorts
    BY PortNames
<1>4. Announced(s, PortsFor(caps), {}).available \cap WiredPorts = s.available \cap WiredPorts
    BY <1>1, <1>3, AnnouncedWired
<1> QED BY <1>1, <1>2, <1>4 DEF Shown

LEMMA RemovedShowsNothing ==
    ASSUME ports \in PortStates, NEW c, ports' = Disconnected(c) PROVE Shown' = Shown
<1> DEFINE gone == PortsFor(known[c])
           s == [ports EXCEPT !.usb = [p \in CardPorts |-> IF p \in gone THEN NoCard ELSE @[p]]]
<1>1. s \in PortStates /\ s.available = ports.available
    BY RenamedPorts
<1>2. ports' = Announced(s, {}, gone)
    BY DEF Disconnected
<1>3. gone \in SUBSET UsbPorts
    BY PortNames
<1> HIDE DEF s, gone
<1>4. Announced(s, {}, gone).available \cap WiredPorts = s.available \cap WiredPorts
    BY <1>1, <1>3, AnnouncedWired
<1> QED BY <1>1, <1>2, <1>4 DEF Shown

LEMMA UsbShowsNothing ==
    ASSUME UsbInv,
           UsbAdded \/ UsbRemoved \/ UsbReceiveFails \/ Scan \/ Monitor
           \/ \E c \in Cards : AddListed(c) \/ PlugCard(c) \/ UnplugCard(c)
    PROVE  Shown' = Shown
<1>1. ports \in PortStates /\ uevents \in Seq(Uevents)
    BY DEF UsbInv, UsbPart
<1>2. CASE UNCHANGED ports
    BY <1>2 DEF Shown
<1>3. ASSUME NEW c \in Cards, AddListed(c) PROVE Shown' = Shown
    BY <1>1, <1>3, AddedShowsNothing DEF AddListed
<1>4. CASE UsbAdded
  <2>1. Head(uevents).card \in Cards
    BY <1>1, <1>4, TailKeeps DEF UsbAdded, Uevents
  <2> QED BY <1>1, <1>2, <1>4, <2>1, AddedShowsNothing DEF UsbAdded
<1>5. CASE UsbRemoved
    BY <1>1, <1>2, <1>5, RemovedShowsNothing DEF UsbRemoved
<1>6. CASE UsbReceiveFails \/ Scan \/ Monitor
    BY <1>2, <1>6 DEF UsbReceiveFails, Scan, Monitor
<1>7. ASSUME NEW c \in Cards, PlugCard(c) \/ UnplugCard(c) PROVE Shown' = Shown
    BY <1>2, <1>7 DEF PlugCard, UnplugCard, Uevent
<1> QED BY <1>3, <1>4, <1>5, <1>6, <1>7

(* What neither the jack, its reader nor what is shown of it is changed by.*)
LEMMA OtherStepKeeps ==
    ASSUME JackInv, UNCHANGED jackVars, Shown' = Shown,
           stage' \in {"switch", "listen"} => stage' = stage,
           stage' = "input" => stage \in {"switch", "listen", "input"},
           stage' = "query" <=> stage = "query"
    PROVE  JackInv'
<1>1. UNCHANGED <<jack, reader, listening, seen, queue, lost, past, plugs>>
    BY DEF jackVars
<1>2. ReaderInv'
    BY <1>1 DEF JackInv, ReaderInv
<1>3. SwitchRead'
    BY <1>1 DEF JackInv, SwitchRead
<1>4. SwitchShown'
    BY <1>1 DEF JackInv, SwitchShown
<1>5. Chain' <=> Chain
    BY <1>1 DEF Chain
<1>6. InputShown'
    BY <1>1, <1>5 DEF JackInv, InputShown, Trusted
<1> QED BY <1>2, <1>3, <1>4, <1>6 DEF JackInv

(* A report that is queued.                                                *)
LEMMA AppendedParts ==
    ASSUME NEW T, NEW q \in Seq(T), NEW r \in T
    PROVE  /\ Len(q) \in Nat /\ (q = <<>> <=> Len(q) = 0)
           /\ Append(q, r) # <<>> /\ Len(Append(q, r)) = Len(q) + 1
           /\ Append(q, r)[Len(q) + 1] = r
           /\ \A k \in 1..Len(q) : Append(q, r)[k] = q[k]
BY AppendProperties, LenProperties, EmptySeq

LEMMA PlugKeeps ==
    ASSUME JackTypeOK, JackInv, NEW a \in Accessories, Plug(a), UNCHANGED stage PROVE JackInv'
<1>1. /\ jack' = a /\ past' = past \cup {a} /\ jack \in Accessories
      /\ UNCHANGED <<reader, listening, seen, ports>> /\ Shown' = Shown
    BY DEF Plug, JackTypeOK, Shown
<1>2. queue \in Seq(Reports) /\ Report(a) \in Reports
    BY <1>1, ReportIs DEF JackTypeOK, Reports
<1>3. CASE listening /\ queue' = Append(queue, Report(a)) /\ UNCHANGED lost
  <2> DEFINE n == Len(queue)
  <2>1. /\ n \in Nat /\ (queue = <<>> <=> n = 0) /\ queue' # <<>> /\ Len(queue') = n + 1
        /\ queue'[n + 1] = Report(a)
        /\ \A k \in 1..n : queue'[k] = queue[k]
    BY <1>2, <1>3, AppendedParts
  <2>2. Report(a).value = H2w[a] /\ Report(a).on = Inserted[a]
        /\ Report(a).changed = (Inserted[a] \ Inserted[jack]) \cup (Inserted[jack] \ Inserted[a])
    BY DEF Report
  <2>3. reader # "none" /\ stage \notin {"switch", "listen", "input"}
    BY <1>3 DEF JackInv, ReaderInv
  <2>4. ReaderInv'
    BY <1>1, <1>3, <2>3 DEF JackInv, ReaderInv
  <2>5. SwitchRead'
    BY <2>3 DEF SwitchRead
  <2>6. SwitchShown'
    BY <1>1, <1>3, <2>1, <2>2 DEF JackInv, SwitchShown
  <2>7. ASSUME Chain PROVE Chain'
    <3>1. Agree(Inserted[jack], Report(a))
        BY <2>2 DEF Agree
    <3>2. queue' # <<>> => queue'[Len(queue')].on = Inserted[jack'] /\ Agree(seen'.on, queue'[1])
        BY <1>1, <2>1, <2>2, <2>7, <3>1 DEF Chain
    <3>3. ASSUME NEW k \in 1..(Len(queue') - 1) PROVE Agree(queue'[k].on, queue'[k + 1])
      <4>1. CASE k = n
        BY <2>1, <2>7, <3>1, <4>1 DEF Chain
      <4>2. CASE k # n
        <5>1. k \in 1..(n - 1) /\ queue'[k] = queue[k] /\ queue'[k + 1] = queue[k + 1]
            BY <2>1, <4>2
        <5> QED BY <2>7, <5>1 DEF Chain
      <4> QED BY <4>1, <4>2
    <3>4. \A k \in 1..Len(queue') : \E b \in past' : queue'[k].on = Inserted[b]
        BY <1>1, <2>1, <2>2, <2>7 DEF Chain
    <3> QED BY <2>1, <3>2, <3>3, <3>4 DEF Chain
  <2>8. InputShown'
    BY <1>1, <1>3, <2>1, <2>7 DEF JackInv, InputShown, Trusted
  <2> QED BY <2>4, <2>5, <2>6, <2>8 DEF JackInv
<1>4. CASE listening /\ lost' = lost \cup {"overflow"}
           /\ queue' = IF reader = "extcon" THEN queue ELSE <<Dropped>>
  <2>1. reader # "none" /\ stage \notin {"switch", "listen", "input"}
    BY <1>4 DEF JackInv, ReaderInv
  <2>2. ReaderInv'
    BY <1>1, <1>4, <2>1 DEF JackInv, ReaderInv
  <2>3. SwitchRead' /\ InputShown'
    BY <1>1, <1>4, <2>1 DEF SwitchRead, InputShown, Trusted
  <2>4. SwitchShown'
    BY <1>1, <1>4 DEF JackInv, SwitchShown
  <2> QED BY <2>2, <2>3, <2>4 DEF JackInv
<1>5. CASE ~listening /\ lost' = lost \cup {"gap"} /\ UNCHANGED queue
  <2>1. ReaderInv'
    BY <1>1, <1>5 DEF JackInv, ReaderInv
  <2>2. SwitchRead'
    BY <1>1, <1>5 DEF JackInv, SwitchRead
  <2>3. SwitchShown'
    BY <1>1, <1>5 DEF JackInv, ReaderInv, SwitchShown
  <2>4. InputShown'
    BY <1>1, <1>5 DEF JackInv, InputShown, Trusted
  <2> QED BY <2>1, <2>2, <2>3, <2>4 DEF JackInv
<1> QED BY <1>3, <1>4, <1>5 DEF Plug

LEMMA LoadSwitchKeeps ==
    ASSUME JackTypeOK, ports \in PortStates, JackInv, LoadSwitch \/ LoadListen PROVE JackInv'
<1>1. CASE LoadSwitch
  <2>1. /\ stage = "switch" /\ stage' = "listen"
        /\ seen' = [seen EXCEPT !.value = H2w[jack]] /\ lost' = lost \ {"gap"}
        /\ UNCHANGED <<jack, reader, listening, queue, past, ports>> /\ Shown' = Shown
    BY <1>1 DEF LoadSwitch, Wired, ReadSwitch, Shown
  <2>2. seen'.value = H2w[jack]
    BY <2>1 DEF JackTypeOK
  <2>3. reader = "none" /\ lost \subseteq {"gap"} /\ jack \in past
    BY <2>1 DEF JackInv, ReaderInv
  <2>4. ReaderInv'
    BY <2>1, <2>3 DEF JackInv, ReaderInv
  <2>5. SwitchRead'
    BY <2>1, <2>2, <2>3 DEF SwitchRead
  <2>6. SwitchShown' /\ InputShown'
    BY <2>1, <2>3 DEF SwitchShown, InputShown
  <2> QED BY <2>4, <2>5, <2>6 DEF JackInv
<1>2. CASE LoadListen
  <2>1. /\ stage = "listen" /\ stage' = "usb" /\ reader' = "extcon" /\ listening' = TRUE
        /\ ports' = Notified(SwitchPorts(seen.value))
        /\ UNCHANGED <<jack, seen, queue, lost, past>>
    BY <1>2 DEF LoadListen, Wired, ListenSwitch
  <2>2. SwitchPorts(seen.value) \in SUBSET WiredPorts
    BY SwitchPortsWired
  <2>3. Shown' = SwitchPorts(seen.value) \cap CardPorts
    BY <2>1, <2>2, NotifiedShown
  <2>4. queue = <<>> /\ Len(queue) = 0 /\ reader = "none" /\ jack \in past
    BY <2>1 DEF JackInv, ReaderInv
  <2>5. ReaderInv'
    BY <2>1, <2>4 DEF ReaderInv
  <2>6. SwitchShown'
    BY <2>1, <2>3, <2>4 DEF JackInv, SwitchRead, SwitchShown
  <2>7. SwitchRead' /\ InputShown'
    BY <2>1 DEF SwitchRead, InputShown
  <2> QED BY <2>5, <2>6, <2>7 DEF JackInv
<1> QED BY <1>1, <1>2

(* The first report of a queue is gone.                                    *)
LEMMA TailParts ==
    ASSUME NEW T, NEW q \in Seq(T), q # <<>>
    PROVE  /\ Len(q) \in Nat \ {0} /\ Head(q) = q[1] /\ Len(Tail(q)) = Len(q) - 1
           /\ (Tail(q) = <<>> <=> Len(q) = 1)
           /\ \A k \in 1..(Len(q) - 1) : Tail(q)[k] = q[k + 1]
<1>1. /\ Tail(q) \in Seq(T) /\ Len(Tail(q)) = Len(q) - 1 /\ Len(q) \in Nat \ {0} /\ Head(q) = q[1]
      /\ \A k \in 1..Len(Tail(q)) : Tail(q)[k] = q[k + 1]
    BY HeadTailProperties, EmptySeq
<1>2. Tail(q) = <<>> <=> Len(Tail(q)) = 0
    BY <1>1, EmptySeq
<1> QED BY <1>1, <1>2

LEMMA SwitchEventKeeps ==
    ASSUME JackTypeOK, ports \in PortStates, JackInv, SwitchEvent, UNCHANGED stage PROVE JackInv'
<1> DEFINE n == Len(queue)
<1>1. /\ reader = "extcon" /\ listening /\ queue # <<>>
      /\ ports' = Notified(SwitchPorts(seen'.value))
      /\ queue' = Tail(queue) /\ lost' = lost \ {"gap"}
      /\ UNCHANGED <<jack, reader, listening, past>>
    BY DEF SwitchEvent
<1>2. seen'.value = Head(queue).value
    BY DEF SwitchEvent, JackTypeOK
<1>3. queue \in Seq(Reports)
    BY DEF JackTypeOK, Reports
<1>4. /\ n \in Nat \ {0} /\ Head(queue) = queue[1] /\ Len(queue') = n - 1
      /\ (queue' = <<>> <=> n = 1)
      /\ \A k \in 1..(n - 1) : queue'[k] = queue[k + 1]
    BY <1>1, <1>3, TailParts
<1>5. Shown' = SwitchPorts(seen'.value) \cap CardPorts
  <2>1. SwitchPorts(seen'.value) \in SUBSET WiredPorts
    BY SwitchPortsWired
  <2> QED BY <1>1, <2>1, NotifiedShown
<1> HIDE DEF n
<1>6. SwitchShown
    BY DEF JackInv
<1>7. \E a \in past : seen'.value = H2w[a]
    BY <1>1, <1>2, <1>4, <1>6 DEF SwitchShown, n
<1>8. \A k \in 1..Len(queue') : \E a \in past : queue'[k].value = H2w[a]
  <2> SUFFICES ASSUME NEW k \in 1..Len(queue') PROVE \E a \in past : queue'[k].value = H2w[a]
    OBVIOUS
  <2>1. queue'[k] = queue[k + 1] /\ k + 1 \in 1..n
    BY <1>4
  <2> QED BY <1>1, <1>6, <2>1 DEF SwitchShown, n
<1>9. lost \subseteq {"gap"} => queue[n].value = H2w[jack]
    BY <1>1, <1>6 DEF SwitchShown, n
<1>10. lost' \subseteq {"gap"} /\ queue' # <<>> => queue'[Len(queue')].value = H2w[jack]
  <2> SUFFICES ASSUME lost' \subseteq {"gap"}, queue' # <<>>
               PROVE  queue'[Len(queue')].value = H2w[jack]
    OBVIOUS
  <2>1. n - 1 \in 1..(n - 1) /\ (n - 1) + 1 = n
    BY <1>4
  <2>2. queue'[n - 1] = queue[n]
    BY <1>4, <2>1
  <2> QED BY <1>1, <1>4, <1>9, <2>2
<1>11. lost' = {} /\ queue' = <<>> => seen'.value = H2w[jack]
  <2> SUFFICES ASSUME lost' = {}, queue' = <<>> PROVE seen'.value = H2w[jack]
    OBVIOUS
  <2>1. n = 1 /\ lost \subseteq {"gap"}
    BY <1>1, <1>4
  <2> QED BY <1>2, <1>4, <1>9, <2>1
<1>12. SwitchShown'
    BY <1>1, <1>5, <1>7, <1>8, <1>10, <1>11 DEF SwitchShown
<1>13. ReaderInv'
    BY <1>1 DEF JackInv, ReaderInv
<1>14. SwitchRead' /\ InputShown'
    BY <1>1 DEF JackInv, ReaderInv, SwitchRead, InputShown
<1> QED BY <1>12, <1>13, <1>14 DEF JackInv

(* The reader stops: its callback fails, or the module is unloaded.        *)
LEMMA StoppedKeeps ==
    ASSUME JackInv, listening' = FALSE, queue' = <<>>, reader # "none" \/ lost' = lost,
           lost \subseteq lost', lost' \ lost \subseteq {"receive", "hangup"},
           UNCHANGED <<jack, reader, seen, past, ports>>,
           stage \in {"running", "unloaded"}, stage' \in {"running", "unloaded"}
    PROVE  JackInv'
<1>1. Shown' = Shown /\ Len(queue') = 0
    BY DEF Shown
<1>2. ReaderInv'
    BY <1>1 DEF JackInv, ReaderInv
<1>3. SwitchRead'
    BY DEF SwitchRead
<1>4. SwitchShown'
    BY <1>1 DEF JackInv, SwitchShown
<1>5. InputShown'
    BY <1>1 DEF JackInv, InputShown, Trusted
<1> QED BY <1>2, <1>3, <1>4, <1>5 DEF JackInv

LEMMA LoadInputKeeps ==
    ASSUME JackTypeOK, ports \in PortStates, JackInv, LoadInput \/ LoadQuery PROVE JackInv'
<1>1. CASE LoadInput
  <2>1. /\ stage = "input" /\ stage' = "query" /\ reader' = "extevdev" /\ listening' = TRUE
        /\ UNCHANGED <<jack, queue, lost, past, ports>> /\ Shown' = Shown
    BY <1>1 DEF LoadInput, Wired, OpenInput, Shown
  <2>2. ReaderInv'
    BY <2>1 DEF JackInv, ReaderInv
  <2>3. SwitchRead' /\ SwitchShown' /\ InputShown'
    BY <2>1 DEF SwitchRead, SwitchShown, InputShown
  <2> QED BY <2>2, <2>3 DEF JackInv
<1>2. CASE LoadQuery
  <2>1. /\ stage = "query" /\ stage' = "usb"
        /\ UNCHANGED <<jack, reader, listening, past>>
    BY <1>2 DEF LoadQuery, Wired, QueryInput
  <2>2. /\ reader = "extevdev" /\ lost \subseteq {"gap", "overflow"} /\ jack \in past
        /\ Shown = {} /\ (~listening => queue = <<>>)
    BY <2>1 DEF JackInv, ReaderInv
  <2>3. SwitchRead' /\ SwitchShown'
    BY <2>1, <2>2 DEF SwitchRead, SwitchShown
  <2>4. CASE lost' = lost \cup {"query"} /\ UNCHANGED <<seen, queue, ports>>
    <3>1. ReaderInv'
        BY <2>1, <2>2, <2>4 DEF ReaderInv
    <3>2. InputShown'
        BY <2>4 DEF InputShown, Trusted
    <3> QED BY <2>3, <3>1, <3>2 DEF JackInv
  <2>5. CASE /\ seen' = [seen EXCEPT !.on = Inserted[jack]]
             /\ lost' = lost \ {"gap", "overflow"} /\ queue' = <<>>
             /\ ports' = Notified(InputPorts(seen'.on))
    <3>1. seen'.on = Inserted[jack] /\ Len(queue') = 0
        BY <2>5 DEF JackTypeOK
    <3>2. InputPorts(seen'.on) \in SUBSET WiredPorts
        BY SwitchPortsWired
    <3>3. Shown' = InputPorts(seen'.on) \cap CardPorts
        BY <2>5, <3>2, NotifiedShown
    <3>4. ReaderInv'
        BY <2>1, <2>2, <2>5 DEF ReaderInv
    <3>5. Chain'
        BY <2>1, <2>5, <3>1 DEF Chain
    <3>6. InputShown'
        BY <2>1, <2>2, <2>5, <3>1, <3>3, <3>5 DEF InputShown
    <3> QED BY <2>3, <3>4, <3>6 DEF JackInv
  <2> QED BY <1>2, <2>4, <2>5 DEF LoadQuery, Wired, QueryInput
<1> QED BY <1>1, <1>2

LEMMA InputSwitchKeeps ==
    ASSUME JackTypeOK, ports \in PortStates, JackInv, NEW sw \in Switches, InputSwitch(sw),
           UNCHANGED stage
    PROVE  JackInv'
<1> DEFINE n == Len(queue) less == [queue[1] EXCEPT !.changed = @ \ {sw}]
<1>1. /\ reader = "extevdev" /\ listening /\ queue # <<>> /\ sw \in Head(queue).changed
      /\ queue' = [queue EXCEPT ![1] = less]
      /\ UNCHANGED <<jack, reader, listening, lost, past, ports>> /\ Shown' = Shown
    BY DEF InputSwitch, Shown
<1>2. queue \in Seq(Reports)
    BY DEF JackTypeOK, Reports
<1>3. n \in Nat \ {0} /\ Head(queue) = queue[1] /\ queue[1] \in Reports
    BY <1>1, <1>2, TailParts, ElementOfSeq
<1>4. less \in Reports /\ less.on = queue[1].on /\ less.changed = queue[1].changed \ {sw}
    BY <1>3 DEF Reports
<1>5. seen'.on = (seen.on \ {sw}) \cup ({sw} \cap queue[1].on)
    BY <1>3 DEF InputSwitch, Switched, JackTypeOK
<1> HIDE DEF less
<1>6. /\ Len(queue') = n /\ queue' # <<>> /\ queue'[1] = less
      /\ \A k \in 1..n : queue'[k].on = queue[k].on /\ (k # 1 => queue'[k] = queue[k])
  <2>1. 1 \in 1..n
    BY <1>3
  <2>2. /\ queue' \in Seq(Reports) /\ Len(queue') = n
        /\ \A k \in 1..n : queue'[k] = IF k = 1 THEN less ELSE queue[k]
    BY <1>1, <1>2, <1>4, <2>1, ExceptSeq
  <2>3. queue' # <<>>
    BY <1>3, <2>2, EmptySeq
  <2> QED BY <1>4, <2>1, <2>2, <2>3
<1>7. ASSUME Chain PROVE Chain'
  <2>1. queue'[Len(queue')].on = Inserted[jack']
    BY <1>1, <1>3, <1>6, <1>7 DEF Chain
  <2>2. Agree(seen'.on, queue'[1])
    BY <1>1, <1>4, <1>5, <1>6, <1>7 DEF Chain, Agree
  <2>3. \A k \in 1..(Len(queue') - 1) : Agree(queue'[k].on, queue'[k + 1])
    <3> SUFFICES ASSUME NEW k \in 1..(n - 1) PROVE Agree(queue'[k].on, queue'[k + 1])
        BY <1>6
    <3>1. k \in 1..n /\ k + 1 \in 1..n /\ k + 1 # 1
        BY <1>3
    <3>2. queue'[k].on = queue[k].on /\ queue'[k + 1] = queue[k + 1]
        BY <1>6, <3>1
    <3> QED BY <1>7, <3>2 DEF Chain
  <2>4. \A k \in 1..Len(queue') : \E a \in past' : queue'[k].on = Inserted[a]
    BY <1>1, <1>6, <1>7 DEF Chain
  <2> QED BY <1>6, <2>1, <2>2, <2>3, <2>4 DEF Chain
<1>8. InputShown'
    BY <1>1, <1>6, <1>7 DEF JackInv, InputShown, Trusted
<1>9. ReaderInv'
    BY <1>1 DEF JackInv, ReaderInv
<1>10. SwitchRead' /\ SwitchShown'
    BY <1>1 DEF JackInv, ReaderInv, SwitchRead, SwitchShown
<1> QED BY <1>8, <1>9, <1>10 DEF JackInv

LEMMA InputSynKeeps ==
    ASSUME JackTypeOK, ports \in PortStates, JackInv, InputSyn, stage = "running", UNCHANGED stage
    PROVE  JackInv'
<1> DEFINE n == Len(queue)
<1>1. /\ reader = "extevdev" /\ listening /\ queue # <<>> /\ Head(queue).changed = {}
      /\ ports' = Notified(InputPorts(seen.on)) /\ queue' = Tail(queue)
      /\ UNCHANGED <<jack, reader, listening, seen, lost, past>>
    BY DEF InputSyn
<1>2. queue \in Seq(Reports) /\ seen.on \in SUBSET Switches
    BY DEF JackTypeOK, Reports
<1>3. /\ n \in Nat \ {0} /\ Head(queue) = queue[1] /\ Len(queue') = n - 1
      /\ (queue' = <<>> <=> n = 1)
      /\ \A k \in 1..(n - 1) : queue'[k] = queue[k + 1]
    BY <1>1, <1>2, TailParts
<1>4. queue[1].on \in SUBSET Switches
  <2>1. queue[1] \in Reports
    BY <1>2, <1>3, ElementOfSeq
  <2> QED BY <2>1 DEF Reports
<1>5. Shown' = InputPorts(seen.on) \cap CardPorts
  <2>1. InputPorts(seen.on) \in SUBSET WiredPorts
    BY SwitchPortsWired
  <2> QED BY <1>1, <2>1, NotifiedShown
<1> HIDE DEF n
<1>6. ASSUME Chain PROVE Chain' /\ \E a \in past : seen.on = Inserted[a]
  <2>1. seen.on = queue[1].on
    BY <1>1, <1>2, <1>3, <1>4, <1>6 DEF Chain, Agree
  <2>2. 1 \in 1..n /\ n \in 1..n /\ n - 1 \in Nat
    BY <1>3
  <2>3. queue[n].on = Inserted[jack] /\ \E a \in past : queue[1].on = Inserted[a]
    BY <1>1, <1>6, <2>2 DEF Chain, n
  <2>4. queue' = <<>> => seen'.on = Inserted[jack']
    BY <1>1, <1>3, <2>1, <2>3
  <2>5. ASSUME queue' # <<>>
        PROVE  queue'[Len(queue')].on = Inserted[jack'] /\ Agree(seen'.on, queue'[1])
    <3>1. 1 \in 1..(n - 1) /\ n - 1 \in 1..(n - 1)
        BY <1>3, <2>5
    <3>2. queue'[n - 1] = queue[n] /\ queue'[1] = queue[1 + 1]
        BY <1>3, <3>1
    <3>3. Agree(queue[1].on, queue[1 + 1])
        BY <1>6, <3>1 DEF Chain, n
    <3> QED BY <1>1, <1>3, <2>1, <2>3, <3>2, <3>3
  <2>6. \A k \in 1..(Len(queue') - 1) : Agree(queue'[k].on, queue'[k + 1])
    <3> SUFFICES ASSUME NEW k \in 1..(Len(queue') - 1) PROVE Agree(queue'[k].on, queue'[k + 1])
        OBVIOUS
    <3>1. k \in 1..(n - 1) /\ k + 1 \in 1..(n - 1)
        BY <1>3
    <3>2. queue'[k] = queue[k + 1] /\ queue'[k + 1] = queue[(k + 1) + 1]
        BY <1>3, <3>1
    <3> QED BY <1>6, <3>1, <3>2 DEF Chain, n
  <2>7. \A k \in 1..Len(queue') : \E a \in past' : queue'[k].on = Inserted[a]
    <3> SUFFICES ASSUME NEW k \in 1..Len(queue') PROVE \E a \in past' : queue'[k].on = Inserted[a]
        OBVIOUS
    <3>1. queue'[k] = queue[k + 1] /\ k + 1 \in 1..n
        BY <1>3
    <3> QED BY <1>1, <1>6, <3>1 DEF Chain, n
  <2> QED BY <2>1, <2>3, <2>4, <2>5, <2>6, <2>7 DEF Chain
<1>7. InputShown'
  <2> SUFFICES ASSUME stage # "query", Trusted
               PROVE  /\ Shown' = {} \/ \E a \in past' : Shown' = InputPorts(Inserted[a]) \cap CardPorts
                      /\ Chain' /\ (queue' = <<>> => Shown' = InputPorts(seen'.on) \cap CardPorts)
    BY <1>1 DEF InputShown, Trusted
  <2>1. Chain
    BY <1>1 DEF JackInv, InputShown
  <2> QED BY <1>1, <1>5, <1>6, <2>1
<1>8. ReaderInv'
    BY <1>1 DEF JackInv, ReaderInv
<1>9. SwitchRead' /\ SwitchShown'
    BY <1>1 DEF JackInv, ReaderInv, SwitchRead, SwitchShown
<1> QED BY <1>7, <1>8, <1>9 DEF JackInv

LEMMA JackInvStep ==
    ASSUME UsbInv, JackTypeOK, JackInv, [PlugNext]_plugVars PROVE JackInv'
<1>1. ports \in PortStates
    BY DEF UsbInv, UsbPart
<1>2. CASE LoadStep
  <2>1. CASE LoadSwitch \/ LoadListen \/ LoadInput \/ LoadQuery
    BY <1>1, <2>1, LoadSwitchKeeps, LoadInputKeeps
  <2>2. CASE NoSwitch \/ NoUdev \/ NoInput \/ NoUsb \/ NoMonitor
    <3>1. UNCHANGED <<jackVars, ports>> /\ Shown' = Shown
        BY <2>2 DEF NoSwitch, NoUdev, NoInput, NoUsb, NoMonitor, Goes, Shown
    <3> QED BY <2>2, <3>1, OtherStepKeeps DEF NoSwitch, NoUdev, NoInput, NoUsb, NoMonitor, Goes
  <2>3. CASE LoadScan \/ LoadListed \/ LoadMonitor
    <3>1. Shown' = Shown
        BY <2>3, UsbShowsNothing DEF LoadScan, LoadListed, LoadMonitor, Usb
    <3> QED BY <2>3, <3>1, OtherStepKeeps DEF LoadScan, LoadListed, LoadMonitor, Usb
  <2> QED BY <1>2, <2>1, <2>2, <2>3 DEF LoadStep
<1>3. CASE JackStep
  <2>1. stage = "running" /\ UNCHANGED stage
    BY <1>3 DEF JackStep
  <2>2. CASE ReceiveFails \/ InputFails
    BY <2>1, <2>2, StoppedKeeps DEF ReceiveFails, InputFails
  <2> QED BY <1>1, <1>3, <2>1, <2>2, SwitchEventKeeps, InputSwitchKeeps, InputSynKeeps DEF JackStep
<1>4. CASE UsbStep
    BY <1>4, UsbShowsNothing, OtherStepKeeps DEF UsbStep
<1>5. CASE Kernel
  <2>1. CASE \E a \in Accessories : Plug(a) /\ UNCHANGED stage
    BY <2>1, PlugKeeps
  <2>2. CASE (\E c \in Cards : PlugCard(c) \/ UnplugCard(c)) /\ UNCHANGED <<jackVars, stage>>
    BY <2>2, UsbShowsNothing, OtherStepKeeps
  <2> QED BY <1>5, <2>1, <2>2 DEF Kernel
<1>6. CASE Unload
    BY <1>6, StoppedKeeps DEF Unload, FreeJack
<1>7. CASE Dangle \/ UNCHANGED plugVars
  <2>1. UNCHANGED <<jackVars, ports>> /\ Shown' = Shown
    BY <1>7 DEF Dangle, plugVars, Shown
  <2> QED BY <1>7, <2>1, OtherStepKeeps DEF Dangle, plugVars
<1> QED BY <1>2, <1>3, <1>4, <1>5, <1>6, <1>7 DEF PlugNext

LEMMA JackInvInit == PlugInit => JackInv
<1> SUFFICES ASSUME PlugInit PROVE JackInv
    OBVIOUS
<1>1. /\ past = {jack} /\ reader = "none" /\ listening = FALSE /\ queue = <<>> /\ lost = {}
      /\ stage = "switch" /\ ports.available = {}
    BY DEF PlugInit, JackInit, NewPorts
<1> QED BY <1>1 DEF JackInv, ReaderInv, SwitchRead, SwitchShown, InputShown, Shown

LEMMA JackInvAlways == PlugSpec => [](JackTypeOK /\ JackInv)
<1> DEFINE Inv == UsbInv /\ JackTypeOK /\ JackInv
<1>1. PlugInit => Inv
    BY UsbInvInit, TypeInit, JackInvInit
<1>2. Inv /\ [PlugNext]_plugVars => Inv'
    BY UsbInvStep, JackTypeStep, JackInvStep
<1> QED BY <1>1, <1>2, PTL DEF PlugSpec

(* With all reports read the ports show what is in the jack, whatever was  *)
(* plugged when: no change is overtaken by an older one, a switch of an    *)
(* input device is never half applied, and nothing is forgotten while the  *)
(* reader is set up, unless lost says so.                                  *)
THEOREM JackIsShown == PlugSpec => []JackShown
<1>1. JackInv /\ JackTypeOK => JackShown
  <2> SUFFICES ASSUME JackInv, JackTypeOK, stage # "query", listening, queue = <<>>, lost = {}
               PROVE  Shown = PortsOf(jack) \cap CardPorts
    BY DEF JackShown
  <2>1. CASE reader = "extcon"
    BY <2>1 DEF JackInv, SwitchShown, PortsOf
  <2>2. CASE reader = "extevdev"
    BY <2>2 DEF JackInv, InputShown, Trusted, Chain, PortsOf
  <2>3. CASE reader = "none"
    BY <2>3 DEF JackInv, ReaderInv
  <2> QED BY <2>1, <2>2, <2>3 DEF JackTypeOK
<1> QED BY <1>1, JackInvAlways, PTL

(* What is shown was in the jack at some time, and not put together from   *)
(* the switches of two accessories, also after the reader has failed; but  *)
(* not when the kernel dropped events or the switches could not be read.   *)
THEOREM ShownIsReal == PlugSpec => []ShownWasThere
<1>1. JackInv /\ JackTypeOK => ShownWasThere
  <2> SUFFICES ASSUME JackInv, JackTypeOK, Trusted
               PROVE  Shown = {} \/ \E a \in past : Shown = PortsOf(a) \cap CardPorts
    BY DEF ShownWasThere, Trusted
  <2>1. CASE reader = "extcon"
    BY <2>1 DEF JackInv, SwitchShown, PortsOf
  <2>2. CASE reader = "extevdev"
    BY <2>2 DEF JackInv, ReaderInv, InputShown, PortsOf
  <2>3. CASE reader = "none"
    BY <2>3 DEF JackInv, ReaderInv
  <2> QED BY <2>1, <2>2, <2>3 DEF JackTypeOK
<1> QED BY <1>1, JackInvAlways, PTL

=============================================================================
