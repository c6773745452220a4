--------------------------- MODULE DroidProfileSet ---------------------------
(***************************************************************************)
(* The droid profile of a card: auto_add_profiles() goes through the routes *)
(* of the module's configuration and makes a mapping of every mix port and *)
(* a port of every device type; the card then takes ports of its own from  *)
(* the mappings that may have them.                                        *)
(***************************************************************************)
EXTENDS DroidConfig

CONSTANT Connected      \* the types connected_port() takes as always there

ASSUME ConnectedAssumption == Connected \subseteq OutTypes \cup InTypes

OutputParking == "output-parking"
InputParking == "input-parking"
PortNames == OutTypes \cup InTypes \cup {OutputParking, InputParking}

ASSUME ParkingAssumption == {OutputParking, InputParking} \cap (OutTypes \cup InTypes) = {}

VARIABLES
    mod,        \* the configuration of the module, enabled_module
    stage,      \* "routes", "card", "ready", or the daemon "aborted" or
                \* "crashed"
    next,       \* the route, and its source, or the mapping worked on next
    mappings,   \* the mappings of the profile set, oldest first
    outputs, inputs,    \* those of the profile, as indexes
    ports,      \* all_ports of the profile set: device and priority by name
    card        \* ports of the card: available and priority by name

profileVars == <<mod, stage, next, mappings, outputs, inputs, ports, card>>

Elements(s) == {s[i] : i \in DOMAIN s}

(* The profile set of a new card.                                          *)
ProfileInit(c) ==
    /\ mod = c /\ stage = "routes" /\ next = [route |-> 1, source |-> 1]
    /\ mappings = <<>> /\ outputs = <<>> /\ inputs = <<>>
    /\ ports = << >> /\ card = << >>

-----------------------------------------------------------------------------
(* Mutant of Priority: only attached devices count.                        *)
PriorityAttached(type) ==
    100 + (IF \E i \in Elements(mod.attached) : mod.ports[i].type = type THEN 100 ELSE 0)

(* create_output_port() and create_input_port(): ports of attached types,  *)
(* and the output of the default one, come first.                          *)
Priority(type) ==
    100 + (IF \E i \in Elements(mod.attached) : mod.ports[i].type = type THEN 100 ELSE 0)
        + (IF mod.default # 0 /\ type \in OutTypes /\ mod.ports[mod.default].type = type
           THEN 100 ELSE 0)

Added(all, name, port) == IF name \in DOMAIN all THEN all
                          ELSE [n \in DOMAIN all \cup {name} |-> IF n = name THEN port ELSE all[n]]

(* add_output_ports(), add_input_ports(): the parking port, then the port  *)
(* named after the type, which the first device of the type makes.         *)
Parking(dir) == IF dir = "output" THEN OutputParking ELSE InputParking
AddedPorts(dir, d) ==
    Added(Added(ports, Parking(dir), [device |-> 0, priority |-> 50]),
          mod.ports[d].type, [device |-> d, priority |-> Priority(mod.ports[d].type)])

(* Mutant of Direction: the roles are taken the other way round.           *)
DirectionReversed(mix) == IF mod.ports[mix].role = "source" THEN "input" ELSE "output"

(* droid_mapping_update(): the mapping of the mix port's name is looked up *)
(* among those of the direction its role says, or made.                    *)
Direction(mix) == IF mod.ports[mix].role = "sink" THEN "input" ELSE "output"
MappingOf(mix) ==
    First({i \in DOMAIN mappings : /\ mappings[i].dir = Direction(mix)
                                   /\ mod.ports[mappings[i].mix].name = mod.ports[mix].name})

(* Mutant of UpdatedMappings: the mapping found is replaced.               *)
UpdatedMappingsFresh(mix, d) ==
    Append(mappings, [mix |-> mix, dir |-> Direction(mix), devices |-> {d},
                      ports |-> {Parking(Direction(mix)), mod.ports[d].type}])

UpdatedMappings(mix, d) ==
    LET m == MappingOf(mix)
        names == {Parking(Direction(mix)), mod.ports[d].type}
    IN  IF m = 0 THEN Append(mappings, [mix |-> mix, dir |-> Direction(mix),
                                        devices |-> {d}, ports |-> names])
        ELSE [mappings EXCEPT ![m].devices = @ \cup {d}, ![m].ports = @ \cup names]

(* The profile lists a mapping once, found by the name of its mix port.    *)
Put(list, mix) ==
    IF \E i \in Elements(list) : mod.ports[mappings[i].mix].name = mod.ports[mix].name
    THEN list
    ELSE Append(list, IF MappingOf(mix) = 0 THEN Len(mappings) + 1 ELSE MappingOf(mix))

(* The next source of the route, or the next route.                        *)
Advance == next' = IF next.source < Len(mod.routes[next.route].sources)
                   THEN [next EXCEPT !.source = @ + 1]
                   ELSE [route |-> next.route + 1, source |-> 1]

(* A mix port and a device port are joined into the mapping of a list.     *)
Join(mix, d, into) ==
    IF mod.ports[d].type \in (IF Direction(mix) = "output" THEN OutTypes ELSE InTypes)
    THEN /\ mappings' = UpdatedMappings(mix, d)
         /\ ports' = AddedPorts(Direction(mix), d)
         /\ outputs' = IF into = "output" THEN Put(outputs, mix) ELSE outputs
         /\ inputs' = IF into = "input" THEN Put(inputs, mix) ELSE inputs
         /\ Advance
         /\ UNCHANGED <<mod, stage, card>>
    ELSE stage' = "aborted" /\ UNCHANGED <<mod, next, mappings, outputs, inputs, ports, card>>

InRoute == stage = "routes" /\ next.route <= Len(mod.routes)
Route == mod.routes[next.route]
HasSource == next.source <= Len(Route.sources)
Source == Route.sources[next.source]
Kind(p) == mod.ports[p].kind

(* update_mapping(): an output, from a mix port to a device.               *)
UpdateOutput ==
    /\ InRoute /\ HasSource /\ Route.sink # 0
    /\ Kind(Source) = "mix" /\ Kind(Route.sink) = "device"
    /\ Join(Source, Route.sink, "output")

(* An input, from a device to a mix port.                                  *)
UpdateInput ==
    /\ InRoute /\ HasSource /\ Route.sink # 0
    /\ Kind(Source) = "device" /\ Kind(Route.sink) = "mix"
    /\ Join(Route.sink, Source, "input")

(* From a device to a device: not implemented, and nothing is done.        *)
SkipPatch ==
    /\ InRoute /\ HasSource /\ Route.sink # 0
    /\ Kind(Source) = "device" /\ Kind(Route.sink) = "device"
    /\ Advance
    /\ UNCHANGED <<mod, stage, mappings, outputs, inputs, ports, card>>

(* From a mix port to a mix port: pa_assert_not_reached().                 *)
Confused ==
    /\ InRoute /\ HasSource /\ Route.sink # 0
    /\ Kind(Source) = "mix" /\ Kind(Route.sink) = "mix"
    /\ stage' = "aborted"
    /\ UNCHANGED <<mod, next, mappings, outputs, inputs, ports, card>>

(* The type of a port that is not there is read.                           *)
NullSink ==
    /\ InRoute /\ HasSource /\ Route.sink = 0
    /\ stage' = "crashed"
    /\ UNCHANGED <<mod, next, mappings, outputs, inputs, ports, card>>

NextRoute ==
    /\ InRoute /\ ~HasSource /\ next.source = 1
    /\ Advance
    /\ UNCHANGED <<mod, stage, mappings, outputs, inputs, ports, card>>

RoutesDone ==
    /\ stage = "routes" /\ next.route > Len(mod.routes)
    /\ stage' = "card" /\ next' = [route |-> 1, source |-> 1]
    /\ UNCHANGED <<mod, mappings, outputs, inputs, ports, card>>

(* add_ports(): of the outputs only a primary one has ports.               *)
MayHavePorts(m) == mappings[m].dir = "output" => mod.ports[mappings[m].mix].primary

(* connected_port(): parking ports are always available.                   *)
Available(name) == ports[name].device # 0 => mod.ports[ports[name].device].type \in Connected

(* add_profile(): pa_droid_add_card_ports() for the outputs and inputs.    *)
AddCardPorts ==
    LET all == outputs \o inputs
        taken == IF MayHavePorts(all[next.route]) THEN mappings[all[next.route]].ports ELSE {}
    IN  /\ stage = "card" /\ next.route <= Len(all)
        /\ card' = [n \in DOMAIN card \cup taken |->
                        IF n \in DOMAIN card THEN card[n]
                        ELSE [available |-> Available(n), priority |-> ports[n].priority]]
        /\ next' = [next EXCEPT !.route = @ + 1]
        /\ UNCHANGED <<mod, stage, mappings, outputs, inputs, ports>>

CardDone ==
    /\ stage = "card" /\ next.route > Len(outputs) + Len(inputs)
    /\ stage' = "ready"
    /\ UNCHANGED <<mod, next, mappings, outputs, inputs, ports, card>>

ProfileNext ==
    \/ UpdateOutput \/ UpdateInput \/ SkipPatch \/ Confused \/ NullSink
    \/ NextRoute \/ RoutesDone \/ AddCardPorts \/ CardDone

-----------------------------------------------------------------------------
(* The pairs of a mix port and a device port the routes join.              *)
Pairs(kind) ==
    UNION {LET r == mod.routes[i] IN
           IF r.sink = 0 THEN {}
           ELSE {<<IF kind = "output" THEN s ELSE r.sink, IF kind = "output" THEN r.sink ELSE s>> :
                 s \in {t \in Elements(r.sources) :
                          /\ Kind(t) = IF kind = "output" THEN "mix" ELSE "device"
                          /\ Kind(r.sink) = IF kind = "output" THEN "device" ELSE "mix"}} :
           i \in DOMAIN mod.routes}

(* "for every mixPort there will be one sink or source": a profile lists   *)
(* each mix port with a route once, in the order met, and no other.        *)
MappingPerMixPort ==
    stage \in {"card", "ready"} =>
        \A kind \in {"output", "input"} :
            LET list == IF kind = "output" THEN outputs ELSE inputs
            IN  /\ {mappings[i].mix : i \in Elements(list)} = {p[1] : p \in Pairs(kind)}
                /\ \A i, j \in DOMAIN list : i # j => mappings[list[i]].mix # mappings[list[j]].mix

(* Every mix port is at the end of its routes that its role says.          *)
RolesAgree ==
    /\ \A p \in Pairs("output") : mod.ports[p[1]].role = "source"
    /\ \A p \in Pairs("input") : mod.ports[p[1]].role = "sink"

(* A mapping reaches the devices its mix port has routes with, through the *)
(* ports of their types and the parking port, and nothing else: whatever   *)
(* order the routes come in and however often one is repeated.             *)
MappingReachesRoutes ==
    stage \in {"card", "ready"} /\ RolesAgree =>
        \A kind \in {"output", "input"} :
            \A i \in Elements(IF kind = "output" THEN outputs ELSE inputs) :
                LET m == mappings[i]
                    reached == {p[2] : p \in {q \in Pairs(kind) : q[1] = m.mix}}
                IN  /\ m.devices = reached
                    /\ m.ports = {mod.ports[d].type : d \in reached} \cup {Parking(m.dir)}

(* The port of the default output device is at least as good as any other  *)
(* port of an output that has it: it is where playback starts.             *)
DefaultPortBest ==
    stage \in {"card", "ready"} /\ mod.default # 0 =>
        \A i \in Elements(outputs) :
            LET best == mod.ports[mod.default].type
            IN  best \in mappings[i].ports \cap OutTypes =>
                    \A n \in mappings[i].ports : ports[n].priority <= ports[best].priority

(* The card has the ports of its inputs and primary outputs.  A port is    *)
(* available from the start only if it cannot be unplugged.                *)
CardPortsOfMappings ==
    stage = "ready" /\ RolesAgree =>
        LET from == {i \in Elements(outputs) :
                        \E p \in {mod.ports[mappings[i].mix]} : p.primary} \cup Elements(inputs)
        IN  /\ DOMAIN card = UNION {mappings[i].ports : i \in from}
            /\ \A n \in DOMAIN card :
                   card[n].available <=> n \in Connected \cup {OutputParking, InputParking}

(* The mappings are a function of the routes, whatever their order.        *)
MappingsOfRoutes == MappingPerMixPort /\ MappingReachesRoutes

(* Where playback starts, and what may be plugged in, is what the module's *)
(* configuration says.                                                     *)
PortsOfMappings == DefaultPortBest /\ CardPortsOfMappings

=============================================================================
