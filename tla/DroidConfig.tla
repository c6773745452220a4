----------------------------- MODULE DroidConfig -----------------------------
(***************************************************************************)
(* The configuration of a hw module: what is made of the elements read     *)
(* from the policy files, the copy every hw module keeps, and how ports    *)
(* are looked up in it.  A port is known by its index, 0 stands for NULL.  *)
(***************************************************************************)
EXTENDS Naturals, Sequences

CONSTANTS OutTypes, InTypes     \* device types the conversion tables know

ASSUME TypesAssumption == OutTypes \cap InTypes = {}

NoType == "no type"             \* dm_config_port.type of a mix port

(* First index of a port that is in a set, 0 when there is none.           *)
First(indexes) ==
    IF indexes = {} THEN 0 ELSE CHOOSE i \in indexes : \A j \in indexes : i <= j

(* The ports of this name; mix and device ports share their names.         *)
Named(ports, name) == {i \in DOMAIN ports : ports[i].name = name}

(* A list of ports, of which those that are NULL are left out.             *)
Present(s) ==
    LET list[i \in 0..Len(s)] ==
            IF i = 0 THEN <<>>
            ELSE IF s[i] = 0 THEN list[i - 1] ELSE Append(list[i - 1], s[i])
    IN  list[Len(s)]

(* config_device_port_new(), with the profile made up for a port that has  *)
(* none, and config_mix_port_new().                                        *)
DevicePort(d) ==
    [kind |-> "device", name |-> d.port.name, role |-> d.port.role, type |-> d.port.type,
     primary |-> FALSE, profiles |-> IF d.profiles = 0 THEN 1 ELSE d.profiles]
MixPort(m) ==
    [kind |-> "mix", name |-> m.port.name, role |-> m.port.role, type |-> NoType,
     primary |-> m.port.primary, profiles |-> m.profiles]

(* generate_config_for_module(): names become ports, the first of the name *)
(* in the list of device ports, then mix ports.  Names of no port drop out *)
(* of the lists; a route keeps no sink.                                    *)
Generate(m) ==
    LET devices == [i \in DOMAIN m.devicePorts |-> DevicePort(m.devicePorts[i])]
        ports == devices \o [i \in DOMAIN m.mixPorts |-> MixPort(m.mixPorts[i])]
        found(in, names) == Present([i \in DOMAIN names |-> First(Named(in, names[i]))])
    IN  [ports |-> ports,
         attached |-> found(devices, m.attached),
         default |-> IF m.default = <<>> THEN 0 ELSE First(Named(devices, m.default[1])),
         routes |-> [i \in DOMAIN m.routes |->
                        [sink |-> First(Named(ports, m.routes[i].sink)),
                         sources |-> found(ports, m.routes[i].sources)]]]

(* Mutant of Equal: the type is enough.                                    *)
EqualType(p, q) == p.type = q.type

(* dm_config_port_equal() *)
Equal(p, q) == p.name = q.name /\ p.type = q.type

(* config_route_dup(): the ports of the copy that equal those of the route. *)
CopyOf(ports, i) ==
    IF i = 0 THEN 0 ELSE First({j \in DOMAIN ports : Equal(ports[i], ports[j])})

(* config_module_dup(): attached devices come in the order of the ports,   *)
(* each once.                                                              *)
Dup(c) ==
    [c EXCEPT
        !.attached = Present([i \in DOMAIN c.ports |->
                                  IF \E j \in DOMAIN @ : @[j] = i THEN i ELSE 0]),
        !.routes = [i \in DOMAIN @ |->
                        [sink |-> CopyOf(c.ports, @[i].sink),
                         sources |-> Present([j \in DOMAIN @[i].sources |->
                                                  CopyOf(c.ports, @[i].sources[j])])]]]

(* dm_config_find_mix_port() and dm_config_find_device_port() *)
FindMixPort(c, name) == First({i \in Named(c.ports, name) : c.ports[i].kind = "mix"})
FindDevicePort(c, type) ==
    First({i \in DOMAIN c.ports : c.ports[i].kind = "device" /\ c.ports[i].type = type})

=============================================================================
