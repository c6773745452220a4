--------------------------- MODULE PolicyProfiles ---------------------------
(***************************************************************************)
(* From the policy files to the ports of a card: the files are parsed, the *)
(* configuration generated, the hw module opened for one of its modules    *)
(* copies it, and the card makes its profile of the copy.                  *)
(***************************************************************************)
EXTENDS PolicyParser, DroidProfileSet

CONSTANT Confs      \* module definitions read from files longer than the bound

IsList(s) == Len(s) \in Nat /\ DOMAIN s = 1..Len(s)

(* A module as the parser makes it: with device ports of known types only.  *)
WellRead(m) ==
    /\ IsList(m.devicePorts) /\ IsList(m.mixPorts) /\ IsList(m.routes)
    /\ IsList(m.attached) /\ IsList(m.default)
    /\ \A i \in DOMAIN m.devicePorts : KnownType(m.devicePorts[i].port)
    /\ \A i \in DOMAIN m.routes : IsList(m.routes[i].sources)

ASSUME ConfsAssumption == \A c \in Confs : WellRead(c)

VARIABLE loaded     \* the module of the configuration the card is for, 0 for none

allVars == <<vars, profileVars, loaded>>

NoConfig == [ports |-> <<>>, attached |-> <<>>, default |-> 0, routes |-> <<>>]

ConfigInit ==
    /\ ProfileInit(NoConfig) /\ loaded = 0
    /\ \/ Init
       \/ \E c \in Confs :
            /\ status = "done" /\ include = 0 /\ path = <<"root">> /\ at = NoPort
            /\ modules = <<c>> /\ includes = <<>>
            /\ open = <<>> /\ rooted = TRUE /\ astray = FALSE /\ elements = MaxElements

Parse == Next /\ UNCHANGED <<profileVars, loaded>>

(* process_config(), droid_hw_module_open() of one module of the           *)
(* configuration, and pa_droid_profile_set_default_new() for its card.     *)
Load(m) ==
    /\ status = "done" /\ loaded = 0 /\ m \in DOMAIN modules
    /\ loaded' = m
    /\ mod' = Dup(Generate(modules[m]))
    /\ UNCHANGED <<vars, stage, next, mappings, outputs, inputs, ports, card>>

MakeProfile == loaded # 0 /\ ProfileNext /\ UNCHANGED <<vars, loaded>>

ConfigNext == Parse \/ (\E m \in DOMAIN modules : Load(m)) \/ MakeProfile

ConfigSpec == ConfigInit /\ [][ConfigNext]_allVars

-----------------------------------------------------------------------------
(* The ports the module the card is for was read with.                     *)
ReadPorts ==
    LET m == modules[loaded]
    IN  [i \in DOMAIN m.devicePorts |-> m.devicePorts[i].port]
        \o [i \in DOMAIN m.mixPorts |-> m.mixPorts[i].port]
IsMix(i) == i > Len(modules[loaded].devicePorts)

(* What a policy file is expected to be: names and device types are used   *)
(* once, the default output is one of its devices, and routes lead from    *)
(* ports to ports, of the right roles.                                     *)
PlainModule ==
    LET m == modules[loaded]
        of(name) == Named(ReadPorts, name)
    IN  /\ \A i, j \in DOMAIN ReadPorts :
              i # j => /\ ReadPorts[i].name # ReadPorts[j].name
                       /\ ~IsMix(i) /\ ~IsMix(j) => ReadPorts[i].type # ReadPorts[j].type
        /\ m.default # <<>> /\ \E i \in of(m.default[1]) : ~IsMix(i) /\ ReadPorts[i].role = "sink"
        /\ \A r \in Elements(m.routes) :
              \E i \in of(r.sink) :
                 /\ ReadPorts[i].role = "sink"
                 /\ \A s \in Elements(r.sources) :
                       \E j \in of(s) : ReadPorts[j].role = "source" /\ IsMix(i) # IsMix(j)

(* With such a file the card gets through, every device a route of it      *)
(* names has a port of its own, whose device pa_droid_open_output_stream() *)
(* and set_route() find again by type, and every output can be opened with *)
(* the default device.                                                     *)
PlainModuleWorks ==
    loaded # 0 /\ PlainModule =>
        /\ stage \notin {"aborted", "crashed"}
        /\ stage = "ready" =>
              /\ \A i \in DOMAIN mappings : \A d \in mappings[i].devices :
                    LET type == mod.ports[d].type
                    IN  ports[type].device = d /\ FindDevicePort(mod, type) = d
              /\ \A i \in Elements(outputs) :
                    /\ FindMixPort(mod, mod.ports[mappings[i].mix].name) = mappings[i].mix
                    /\ mod.default # 0
                    /\ FindDevicePort(mod, mod.ports[mod.default].type) = mod.default

(* The card ends the daemon on a route to a port no element was read for,  *)
(* such as a devicePort that was left out for its type.                    *)
CrashHasLostPort ==
    stage = "crashed" =>
        \E r \in Elements(modules[loaded].routes) : Named(ReadPorts, r.sink) = {}

(* The sinks of the copied routes are those of the routes as read.         *)
CopyKeepsRoutes ==
    loaded # 0 =>
        LET m == modules[loaded] IN
        /\ Len(mod.routes) = Len(m.routes)
        /\ \A i \in DOMAIN m.routes :
              /\ mod.routes[i].sink = 0 <=> Named(ReadPorts, m.routes[i].sink) = {}
              /\ mod.routes[i].sink # 0 => mod.ports[mod.routes[i].sink].name = m.routes[i].sink
              /\ {mod.ports[s].name : s \in Elements(mod.routes[i].sources)}
                    = {s \in Elements(m.routes[i].sources) : Named(ReadPorts, s) # {}}

(* A port that was not read is lost in the copy, nothing else is, and only *)
(* such a port ends the daemon.                                            *)
LostPortsOnly == CopyKeepsRoutes /\ CrashHasLostPort

=============================================================================
