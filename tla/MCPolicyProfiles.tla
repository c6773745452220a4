-------------------------- MODULE MCPolicyProfiles --------------------------
EXTENDS PolicyProfiles

Mix(n, r, p) == [name |-> n, role |-> r, primary |-> p]
Device(n, r, t) == [name |-> n, role |-> r, type |-> t]

MCMixPorts == {Mix("a", "source", TRUE)}
MCDevicePorts == {Device("b", "sink", "speaker"), Device("b", "sink", "unknown")}
MCRoutes == {[sink |-> "b", sources |-> <<"a">>]}

(* The documents: in the order of the policy files, with an unknown        *)
(* element, misplaced and repeated elements.                               *)
MCInside ==
    [t \in Tags \cup {"document"} |->
        CASE t = "document" -> {"audioPolicyConfiguration", "module"}
          [] t = "audioPolicyConfiguration" -> {"modules", "other"}
          [] t = "modules" -> {"module", "xi:include"}
          [] t = "module" -> {"xi:include", "attachedDevices", "defaultOutputDevice",
                              "mixPorts", "devicePorts", "routes"}
          [] t = "attachedDevices" -> {"item"}
          [] t = "mixPorts" -> {"mixPort", "mixPorts"}
          [] t = "mixPort" -> {"profile"}
          [] t = "devicePorts" -> {"devicePort", "routes"}
          [] t = "devicePort" -> {"profile", "module"}
          [] t = "routes" -> {"route"}
          [] t = "other" -> {"modules"}
          [] OTHER -> {}]

(* Modules with up to two devices, mix ports and routes.                   *)
UpTo2(S) == {<<x>> : x \in S} \cup {<<x, y>> : x \in S, y \in S}
Read(p) == [port |-> p, profiles |-> 1]
MCConfs ==
    [attached : {<<"c">>, <<"c", "b">>}, default : {<<>>, <<"b">>, <<"fragment", "fragment">>},
     devicePorts : UpTo2({Read(Device("b", "sink", "speaker")), Read(Device("c", "sink", "headset")),
                          Read(Device("m", "source", "mic")), Read(Device("d", "sink", "speaker"))}),
     mixPorts : UpTo2({Read(Mix("a", "source", TRUE)), Read(Mix("e", "source", FALSE)),
                       Read(Mix("i", "sink", FALSE)), Read(Mix("b", "sink", FALSE))}),
     routes : UpTo2({[sink |-> "b", sources |-> <<"a", "e">>], [sink |-> "c", sources |-> <<"a">>],
                     [sink |-> "i", sources |-> <<"m">>], [sink |-> "d", sources |-> <<"e">>],
                     [sink |-> "e", sources |-> <<"a", "c">>], [sink |-> "b", sources |-> <<>>]})]

=============================================================================
