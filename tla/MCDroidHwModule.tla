--------------------------- MODULE MCDroidHwModule --------------------------
(***************************************************************************)
(* Two cards of the primary module, one with two outputs and an input, and *)
(* a sink of the usb module and one of the primary module loaded alone.    *)
(***************************************************************************)
EXTENDS DroidHwModule, TLC

MCIds == {"primary", "usb"}
MCCards == {"card", "second card"}
MCSinks == {"sink", "deep buffer", "lone sink", "usb sink"}
MCSources == {"source"}
MCCardOf == [s \in MCSinks \cup MCSources |->
                IF s \in {"lone sink", "usb sink"} THEN NoCard ELSE "card"]
MCId == [u \in MCCards \cup MCSinks \cup MCSources |->
            IF u = "usb sink" THEN "usb" ELSE "primary"]

CONSTANTS i1, i2, i3
Symmetry == Permutations({i1, i2, i3})

=============================================================================
