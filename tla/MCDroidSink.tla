---------------------------- MODULE MCDroidSink ----------------------------
(***************************************************************************)
(* Two streams that ask for different extra routes, one of them also a     *)
(* voice control stream, a stream that asks for a device the module does   *)
(* not have, and the virtual stream.  Two volumes, told apart and no more. *)
(***************************************************************************)
EXTENDS DroidSink

MCInputs == {"alarm", "ring", "odd"}
MCRouteOf == [i \in MCInputs |->
                CASE i = "alarm" -> "speaker" [] i = "ring" -> "earpiece" [] i = "odd" -> "fm"]
MCLevelSymmetry == Permutations(Levels)
MCDevices == {"speaker", "earpiece", "wired"}

=============================================================================
