----------------------------- MODULE MCDroidLocks -----------------------------
(***************************************************************************)
(* The primary output and the source: with legacy routes and a HAL that    *)
(* refuses standby, and with closed inputs and defaults that fit nothing.  *)
(***************************************************************************)
EXTENDS DroidLocks

MCOptions == {{"legacy", "refuses"}, {"legacy", "close_input", "unfillable"}}

=============================================================================
