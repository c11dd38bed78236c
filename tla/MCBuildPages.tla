---------------------------- MODULE MCBuildPages ----------------------------
(* Four builds of which the oldest is too old, and two more while the task runs. *)
EXTENDS BuildPages
=============================================================================
