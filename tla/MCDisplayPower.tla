--------------------------- MODULE MCDisplayPower ---------------------------
(***************************************************************************)
(* Three displays that differ in the hardware and in what their client asks *)
(* for: a command mode panel with writeback under every power mode, a video *)
(* mode panel without writeback, and a command mode panel that is only      *)
(* turned on and off.                                                       *)
(***************************************************************************)
EXTENDS DisplayPower

ThreeKinds == {
  [command |-> TRUE, cwb |-> TRUE, requests |-> Modes, faults |-> 1],
  [command |-> FALSE, cwb |-> FALSE, requests |-> Modes, faults |-> 1],
  [command |-> TRUE, cwb |-> TRUE, requests |-> {"Off", "On"}, faults |-> 1]}
=============================================================================
