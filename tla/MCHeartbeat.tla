------------------------------ MODULE MCHeartbeat ------------------------------
(* An instance of Heartbeat for TLC, with a PLC that counts to three. *)
EXTENDS Heartbeat

PlcBeat == 1..3
================================================================================
