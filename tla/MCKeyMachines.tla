---------------------------- MODULE MCKeyMachines ----------------------------
(* Two callers and one child on two machines, in a table of three places.   *)
EXTENDS KeyMachines, TLC
=============================================================================
