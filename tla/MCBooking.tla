------------------------------ MODULE MCBooking ------------------------------
(* Booking for TLC: processes are interchangeable. *)
EXTENDS Booking, TLC
ProcSymmetry == Permutations(Procs)
=============================================================================
