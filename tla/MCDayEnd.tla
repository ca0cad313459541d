------------------------------- MODULE MCDayEnd -------------------------------
(* DayEnd for TLC: transactions are interchangeable. *)
EXTENDS DayEnd, TLC
(* Without the history of reconciled rounds. *)
NoDone == <<center, listed, para, trn, htrn, req, switch, arch, rec, touched, late, slipped, extra>>
Symmetry == Permutations(Txns)
OneDay == [t \in Txns |-> 1]
OneRound == [t \in Txns |-> 1]
=============================================================================
