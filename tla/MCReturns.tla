------------------------------ MODULE MCReturns ------------------------------
(* Returns for TLC: processes are interchangeable, and what one remembers of *)
(* a call that is over is left out, as in MCOutTran.                         *)
(* One process serves after another: two at once on one row is MCOutTran.    *)
EXTENDS Returns, FiniteSets, TLC
ProcSymmetry == Permutations(Procs)
OneByOne == Cardinality({p \in Procs : stage'[p] # "idle"}) <= 1
MCView == <<row, center, stage, leg, tc, code, flagged, byHand,
            acct, host, calls, answers, serial, pc, reopened, blind,
            [p \in Procs |-> IF pc[p] = "idle" THEN Job(Main, 0, 0) ELSE job[p]],
            [p \in Procs |-> IF stage[p] = "idle" THEN "none" ELSE ret[p]]>>
=============================================================================
