------------------------------ MODULE MCOutTran ------------------------------
(* OutTran for TLC: processes are interchangeable.  A plain credit or debit *)
(* meets any interleaving of the processes; the other kinds, which have up  *)
(* to three legs, are served by one process after another.                  *)
EXTENDS OutTran, FiniteSets, TLC
ProcSymmetry == Permutations(Procs)
BoundedStep == kind' \in {"credit", "debit"}
               \/ Cardinality({p \in Procs : stage'[p] # "idle"}) <= 1

(* What a process remembers of a call that is over is read by no action of  *)
(* OutTran and no invariant of this run; nor is the teller's serial.        *)
MCView == <<kind, row, center, stage, tc, code, doubts, byHand,
            acct, calls, answers, serial, pc, reopened, blind,
            [p \in Procs |-> IF pc[p] = "idle" THEN Job(Main, 0, 0) ELSE job[p]],
            [p \in Procs |-> IF stage[p] = "idle" THEN "none" ELSE ret[p]]>>
=============================================================================
