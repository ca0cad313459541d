------------------------------- MODULE MCInTran -------------------------------
(***************************************************************************)
(* InTran for TLC.  Processes are interchangeable.  Two states have the    *)
(* same future, and the same value of every invariant of the run, when     *)
(* they differ only in what a process remembers of an engine call that is  *)
(* over, in codes that close the row alike, in the serials of tellers or in *)
(* who reversed by hand.                                                   *)
(***************************************************************************)
EXTENDS InTran, TLC

ProcSymmetry == Permutations(Procs)

Called(p) == IF pc[p] # "idle" THEN <<pc[p], job[p]>>
             ELSE IF stage[p] \in {"first", "main", "cancel", "confirm", "manual"}
             THEN <<ret[p]>> ELSE <<>>

Successes == {"OK", "SUCC", "EXISTSUCC"}
Told(p) == CASE stage[p] = "reply" ->
                  IF code[p] \in Successes \cup {"FAIL", "NEG"} THEN code[p] ELSE "failed"
             [] stage[p] = "finish" ->
                  IF code[p] \in Successes THEN "settled" ELSE Closing(code[p])
             [] stage[p] = "sync" -> code[p]
             [] OTHER -> "none"

Relevant == <<acct, calls, answers, serial, reopened, blind, kind, row, stage,
              [p \in Procs |-> <<Called(p), Told(p)>>]>>
=============================================================================
