------------------------------ MODULE BookOnce ------------------------------
(***************************************************************************)
(* What the booking engine promises of one leg of a transaction, without   *)
(* processes, messages or failures: the leg is claimed in the journal,     *)
(* then money moves at most once, then the journal records what the core   *)
(* system did; a booked leg may be undone once, and then recorded so.      *)
(* Booking over a closed row, or writing a row without the core system's   *)
(* answer, releases the leg from the promise for good.                     *)
(***************************************************************************)
CONSTANT Keys, InCredit

VARIABLES row,     \* what the journal says of a leg
          money    \* what happened to its money in the core system

vars == <<row, money>>

Init == /\ row = [k \in Keys |-> "absent"]
        /\ money = [k \in Keys |-> "none"]

Claim(k) == /\ row[k] = "absent"
            /\ row' = [row EXCEPT ![k] = "unknown"]
            /\ UNCHANGED money

Move(k) == /\ row[k] = "unknown" /\ money[k] = "none"
           /\ \E m \in {"posted", "refused"} \cup (IF k \in InCredit THEN {"held"} ELSE {}) :
                 money' = [money EXCEPT ![k] = m]
           /\ UNCHANGED row

Recorded(m) == CASE m = "posted"  -> "booked"
                 [] m = "held"    -> "suspended"
                 [] m = "refused" -> "failed"
                 [] m = "undone"  -> "reversed"

Record(k) == /\ row[k] = "unknown" /\ money[k] # "none"
             /\ row' = [row EXCEPT ![k] = Recorded(money[k])]
             /\ UNCHANGED money

Undo(k) == /\ row[k] = "booked" /\ money[k] = "posted"
           /\ money' = [money EXCEPT ![k] = "undone"]
           /\ UNCHANGED row

RecordUndo(k) == /\ row[k] = "booked" /\ money[k] = "undone"
                 /\ row' = [row EXCEPT ![k] = Recorded(money[k])]
                 /\ UNCHANGED money

Release(k) == /\ row[k] \notin {"absent", "released"}
              /\ row' = [row EXCEPT ![k] = "released"]
              /\ money' = [money EXCEPT ![k] = "released"]

Next == \E k \in Keys : \/ Claim(k) \/ Move(k) \/ Record(k)
                        \/ Undo(k) \/ RecordUndo(k) \/ Release(k)

Spec == Init /\ [][Next]_vars
=============================================================================
