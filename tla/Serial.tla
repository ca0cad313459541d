-------------------------------- MODULE Serial --------------------------------
(***************************************************************************)
(* GenSerial (opSerial.c): the next number of a counter kept in a file.    *)
(* Each calling process opens the file, locks it by trying until it has    *)
(* the lock, reads, writes and closes it.  GenAccountSerial draws the      *)
(* serials of the booking engine from it, with 1..9999999.                 *)
(*                                                                         *)
(* The counter goes round: history variables count its laps, and record    *)
(* every number returned, together with the lap it was drawn in.            *)
(***************************************************************************)
EXTENDS Integers

CONSTANTS Procs, Min, Max,
          Empty,     \* contents of a file that was just created
          NoProc,    \* nobody holds the lock
          MaxCalls   \* bound on the calls

ASSUME SerialAssumption ==
    /\ Min \in Nat /\ Max \in Nat /\ Min <= Max
    /\ Empty \notin Int /\ NoProc \notin Procs /\ MaxCalls \in Nat

VARIABLES file,    \* the number in the file
          lock,    \* who holds the file's lock
          pc,      \* where each process is
          cur,     \* its local variable: the number, with the lap
          calls,   \* calls so far
          lap,     \* history: times the counter has started over
          given,   \* history: the numbers returned
          repeated,\* history: those returned again
          unsaved  \* history: numbers whose write failed

vars == <<file, lock, pc, cur, calls, lap, given, repeated, unsaved>>

Numbers == [lap : Nat, serial : Min..Max]
None == [lap |-> 0, serial |-> Min]

Init == /\ file = Empty /\ lock = NoProc
        /\ pc = [p \in Procs |-> "idle"] /\ cur = [p \in Procs |-> None]
        /\ calls = 0 /\ lap = 0 /\ given = {} /\ repeated = {} /\ unsaved = {}

Goto(p, point) == pc' = [pc EXCEPT ![p] = point]

Call(p) == /\ pc[p] = "idle" /\ calls < MaxCalls
           /\ calls' = calls + 1
           /\ Goto(p, "open")
           /\ UNCHANGED <<file, lock, cur, lap, given, repeated, unsaved>>

(* A file that cannot be opened or created: -1, which is no number. *)
Open(p) == /\ pc[p] = "open"
           /\ Goto(p, "lock") \/ Goto(p, "idle")
           /\ UNCHANGED <<file, lock, cur, calls, lap, given, repeated, unsaved>>

\* Mutant: fcntl is called once and its result not looked at.
LockOnce(p) == /\ pc[p] = "lock"
               /\ lock' = IF lock = NoProc THEN p ELSE lock
               /\ Goto(p, "read")
               /\ UNCHANGED <<file, cur, calls, lap, given, repeated, unsaved>>

Lock(p) == /\ pc[p] = "lock" /\ lock = NoProc
           /\ lock' = p
           /\ Goto(p, "read")
           /\ UNCHANGED <<file, cur, calls, lap, given, repeated, unsaved>>

(* The minimum in a new file, one more in another, the minimum again above *)
(* the maximum.                                                            *)
Following == IF file = Empty THEN [lap |-> lap, serial |-> Min]
             ELSE IF file + 1 > Max THEN [lap |-> lap + 1, serial |-> Min]
             ELSE [lap |-> lap, serial |-> file + 1]

Read(p) == /\ pc[p] = "read"
           /\ cur' = [cur EXCEPT ![p] = Following]
           /\ Goto(p, "write")
           /\ UNCHANGED <<file, lock, calls, lap, given, repeated, unsaved>>

(* The result of the write is not looked at. *)
Write(p) ==
    /\ pc[p] = "write"
    /\ \/ /\ file' = cur[p].serial /\ lap' = cur[p].lap
          /\ UNCHANGED unsaved
       \/ /\ unsaved' = unsaved \cup {cur[p]}
          /\ UNCHANGED <<file, lap>>
    /\ Goto(p, "close")
    /\ UNCHANGED <<lock, cur, calls, given, repeated>>

\* Mutant: the file is left open.
CloseNot(p) ==
    /\ pc[p] = "close"
    /\ given' = given \cup {cur[p]}
    /\ repeated' = repeated \cup ({cur[p]} \cap given)
    /\ Goto(p, "idle")
    /\ UNCHANGED <<file, lock, cur, calls, lap, unsaved>>

(* The lock goes with the file; the number is returned. *)
Close(p) ==
    /\ pc[p] = "close"
    /\ lock' = NoProc
    /\ given' = given \cup {cur[p]}
    /\ repeated' = repeated \cup ({cur[p]} \cap given)
    /\ Goto(p, "idle")
    /\ UNCHANGED <<file, cur, calls, lap, unsaved>>

(* The process dies; its lock goes with it. *)
Die(p) == /\ pc[p] # "idle"
          /\ lock' = IF lock = p THEN NoProc ELSE lock
          /\ Goto(p, "idle")
          /\ UNCHANGED <<file, cur, calls, lap, given, repeated, unsaved>>

GenSerial(p) == Open(p) \/ Lock(p) \/ Read(p) \/ Write(p) \/ Close(p)

Next == \E p \in Procs : Call(p) \/ GenSerial(p) \/ Die(p)

(* A process that can go on is scheduled.  Trying for the lock has no queue,*)
(* so no process is promised the lock.                                     *)
Spec == Init /\ [][Next]_vars /\ \A p \in Procs : WF_vars(GenSerial(p))
-----------------------------------------------------------------------------
(* The variables have their types: file holds a number of the range. *)
TypeOK == /\ file \in (Min..Max) \cup {Empty}
          /\ lock \in Procs \cup {NoProc}
          /\ pc \in [Procs -> {"idle", "open", "lock", "read", "write", "close"}]
          /\ cur \in [Procs -> Numbers]
          /\ calls \in 0..MaxCalls /\ lap \in Nat
          /\ given \subseteq Numbers /\ repeated \subseteq Numbers
          /\ unsaved \subseteq Numbers

(* Two calls of GenSerial return the same number of the same lap only when *)
(* writing it to the file had failed: the callers in between lose nothing, *)
(* whichever of them die and wherever.                                     *)
SerialsDistinct == repeated \subseteq unsaved

(* The counter never goes back within a lap, and starts over only from the *)
(* maximum: a serial comes again only after all the others.                *)
CounterAdvances ==
    [][file' # file /\ file # Empty =>
          (file' = file + 1) \/ (file = Max /\ file' = Min)]_vars

(* Whoever holds the lock lets it go, so that those that try for it are    *)
(* not held up forever.                                                    *)
LockReleased == \A p \in Procs : lock = p ~> lock # p
=============================================================================
