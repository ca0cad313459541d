-------------------------------- MODULE Fees --------------------------------
(***************************************************************************)
(* Fees of outbound transactions: one transaction at the counter           *)
(* (PF10_152), or everything up to a date in a batch (PF10_153).  Both     *)
(* call fetchFee, which keeps a row in feelist, has the fee booked by the  *)
(* engine of module Booking and marks the transaction in feeflag.          *)
(*                                                                         *)
(* fetchFee books under the date of the machine, not under the work date   *)
(* of the transaction: the leg is <<way, machine date, refid>>.  Table     *)
(* feelist has no unique index, so its rows of a transaction are a set of  *)
(* results.                                                                *)
(***************************************************************************)
EXTENDS Booking

CONSTANTS Trans,       \* archived outbound transactions: [day, ref]
          Free,        \* those whose note type costs nothing
          Leg(_,_,_),  \* the leg of a fee: way, machine date, refid
          LastDay      \* bound on the dates

\* The refid of its transaction is in the key of a leg.
ASSUME FeesAssumption ==
    /\ LastDay \in Nat \ {0}
    /\ \A t \in Trans : t.day \in Nat \ {0}
    /\ \A t, u \in Trans, d, e \in 1..LastDay, v, w \in {"cash", "zz"} :
          /\ Leg(v, d, t.ref) \in Keys
          /\ Leg(v, d, t.ref) = Leg(w, e, u.ref) => t.ref = u.ref

VARIABLES today,     \* date of the machine
          archived,  \* ARCHIVEDATE
          lastFee,   \* LASTFEEDATE
          feelist,   \* results of the feelist rows of each transaction
          feeflag,   \* transactions with feeflag 1
          fstage,    \* where each process is
          task,      \* what it does
          skipped,   \* history: dates passed by force or over a failed SELECT
          charged    \* history: the transaction each request was made for

feeVars == <<today, archived, lastFee, feelist, feeflag, fstage, task, skipped, charged>>

NoTask == [way |-> "zz", batch |-> FALSE, rows |-> {}, row |-> {}, date |-> 0,
           ok |-> TRUE, force |-> FALSE]

FeesInit == /\ today = 1 /\ archived = 0 /\ lastFee = 0
            /\ feelist = [t \in Trans |-> {}]
            /\ feeflag = {} /\ skipped = {} /\ charged = {}
            /\ fstage = [p \in Procs |-> "idle"]
            /\ task = [p \in Procs |-> NoTask]

FTo(p, s)   == fstage' = [fstage EXCEPT ![p] = s]
FSet(p, t)  == task' = [task EXCEPT ![p] = t]
FEnd(p)     == FTo(p, "idle") /\ FSet(p, NoTask)
FReturned(p) == pc[p] = "idle" /\ ret[p] # "none"
FRest == UNCHANGED <<today, archived>>

(* fetchFee is over with 0, or with an error: a batch goes on to its next  *)
(* row, and remembers an error.                                            *)
Fetched(p, good) ==
    IF task[p].batch
    THEN FTo(p, "rows") /\ FSet(p, [task[p] EXCEPT !.row = {}, !.ok = @ /\ good])
    ELSE FEnd(p)

(* Process p is at point s of fetchFee with transaction t. *)
Fetching(p, s, t) == fstage[p] = s /\ t \in task[p].row

-----------------------------------------------------------------------------
(* PF10_152: by cash or by transfer; for a transfer the password is        *)
(* encrypted first, which may fail.                                        *)
PF10_152(p, t, way) ==
    /\ fstage[p] = "idle" /\ t.day <= today
    /\ \/ way = "zz" /\ FEnd(p)
       \/ /\ FTo(p, "fetch")
          /\ FSet(p, [NoTask EXCEPT !.way = way, !.row = {t}])
    /\ FRest /\ UNCHANGED <<bookVars, lastFee, feelist, feeflag, skipped, charged>>

(* PF10_153: the date lies in the archive and after the last one.  The     *)
(* result of the SELECT is not looked at: when it fails there are no rows. *)
PF10_153(p, date, force) ==
    /\ fstage[p] = "idle"
    /\ date <= archived /\ date > lastFee
    /\ FTo(p, "rows")
    /\ LET batch == [NoTask EXCEPT !.batch = TRUE, !.date = date, !.force = force]
           due   == {t \in Trans : /\ t \notin feeflag
                                   /\ t.day \in lastFee..date}
       IN \/ FSet(p, [batch EXCEPT !.rows = due]) /\ UNCHANGED skipped
          \/ FSet(p, batch) /\ skipped' = skipped \cup 0..date
    /\ FRest /\ UNCHANGED <<bookVars, lastFee, feelist, feeflag, charged>>

(* The next row: its fee cannot be computed and the batch ends, it has     *)
(* none, or it is fetched by transfer.                                     *)
NextRow(p, t) ==
    /\ fstage[p] = "rows" /\ t \in task[p].rows
    /\ LET rest == [task[p] EXCEPT !.rows = @ \ {t}] IN
       \/ FEnd(p)
       \/ t \in Free /\ FTo(p, "rows") /\ FSet(p, rest)
       \/ t \notin Free /\ FTo(p, "fetch") /\ FSet(p, [rest EXCEPT !.row = {t}])
    /\ FRest /\ UNCHANGED <<bookVars, lastFee, feelist, feeflag, skipped, charged>>

\* Mutant: the batch date advances whatever became of the rows.
CloseBatchAny(p) ==
    /\ fstage[p] = "rows" /\ task[p].rows = {}
    /\ FEnd(p) /\ lastFee' = task[p].date
    /\ FRest /\ UNCHANGED <<bookVars, feelist, feeflag, skipped, charged>>

(* After the last row: LASTFEEDATE advances when every row was fetched, or *)
(* by force; the UPDATE may fail.                                          *)
CloseBatch(p) ==
    /\ fstage[p] = "rows" /\ task[p].rows = {}
    /\ FEnd(p)
    /\ \/ UNCHANGED <<lastFee, skipped>>
       \/ /\ task[p].ok \/ task[p].force
          /\ lastFee' = task[p].date
          /\ skipped' = IF task[p].ok THEN skipped ELSE skipped \cup 0..task[p].date
    /\ FRest /\ UNCHANGED <<bookVars, feelist, feeflag, charged>>

-----------------------------------------------------------------------------
(* fetchFee: SELECT result FROM feelist. *)
FetchQuery(p, t) ==
    /\ Fetching(p, "fetch", t)
    /\ \/ Fetched(p, FALSE)                                \* SQL error
       \/ feelist[t] = {} /\ FTo(p, "insert") /\ UNCHANGED task
       \/ "due" \in feelist[t] /\ FTo(p, "charge") /\ UNCHANGED task
       \/ "taken" \in feelist[t] /\ FTo(p, "mark") /\ UNCHANGED task
    /\ FRest /\ UNCHANGED <<bookVars, lastFee, feelist, feeflag, skipped, charged>>

FetchInsert(p, t) ==
    /\ Fetching(p, "insert", t)
    /\ \/ Fetched(p, FALSE) /\ UNCHANGED feelist
       \/ /\ feelist' = [feelist EXCEPT ![t] = @ \cup {"due"}]
          /\ FTo(p, "charge") /\ UNCHANGED task
    /\ FRest /\ UNCHANGED <<bookVars, lastFee, feeflag, skipped, charged>>

FetchCharge(p, t) ==
    /\ Fetching(p, "charge", t)
    /\ AccountingStart(p, Leg(task[p].way, today, t.ref))
    /\ charged' = charged \cup {[tran |-> t, serial |-> s] : s \in {serial'} \ {serial}}
    /\ FTo(p, "charging")
    /\ FRest /\ UNCHANGED <<lastFee, feelist, feeflag, task, skipped>>

(* Any return of Accounting but E_APP_ACCOUNTSUCC is fetchFee's own, the 0 *)
(* of a foreign currency, that nothing was booked for, among them; so is   *)
(* that of a failing UPDATE.                                               *)
FetchCharged(p, t) ==
    /\ Fetching(p, "charging", t) /\ FReturned(p)
    /\ \/ ret[p] = "OK" /\ Fetched(p, TRUE) /\ UNCHANGED feelist
       \/ ret[p] # "OK" /\ Fetched(p, FALSE) /\ UNCHANGED feelist
       \/ /\ ret[p] = "SUCC"
          /\ feelist' = [feelist EXCEPT ![t] = {"taken"}]
          /\ FTo(p, "mark") /\ UNCHANGED task
    /\ FRest /\ UNCHANGED <<bookVars, lastFee, feeflag, skipped, charged>>

(* EXIT: the UPDATE of the transaction is not checked. *)
FetchMark(p, t) ==
    /\ Fetching(p, "mark", t)
    /\ Fetched(p, TRUE)
    /\ feeflag' = feeflag \cup {t} \/ UNCHANGED feeflag
    /\ FRest /\ UNCHANGED <<bookVars, lastFee, feelist, skipped, charged>>

fetchFee(p, t) == \/ FetchQuery(p, t) \/ FetchInsert(p, t) \/ FetchCharge(p, t)
                  \/ FetchCharged(p, t) \/ FetchMark(p, t)
-----------------------------------------------------------------------------
(* The machine's date, the archive of module DayEnd, the engine. *)
NextDay == /\ today < LastDay /\ today' = today + 1
           /\ UNCHANGED <<bookVars, archived, lastFee, feelist, feeflag, fstage, task, skipped, charged>>

Archive == /\ archived < today /\ archived' = archived + 1
           /\ UNCHANGED <<bookVars, today, lastFee, feelist, feeflag, fstage, task, skipped, charged>>

FeeEngine == /\ \/ \E p \in Procs : ProcStep(p)
                \/ \E c \in calls : BankExecute(c)
             /\ UNCHANGED feeVars

FeeDie(p) == /\ fstage[p] # "idle"
             /\ Crash(p) \/ (pc[p] = "idle" /\ UNCHANGED bookVars)
             /\ FEnd(p)
             /\ FRest /\ UNCHANGED <<lastFee, feelist, feeflag, skipped, charged>>

FeesNext ==
    \/ NextDay \/ Archive \/ FeeEngine
    \/ \E p \in Procs :
          \/ CloseBatch(p) \/ FeeDie(p)
          \/ \E t \in Trans : NextRow(p, t) \/ fetchFee(p, t)
          \/ \E t \in Trans, way \in {"cash", "zz"} : PF10_152(p, t, way)
          \/ \E date \in 1..LastDay, force \in BOOLEAN : PF10_153(p, date, force)

feesVars == <<bookVars, feeVars>>
FeesSpec == Init /\ FeesInit /\ [][FeesNext]_feesVars

-----------------------------------------------------------------------------
Feeless(t) == \A c \in charged : ~(c.tran = t /\ Took(c.serial))
Blind(t)   == \E d \in 1..LastDay, way \in {"cash", "zz"} : Leg(way, d, t.ref) \in blind
NotInCNY(t) == \E d \in 1..LastDay, way \in {"cash", "zz"} : Leg(way, d, t.ref) \in Foreign

(* Up to LASTFEEDATE no archived transaction is left without its fee: for  *)
(* every one that costs something feelist says "taken", and the core       *)
(* system has taken it, however many batches and single requests ran,      *)
(* failed and died -- except for dates passed by force, or over a SELECT   *)
(* whose failure went unnoticed, and for transactions in a foreign         *)
(* currency, which a batch passes as if their fees had been taken, because *)
(* a booking that is not made returns 0.  (A fee the journal has without a *)
(* readable answer, or that shares its refid with another transaction, is  *)
(* only said to be taken.)                                                 *)
FeesComplete ==
    \A t \in Trans \ Free : t.day <= lastFee /\ t.day \notin skipped =>
        \/ NotInCNY(t)
        \/ /\ "taken" \in feelist[t]
           /\ Feeless(t) => Blind(t) \/ \E u \in Trans \ {t} : u.ref = t.ref
=============================================================================
