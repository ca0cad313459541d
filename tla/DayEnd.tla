-------------------------------- MODULE DayEnd --------------------------------
(***************************************************************************)
(* The end of a work day (region/sz/process.c, SettleSvr.c): the center    *)
(* changes the clearing date (1602) and the work day (1603) and announces  *)
(* that a round can be reconciled (1604); PF_1605 reconciles the journal   *)
(* with the center's list, on the announcement or by hand; PF_9999, which  *)
(* a timer starts, moves reconciled days from trnjour to htrnjour.         *)
(* Meanwhile requests write the journal.  Every SQL statement commits by   *)
(* itself, may fail, and a process may die between two of them.            *)
(*                                                                         *)
(* The center is external: its dates, its announcements, what it lists.    *)
(***************************************************************************)
EXTENDS Naturals, FiniteSets

CONSTANTS Txns,      \* transactions, rows of trnjour and htrnjour
          DayOf,     \* work date of each
          RoundOf,   \* work round of each
          LastDay,   \* bound on the work dates
          LastRound, \* rounds of a day
          Procs,     \* processes that reconcile
          MaxExtra   \* bound on failures, repeated announcements and
                     \* reconciliations asked for by hand

ASSUME DayEndAssumption ==
    /\ IsFiniteSet(Txns)
    /\ LastDay \in Nat \ {0} /\ LastRound \in Nat \ {0} /\ MaxExtra \in Nat
    /\ DayOf \in [Txns -> 1..LastDay]
    /\ RoundOf \in [Txns -> 1..LastRound]

VARIABLES center,   \* the center: work date, clearing date, last round announced
          listed,   \* the transactions the center settled
          para,     \* table syspara: the dates
          trn, htrn,\* clearstate of the rows of trnjour and htrnjour
          req,      \* what the request of each transaction has done
          switch,   \* the notification being handled and where it is
          arch,     \* the archiving process: point, first and last date, work date
          rec,      \* each reconciling process: point, date, round, round
                    \* announced when it started, rows to do
          touched,  \* history: rows written since a process counted them
          late,     \* history: rows inserted after their date was copied
          slipped,  \* history: dates deleted though ARCHIVEDATE was not set
          extra,    \* failures, repetitions and requests by hand so far
          done      \* history: rounds whose reconciliation came to its end

vars == <<center, listed, para, trn, htrn, req, switch, arch, rec,
          touched, late, slipped, extra, done>>

Dates  == 0..LastDay
Rounds == 0..LastRound
\* clearstate, unknown and settled being both "open".
States == {"open", "failed", "checked"}

(* Two SETTL.._DATEROUND values, compared as strings. *)
UpTo(a, b) == a[1] < b[1] \/ (a[1] = b[1] /\ a[2] <= b[2])
NextRound(a) == IF a[2] < LastRound THEN <<a[1], a[2] + 1>> ELSE <<a[1] + 1, 1>>

(* The rows of date d and round r; of every round when r is 0. *)
Of(d, r) == {t \in Txns : DayOf[t] = d /\ r \in {0, RoundOf[t]}}
Rows(table) == {t \in Txns : table[t] # "absent"}
Between(first, last) == {t \in Txns : DayOf[t] \in first..last}

Set(T, s) == trn' = [t \in Txns |-> IF t \in T THEN s ELSE trn[t]]

Quiet == [notice |-> "none", pc |-> "idle"]
Idle == [pc |-> "idle", first |-> 0, last |-> 0, wd |-> 0]
Free == [pc |-> "idle", d |-> 0, r |-> 0, mr |-> 0, todo |-> {}]

(* The day is over and what came before is archived; the next has begun.   *)
Init == /\ center = [work |-> 1, clear |-> 1, told |-> <<1, 0>>]
        /\ listed \in SUBSET Txns
        /\ para = [work |-> 1, clear |-> 1, preclear |-> 0, archived |-> 0,
                   msg |-> <<1, 0>>, settled |-> <<1, 0>>]
        /\ trn = [t \in Txns |-> "absent"] /\ htrn = [t \in Txns |-> "absent"]
        /\ req = [t \in Txns |-> "none"]
        /\ switch = Quiet
        /\ arch = Idle
        /\ rec = [p \in Procs |-> Free]
        /\ touched = [p \in Procs |-> {}]
        /\ late = {} /\ slipped = {} /\ extra = 0 /\ done = {}

(* The statements of PF_9999 after the copy. *)
AfterCopy == {"msg", "settled", "date", "purge"}
Copied(t) == \/ DayOf[t] <= para.archived
             \/ arch.pc \in AfterCopy /\ DayOf[t] \in arch.first..arch.last

More == extra < MaxExtra /\ extra' = extra + 1

(* Rows T of trnjour are written; the counts made by others are out of date. *)
Counting == {"count", "mark"}
Touch(T) == touched' = [p \in Procs |-> IF rec[p].pc \in Counting
                                        THEN touched[p] \cup T ELSE {}]
-----------------------------------------------------------------------------
(* Requests.  OPInitOPTran takes the work date, then inserts the row.       *)
Begin(t) == /\ req[t] = "none"
            /\ para.work = DayOf[t] /\ ~UpTo(<<DayOf[t], RoundOf[t]>>, center.told)
            /\ req' = [req EXCEPT ![t] = "begun"]
            /\ UNCHANGED <<center, listed, para, trn, htrn, switch, arch, rec,
                           touched, late, slipped, extra, done>>

Insert(t) ==
    /\ req[t] = "begun" /\ trn[t] = "absent"
    /\ Set({t}, "open")
    /\ req' = [req EXCEPT ![t] = "in"]
    /\ late' = late \cup (IF Copied(t) THEN {t} ELSE {})
    /\ Touch({t})
    /\ UNCHANGED <<center, listed, para, htrn, switch, arch, rec, slipped, extra, done>>

(* OP_DoFinish, PF_0009 and PF_0066 write what they know of a transaction, *)
(* whatever its row has become meanwhile.                                  *)
Rewrite(t) ==
    /\ trn[t] # "absent"
    /\ \E s \in {"open", "failed"} : Set({t}, s)
    /\ Touch({t})
    /\ UNCHANGED <<center, listed, para, htrn, req, switch, arch, rec, late, slipped, extra, done>>
-----------------------------------------------------------------------------
(* The center moves to a new work day, or to a new clearing date within    *)
(* the day, and notifies the platform.                                     *)
switchVars == <<listed, trn, htrn, req, arch, rec, touched, late, slipped, done>>

CenterMoves ==
    /\ switch = Quiet /\ center.work < LastDay
    /\ \/ /\ center' = [center EXCEPT !.work = @ + 1,
                                      !.clear = IF @ = center.work THEN @ + 1 ELSE @]
          /\ switch' = [notice |-> "1603", pc |-> "work"]
       \/ /\ center.clear = center.work
          /\ center' = [center EXCEPT !.clear = @ + 1]
          /\ switch' = [notice |-> "1602", pc |-> "preclear"]
    /\ UNCHANGED <<para, extra, switchVars>>

(* PF_1603: the work date, the previous clearing date, the clearing date. *)
UpdWorkdate == /\ switch.pc = "work"
               /\ para' = [para EXCEPT !.work = center.work]
               /\ switch' = [switch EXCEPT !.pc = "preclear"]
               /\ UNCHANGED <<center, extra, switchVars>>

(* PF_1602 has no work date to set and does not look at this update. *)
UpdPreCleardate ==
    /\ switch.pc = "preclear"
    /\ \/ /\ para' = [para EXCEPT !.preclear = IF para.clear # center.clear THEN para.clear ELSE @]
          /\ UNCHANGED extra
       \/ switch.notice = "1602" /\ More /\ UNCHANGED para
    /\ switch' = [switch EXCEPT !.pc = "clear"]
    /\ UNCHANGED <<center, switchVars>>

UpdCleardate == /\ switch.pc = "clear"
                /\ para' = [para EXCEPT !.clear = center.clear]
                /\ switch' = Quiet
                /\ UNCHANGED <<center, extra, switchVars>>

(* What failed is sent again.  A 1602 whose round was noted before the     *)
(* failure then does nothing.                                              *)
SwitchFails ==
    /\ switch # Quiet /\ More
    /\ \/ switch.notice = "1603" /\ switch' = [switch EXCEPT !.pc = "work"]
       \/ switch.notice = "1602" /\ switch' = Quiet
    /\ UNCHANGED <<center, para, switchVars>>
-----------------------------------------------------------------------------
(* Reconciliation. *)

recVars == <<center, listed, htrn, req, switch, arch, slipped>>

At(p, point) == rec[p].pc = point
Goto(p, point) == rec' = [rec EXCEPT ![p].pc = point]
Leave(p) == /\ rec' = [rec EXCEPT ![p] = Free]
            /\ touched' = [touched EXCEPT ![p] = {}]

(* PF_1604: the announcement, of the next round or of the last one again,  *)
(* is noted, and PF_1605 called for that round.                            *)
PF_1604(p) ==
    /\ At(p, "idle")
    /\ \E a \in {center.told, NextRound(center.told)} :
          /\ a[1] <= center.work /\ a[2] # 0
          /\ IF a = center.told THEN More ELSE UNCHANGED extra
          /\ center' = [center EXCEPT !.told = a]
          /\ para' = [para EXCEPT !.msg = a]
          /\ rec' = [rec EXCEPT ![p] = [Free EXCEPT !.pc = "start", !.d = a[1], !.r = a[2]]]
    /\ UNCHANGED <<listed, trn, htrn, req, switch, arch, touched, late, slipped, done>>

(* PF_1605 for that round, or when somebody asks for a round, or for every *)
(* round, of a date: neither settled already nor still to be announced.    *)
PF_1605(p, d, r) ==
    /\ \/ At(p, "start") /\ rec[p].d = d /\ rec[p].r = r /\ UNCHANGED extra
       \/ At(p, "idle") /\ More
    /\ IF <<d, r>> # para.settled /\ UpTo(<<d, r>>, para.msg)
       THEN /\ rec' = [rec EXCEPT ![p] = [Free EXCEPT !.pc = "fetch", !.d = d, !.r = r,
                                                      !.mr = para.msg[2]]]
            /\ UNCHANGED touched
       ELSE Leave(p)
    /\ UNCHANGED <<recVars, para, trn, late, done>>

(* The center answers that it has nothing (3902), or with its list.  Of an *)
(* empty list ProcSettle makes nothing.                                    *)
Fetched(p) ==
    /\ At(p, "fetch")
    /\ LET list == Of(rec[p].d, rec[p].r) \cap listed IN
       \/ list = {} /\ Goto(p, "mark")
       \/ list = {} /\ Goto(p, "count")
       \/ list # {} /\ rec' = [rec EXCEPT ![p].pc = "rows", ![p].todo = list]
    /\ UNCHANGED <<recVars, extra, para, trn, touched, late, done>>

(* ProcSettle, one row of the list: it is checked, or inserted with the    *)
(* center's state.                                                         *)
SettleRow(p, t) ==
    /\ At(p, "rows") /\ t \in rec[p].todo
    /\ \/ trn[t] # "absent" /\ Set({t}, "checked") /\ UNCHANGED late
       \/ /\ trn[t] = "absent"
          /\ \E s \in {"open", "checked"} : Set({t}, s)
          /\ late' = late \cup (IF Copied(t) THEN {t} ELSE {})
    /\ rec' = [rec EXCEPT ![p].todo = @ \ {t}]
    /\ Touch({t})
    /\ UNCHANGED <<recVars, extra, para, done>>

\* Mutant: the rows the center does not list are left alone.
FailExcessNot(p) ==
    /\ At(p, "rows") /\ rec[p].todo = {}
    /\ Goto(p, "count")
    /\ UNCHANGED <<recVars, extra, para, trn, touched, late, done>>

(* ... then the other rows of the round fail; no row has round 0. *)
FailExcess(p) ==
    /\ At(p, "rows") /\ rec[p].todo = {}
    /\ LET excess == {t \in Of(rec[p].d, rec[p].r) \cap Rows(trn) :
                         rec[p].r # 0 /\ trn[t] # "checked"}
       IN  Set(excess, "failed") /\ Touch(excess)
    /\ Goto(p, "count")
    /\ UNCHANGED <<recVars, extra, para, late, done>>

(* CheckDiffAndList: as many rows are checked as the center has. *)
CheckDiffAndList(p) ==
    /\ At(p, "count")
    /\ LET rows == Of(rec[p].d, rec[p].r) IN
       IF Cardinality({t \in rows : trn[t] = "checked"}) = Cardinality(rows \cap listed)
       THEN Goto(p, "mark") /\ touched' = [touched EXCEPT ![p] = @ \ listed]
       ELSE Leave(p)
    /\ UNCHANGED <<recVars, extra, para, trn, late, done>>

(* SETTLED_DATEROUND becomes the date asked for with the round of the      *)
(* announcement PF_1605 read when it started; the update is not checked.   *)
UpdSettledDateround(p) ==
    /\ At(p, "mark")
    /\ \/ para' = [para EXCEPT !.settled = <<rec[p].d, rec[p].mr>>] /\ UNCHANGED extra
       \/ More /\ UNCHANGED para
    /\ done' = done \cup {<<rec[p].d, r>> : r \in IF rec[p].r = 0 THEN 1..LastRound
                                                  ELSE {rec[p].r}}
    /\ Leave(p)
    /\ UNCHANGED <<recVars, trn, late>>

(* It fails or dies; what it has written stays. *)
SettleFails(p) == /\ rec[p].pc # "idle" /\ More
                  /\ Leave(p)
                  /\ UNCHANGED <<recVars, para, trn, late, done>>
-----------------------------------------------------------------------------
(* PF_9999.  The timer starts it when the day is over: the center has      *)
(* announced every round of the dates that would be archived.              *)
archVars == <<center, listed, req, switch, rec, late, done>>

DayIsOver == UpTo(<<para.preclear, LastRound>>, center.told)

\* Mutant: the last archived date is archived again.
FirstDateAgain == para.archived

FirstDate == para.archived + 1

PF_9999 ==
    /\ arch.pc = "idle" /\ DayIsOver
    /\ para.archived # para.settled[1]
    /\ para.settled = para.msg
    /\ FirstDate <= para.preclear
    /\ arch' = [pc |-> "clean", first |-> FirstDate, last |-> para.preclear, wd |-> 0]
    /\ UNCHANGED <<archVars, extra, para, trn, htrn, touched, slipped>>

ToArchive == Between(arch.first, arch.last)
Then(point) == arch' = [arch EXCEPT !.pc = point]

CleanHistory ==
    /\ arch.pc = "clean"
    /\ htrn' = [t \in Txns |-> IF t \in ToArchive THEN "absent" ELSE htrn[t]]
    /\ Then("copy")
    /\ UNCHANGED <<archVars, extra, para, trn, touched, slipped>>

CopyToHistory ==
    /\ arch.pc = "copy"
    /\ htrn' = [t \in Txns |-> IF t \in ToArchive /\ trn[t] # "absent" THEN trn[t] ELSE htrn[t]]
    /\ Then("msg")
    /\ UNCHANGED <<archVars, extra, para, trn, touched, slipped>>

UpdSettlmsg ==
    /\ arch.pc = "msg"
    /\ para' = [para EXCEPT !.msg = <<para.work, 0>>]
    /\ arch' = [arch EXCEPT !.pc = "settled", !.wd = para.work]
    /\ UNCHANGED <<archVars, extra, trn, htrn, touched, slipped>>

UpdSettled ==
    /\ arch.pc = "settled"
    /\ para' = [para EXCEPT !.settled = <<arch.wd, 0>>]
    /\ arch' = [arch EXCEPT !.pc = "date", !.wd = 0]
    /\ UNCHANGED <<archVars, extra, trn, htrn, touched, slipped>>

\* Mutant: the date is set after the rows are deleted, with the process dying between.
UpdArchivedateLater ==
    /\ arch.pc = "date"
    /\ Then("purge")
    /\ UNCHANGED <<archVars, extra, para, trn, htrn, touched, slipped>>

(* The result of this update is not looked at. *)
UpdArchivedate ==
    /\ arch.pc = "date"
    /\ \/ para' = [para EXCEPT !.archived = arch.last] /\ UNCHANGED <<slipped, extra>>
       \/ More /\ slipped' = slipped \cup (arch.first..arch.last) /\ UNCHANGED para
    /\ Then("purge")
    /\ UNCHANGED <<archVars, trn, htrn, touched>>

PurgeJournal ==
    /\ arch.pc = "purge"
    /\ Set(ToArchive, "absent")
    /\ Touch(ToArchive \cap Rows(trn))
    /\ arch' = Idle
    /\ UNCHANGED <<archVars, extra, para, htrn, slipped>>

(* A statement fails, or the process dies. *)
ArchiveFails == /\ arch.pc # "idle" /\ More
                /\ arch' = Idle
                /\ UNCHANGED <<archVars, para, trn, htrn, touched, slipped>>

Archive == \/ PF_9999 \/ CleanHistory \/ CopyToHistory \/ UpdSettlmsg \/ UpdSettled
           \/ UpdArchivedate \/ PurgeJournal \/ ArchiveFails

Switch == CenterMoves \/ UpdWorkdate \/ UpdPreCleardate \/ UpdCleardate \/ SwitchFails

Settle(p) == \/ PF_1604(p) \/ Fetched(p)
             \/ FailExcess(p) \/ CheckDiffAndList(p) \/ UpdSettledDateround(p)
             \/ SettleFails(p)

Next == \/ Switch \/ Archive
        \/ \E t \in Txns : Begin(t) \/ Insert(t) \/ Rewrite(t)
        \/ \E p \in Procs : Settle(p)
        \/ \E p \in Procs, d \in 1..LastDay, r \in Rounds : PF_1605(p, d, r)
        \/ \E p \in Procs, t \in Txns : SettleRow(p, t)

Spec == Init /\ [][Next]_vars
-----------------------------------------------------------------------------
Points == {"idle", "start", "fetch", "rows", "count", "mark"}
(* The variables have their types: dates and rounds stay in their ranges. *)
TypeOK ==
    /\ center \in [work : Dates, clear : Dates, told : Dates \X Rounds]
    /\ listed \subseteq Txns
    /\ para \in [work : Dates, clear : Dates, preclear : Dates, archived : Dates,
                 msg : Dates \X Rounds, settled : Dates \X Rounds]
    /\ trn \in [Txns -> States \cup {"absent"}]
    /\ htrn \in [Txns -> States \cup {"absent"}]
    /\ req \in [Txns -> {"none", "begun", "in"}]
    /\ switch \in [notice : {"none", "1602", "1603"},
                   pc : {"idle", "work", "preclear", "clear"}]
    /\ arch \in [pc : {"idle", "clean", "copy"} \cup AfterCopy,
                 first : Dates, last : Dates, wd : Dates]
    /\ rec \in [Procs -> [pc : Points, d : Dates, r : Rounds, mr : Rounds,
                          todo : SUBSET Txns]]
    /\ touched \in [Procs -> SUBSET Txns]
    /\ late \subseteq Txns
    /\ slipped \subseteq Dates
    /\ extra \in 0..MaxExtra
    /\ done \subseteq Dates \X Rounds

(* The journal is read from htrnjour up to ARCHIVEDATE and from trnjour    *)
(* after it (OPTranHandle).  Whatever statement the archive was stopped    *)
(* after, a row that was journalled in time is found there.                *)
Journalled == {t \in Txns : req[t] = "in" \/ trn[t] # "absent" \/ htrn[t] # "absent"}
FoundWhereLooked ==
    \A t \in Journalled \ late : DayOf[t] \notin slipped =>
        IF DayOf[t] <= para.archived THEN htrn[t] # "absent" ELSE trn[t] # "absent"

(* What is archived stays as it was archived. *)
HistoryStays ==
    [][\A t \in Txns : DayOf[t] <= para.archived /\ htrn[t] # "absent" =>
          htrn'[t] = htrn[t]]_vars

(* When a reconciliation comes to its end, trnjour says of its rows what   *)
(* the center said, except for rows written since they were counted: the   *)
(* listed ones are checked; the others of the round failed, unless the     *)
(* center had sent nothing.                                                *)
ReconciledAgrees ==
    \A p \in Procs : rec[p].pc = "mark" =>
        LET rows == Of(rec[p].d, rec[p].r) \ touched[p] IN
        /\ \A t \in rows \cap listed : trn[t] = "checked"
        /\ rec[p].r # 0 /\ Of(rec[p].d, rec[p].r) \cap listed # {} =>
              \A t \in rows \ listed : trn[t] \in {"absent", "failed"}

(* PF_9999 stops with "reconciliation has not ended yet" while a round is  *)
(* announced and not settled: a date that is archived has been reconciled. *)
ArchivedWasReconciled ==
    \A d \in 1..para.archived, r \in 1..LastRound : <<d, r>> \in done
=============================================================================
