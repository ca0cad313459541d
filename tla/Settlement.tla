------------------------------ MODULE Settlement ------------------------------
(***************************************************************************)
(* What a reconciliation writes beside trnjour, and the receipt the bank   *)
(* sends of it (region/sz/SettleSvr.c, CenterAndBankSettle.c, PF_1605 and  *)
(* PF_1606 of process.c), for the rounds of one date.  SettleSvr copies    *)
(* the bank's own view of the round to bankjour before ProcSettle replaces *)
(* it in trnjour by the center's; the receipt compares the numbers of that *)
(* snapshot with the center's and, when they differ, lists the rows only   *)
(* one side has.  Every statement commits by itself, two reconciliations   *)
(* or a receipt asked for by hand may run at once, and any may die.        *)
(*                                                                         *)
(* The center is external: its list, its sums, its announcements.          *)
(***************************************************************************)
EXTENDS Naturals, FiniteSets, FiniteSetsExt

CONSTANTS Txns,      \* transactions of the date
          TxnRound,   \* round of each
          KindOf,    \* presented or accepted, debit or credit
          CurOf,     \* currency of each
          Kinds, Curs, LastRound,
          Settlers,  \* processes that reconcile or send receipts
          MaxExtra   \* bound on failures, rewrites, requests by hand

ASSUME SettlementAssumption ==
    /\ LastRound \in Nat \ {0} /\ MaxExtra \in Nat
    /\ TxnRound \in [Txns -> 1..LastRound]
    /\ Curs \subseteq Nat
    /\ KindOf \in [Txns -> Kinds] /\ CurOf \in [Txns -> Curs]

VARIABLES msgRound, setRound, \* SETTLMSG_ and SETTLED_DATEROUND: the rounds
          listed,        \* the center's list, and from it its sums
          trn,           \* clearstate in trnjour
          bankjour,      \* flag of the copy of each row, or "absent"
          ebanksumm,     \* which sums of the center, by round and currency
          reconinfo,     \* the same, for the whole bank
          loaded,        \* copies of each round's rows in feesum and baginfo
          run,           \* each process: point, round, and what it holds
          own,           \* history: the bank's view when SettleSvr began
          wrote,         \* history: rows ProcSettle wrote
          touched,       \* history: rows written by others since it began
          over,          \* history: rounds that ProcSettle came to the end of
          overlap,       \* history: rounds two processes were busy with at once
          spent          \* failures, rewrites, requests by hand so far

journal == <<trn, wrote, touched, over>>
tables  == <<bankjour, ebanksumm, reconinfo, loaded>>
marks    == <<msgRound, setRound>>
settleVars == <<marks, listed, journal, tables, run, own, overlap, spent>>

\* Round 0 asks for every round.
InRound(r) == IF r = 0 THEN 1..LastRound ELSE {r}
RowsOf(r)  == {t \in Txns : TxnRound[t] \in InRound(r)}
SumsOf(r)  == InRound(r) \X Curs
Having(T, c, k) == {t \in T : CurOf[t] = c /\ KindOf[t] = k}

\* A file has sums for the rounds and currencies the center settled something in.
DiffFile(r) == {s \in SumsOf(r) : \E t \in listed : <<TxnRound[t], CurOf[t]>> = s}

Copies == 0..2
Resting == [pc |-> "idle", r |-> 0, mr |-> 0, todo |-> {}, sums |-> {}, curs |-> {},
            differs |-> FALSE, center |-> {}, bank |-> {}]

SettlementInit ==
    /\ msgRound = 0 /\ setRound = 0
    /\ listed \in SUBSET Txns
    /\ trn \in [Txns -> {"absent", "unknown", "settled", "failed"}]
    /\ bankjour = [t \in Txns |-> "absent"]
    /\ ebanksumm = {} /\ reconinfo = {}
    /\ loaded = [f \in {"feesum", "baginfo"} |-> [q \in 1..LastRound |-> 0]]
    /\ run = [p \in Settlers |-> Resting]
    /\ own = [t \in Txns |-> "never"]
    /\ wrote = {} /\ touched = {} /\ over = {} /\ overlap = {} /\ spent = 0

Spend == spent < MaxExtra /\ spent' = spent + 1

\* Mutant: the journal is copied after ProcSettle.
SettleSvrCopyLater ==
    <<"delSumm", "loadSumm", "delRecon", "insRecon", "rows", "delJour", "insJour",
      "count", "feesum", "loadFee", "baginfo", "loadBag", "mark">>

(* The points of SettleSvr in its order, and of the receipt. *)
SettleSvr == <<"delJour", "insJour", "delSumm", "loadSumm", "delRecon", "insRecon",
               "rows", "count", "feesum", "loadFee", "baginfo", "loadBag", "mark">>
PointAfter(point) ==
    LET i == CHOOSE n \in DOMAIN SettleSvr : SettleSvr[n] = point IN SettleSvr[i + 1]
Writing == {"receipt", "compare", "center", "bank", "written", "send"}

Busy(p, r) == run[p].pc # "idle" /\ InRound(run[p].r) \cap InRound(r) # {}
At(p, point) == run[p].pc = point
Continue(p) == run' = [run EXCEPT ![p].pc = PointAfter(@)]
Becomes(p, me) == run' = [run EXCEPT ![p] = me]
Stop(p) == Becomes(p, Resting)
Collide(p, r, busy) ==
    overlap' = overlap \cup (IF busy THEN InRound(r) ELSE {})
-----------------------------------------------------------------------------
(* PF_1605 for the round just announced (PF_1604), or asked for by hand:   *)
(* neither settled already nor still to be announced.                      *)
StartOn(p, r) ==
    /\ run' = [run EXCEPT ![p] = [Resting EXCEPT !.pc = "fetch", !.r = r, !.mr = msgRound']]
    /\ Collide(p, r, \E q \in Settlers \ {p} : Busy(q, r))

PF_1604(p) ==
    /\ At(p, "idle") /\ msgRound < LastRound
    /\ msgRound' = msgRound + 1
    /\ StartOn(p, msgRound')
    /\ UNCHANGED <<setRound, listed, journal, tables, own, spent>>

PF_1605(p, r) ==
    /\ At(p, "idle") /\ Spend
    /\ r # setRound /\ r <= msgRound /\ msgRound # 0
    /\ msgRound' = msgRound
    /\ StartOn(p, r)
    /\ UNCHANGED <<setRound, listed, journal, tables, own>>

(* The center has nothing to reconcile (3902), or sends its files.         *)
FilesFetched(p) ==
    /\ At(p, "fetch")
    /\ LET R == RowsOf(run[p].r) IN
       \/ /\ listed \cap R = {}
          /\ run' = [run EXCEPT ![p].pc = "mark"]
          /\ UNCHANGED <<own, journal>>
       \/ /\ run' = [run EXCEPT ![p].pc = SettleSvr[1]]
          /\ own' = [t \in Txns |-> IF t \notin R THEN own[t]
                                    ELSE IF t \in wrote THEN "lost"
                                    ELSE IF trn[t] \in {"settled", "checked"} THEN "in" ELSE "out"]
          /\ touched' = touched \ R /\ over' = over \ InRound(run[p].r)
          /\ UNCHANGED <<trn, wrote>>
    /\ UNCHANGED <<marks, listed, tables, overlap, spent>>

(* RecBankJour.  The result of the DELETE is overwritten; the INSERT fails *)
(* on the unique index when another process has inserted meanwhile.        *)
Kept == <<marks, listed, journal, own, overlap>>

DeleteBankJour(p) ==
    /\ At(p, "delJour")
    /\ bankjour' = [t \in Txns |-> IF t \in RowsOf(run[p].r) THEN "absent" ELSE bankjour[t]]
    /\ Continue(p)
    /\ UNCHANGED <<Kept, ebanksumm, reconinfo, loaded, spent>>

InsertBankJour(p) ==
    /\ At(p, "insJour")
    /\ LET S == {t \in RowsOf(run[p].r) : trn[t] \in {"settled", "checked"}} IN
       IF \E t \in S : bankjour[t] # "absent"
       THEN Stop(p) /\ UNCHANGED bankjour
       ELSE /\ bankjour' = [t \in Txns |-> IF t \in S THEN "0" ELSE bankjour[t]]
            /\ Continue(p)
    /\ UNCHANGED <<Kept, ebanksumm, reconinfo, loaded, spent>>

(* RecReconInfo: the sums of the center's file replace those of the round, *)
(* line by line, and from them those of the bank; both are unique.         *)
DeleteSums(p) ==
    /\ At(p, "delSumm")
    /\ ebanksumm' = ebanksumm \ SumsOf(run[p].r)
    /\ Becomes(p, [run[p] EXCEPT !.pc = PointAfter(@), !.sums = DiffFile(run[p].r)])
    /\ UNCHANGED <<Kept, bankjour, reconinfo, loaded, spent>>

LoadSum(p) ==
    /\ At(p, "loadSumm")
    /\ \/ run[p].sums = {} /\ Continue(p) /\ UNCHANGED ebanksumm
       \/ \E s \in run[p].sums :
             IF s \in ebanksumm
             THEN Stop(p) /\ UNCHANGED ebanksumm
             ELSE /\ ebanksumm' = ebanksumm \cup {s}
                  /\ run' = [run EXCEPT ![p].sums = @ \ {s}]
    /\ UNCHANGED <<Kept, bankjour, reconinfo, loaded, spent>>

DeleteReconInfo(p) ==
    /\ At(p, "delRecon")
    /\ reconinfo' = reconinfo \ SumsOf(run[p].r)
    /\ Continue(p)
    /\ UNCHANGED <<Kept, bankjour, ebanksumm, loaded, spent>>

InsertReconInfo(p) ==
    /\ At(p, "insRecon")
    /\ LET S == ebanksumm \cap SumsOf(run[p].r) IN
       IF S \cap reconinfo # {}
       THEN Stop(p) /\ UNCHANGED reconinfo
       ELSE /\ reconinfo' = reconinfo \cup S
            /\ Becomes(p, [run[p] EXCEPT !.pc = PointAfter(@),
                                         !.todo = listed \cap RowsOf(run[p].r)])
    /\ UNCHANGED <<Kept, bankjour, ebanksumm, loaded, spent>>
-----------------------------------------------------------------------------
(* ProcSettle: each row of the list is checked, or inserted with the       *)
(* center's state; then the other rows of the round fail, none of which    *)
(* has round 0.  A list without a row is left at that.                     *)
SettleRow(p, t) ==
    /\ At(p, "rows") /\ t \in run[p].todo
    /\ \/ trn[t] # "absent" /\ trn' = [trn EXCEPT ![t] = "checked"]
       \/ trn[t] = "absent" /\ \E s \in {"settled", "checked"} : trn' = [trn EXCEPT ![t] = s]
    /\ touched' = touched \cup {u \in {t} : trn'[u] # "checked"}
    /\ wrote' = wrote \cup {t}
    /\ run' = [run EXCEPT ![p].todo = @ \ {t}]
    /\ UNCHANGED <<marks, listed, tables, over, own, overlap, spent>>

FailExcess(p) ==
    /\ At(p, "rows") /\ run[p].todo = {}
    /\ LET R == RowsOf(run[p].r)
           excess == {t \in R : /\ run[p].r # 0 /\ listed \cap R # {}
                                /\ trn[t] \notin {"absent", "checked"}}
       IN  /\ trn' = [t \in Txns |-> IF t \in excess THEN "failed" ELSE trn[t]]
           /\ wrote' = wrote \cup excess
    /\ over' = over \cup InRound(run[p].r)
    /\ Continue(p)
    /\ UNCHANGED <<marks, listed, tables, touched, own, overlap, spent>>

(* CheckDiffAndList: as many rows are checked as the sums count. *)
CheckDiffAndList(p) ==
    /\ At(p, "count")
    /\ LET R == RowsOf(run[p].r)
           counted == {t \in listed \cap R : <<TxnRound[t], CurOf[t]>> \in ebanksumm}
       IN  IF Cardinality({t \in R : trn[t] = "checked"}) = Cardinality(counted)
           THEN Continue(p) ELSE Stop(p)
    /\ UNCHANGED <<Kept, tables, spent>>

(* RecFeeSum and RecExchgFile: a file the center sent replaces the rows of *)
(* the round.  The index of feesum is not unique, that of baginfo is.      *)
Replaced(f, r, n) ==
    [loaded EXCEPT ![f] = [q \in 1..LastRound |-> IF q \in InRound(r) THEN n ELSE @[q]]]

RecFeeSum(p) ==
    /\ \/ At(p, "feesum") /\ run' = [run EXCEPT ![p].pc = "baginfo"] /\ UNCHANGED loaded
       \/ At(p, "feesum") /\ loaded' = Replaced("feesum", run[p].r, 0) /\ Continue(p)
       \/ /\ At(p, "loadFee")
          /\ loaded' = [loaded EXCEPT !["feesum"] =
                [q \in 1..LastRound |-> IF q \in InRound(run[p].r) /\ @[q] + 1 \in Copies
                                        THEN @[q] + 1 ELSE @[q]]]
          /\ Continue(p)
    /\ UNCHANGED <<Kept, bankjour, ebanksumm, reconinfo, spent>>

RecExchgFile(p) ==
    /\ \/ At(p, "baginfo") /\ run' = [run EXCEPT ![p].pc = "mark"] /\ UNCHANGED loaded
       \/ At(p, "baginfo") /\ loaded' = Replaced("baginfo", run[p].r, 0) /\ Continue(p)
       \/ /\ At(p, "loadBag")
          /\ IF \E q \in InRound(run[p].r) : loaded["baginfo"][q] # 0
             THEN Stop(p) /\ UNCHANGED loaded
             ELSE Continue(p) /\ loaded' = Replaced("baginfo", run[p].r, 1)
    /\ UNCHANGED <<Kept, bankjour, ebanksumm, reconinfo, spent>>

(* SETTLED_DATEROUND becomes the round that had been announced when        *)
(* PF_1605 began, unless the update fails, which nobody looks at; then the *)
(* receipt is sent.                                                        *)
UpdSettledDateround(p) ==
    /\ At(p, "mark")
    /\ \/ setRound' = run[p].mr /\ UNCHANGED spent
       \/ Spend /\ UNCHANGED setRound
    /\ run' = [run EXCEPT ![p].pc = "receipt"]
    /\ UNCHANGED <<msgRound, listed, journal, tables, own, overlap>>
-----------------------------------------------------------------------------
(* PF_1606, of its own accord or asked for by hand: refused for a round    *)
(* not settled yet.  CenterAndBankSettle reads the center's sums; without  *)
(* any no receipt is sent.                                                 *)
Receiving(p, r) ==
    IF r > setRound
    THEN Stop(p)
    ELSE LET S == reconinfo \cap SumsOf(r) IN
         IF S = {} THEN Stop(p)
         ELSE run' = [run EXCEPT ![p] =
                 [Resting EXCEPT !.pc = "compare", !.r = r, !.sums = S, !.todo = Kinds,
                                 !.curs = {s[2] : s \in S}]]

PF_1606(p) ==
    /\ At(p, "receipt")
    /\ Receiving(p, run[p].r)
    /\ UNCHANGED <<Kept, tables, spent>>

PF_1606ByHand(p, r) ==
    /\ At(p, "idle") /\ Spend
    /\ r <= setRound /\ Receiving(p, r)
    /\ Collide(p, r, \E q \in Settlers \ {p} : Busy(q, r) /\ run[q].pc \notin Writing)
    /\ UNCHANGED <<marks, listed, journal, tables, own>>

(* One currency after the other; of each, one kind after the other is      *)
(* counted in bankjour and compared.  That one has differed is not         *)
(* forgotten at the next.                                                  *)
Cur(p) == Min(run[p].curs)
CenterCount(p, k) ==
    Cardinality({t \in Having(listed, Cur(p), k) : <<TxnRound[t], CurOf[t]>> \in run[p].sums})

Compare(p, k) ==
    /\ At(p, "compare") /\ k \in run[p].todo
    /\ LET n == Cardinality({t \in Having(RowsOf(run[p].r), Cur(p), k) :
                                bankjour[t] # "absent"})
       IN  Becomes(p, [run[p] EXCEPT !.todo = @ \ {k}, !.differs = @ \/ n # CenterCount(p, k)])
    /\ UNCHANGED <<Kept, tables, spent>>

Compared(p) ==
    /\ At(p, "compare") /\ run[p].todo = {}
    /\ Becomes(p, [run[p] EXCEPT
          !.pc = IF run[p].differs THEN "center" ELSE "written",
          !.todo = IF run[p].differs
                   THEN {t \in RowsOf(run[p].r) : trn[t] = "checked"} ELSE {},
          !.center = {}, !.bank = {}])
    /\ UNCHANGED <<Kept, tables, spent>>

\* Mutant: a row that is found in bankjour is not flagged.
ListCenterRowNoFlag(p, t) ==
    /\ At(p, "center") /\ t \in run[p].todo
    /\ Becomes(p, [run[p] EXCEPT !.todo = @ \ {t},
                                 !.center = @ \cup {u \in {t} : bankjour[u] = "absent"}])
    /\ UNCHANGED <<Kept, tables, spent>>

(* CenterAndBankDiffer: of the checked rows, those not in bankjour are     *)
(* listed and the others flagged there; then what has no flag is listed.   *)
ListCenterRow(p, t) ==
    /\ At(p, "center") /\ t \in run[p].todo
    /\ \/ /\ bankjour[t] = "absent"
          /\ Becomes(p, [run[p] EXCEPT !.todo = @ \ {t}, !.center = @ \cup {t}])
          /\ UNCHANGED bankjour
       \/ /\ bankjour[t] # "absent"
          /\ bankjour' = [bankjour EXCEPT ![t] = "1"]
          /\ run' = [run EXCEPT ![p].todo = @ \ {t}]
    /\ UNCHANGED <<Kept, ebanksumm, reconinfo, loaded, spent>>

ListBankRows(p) ==
    /\ At(p, "center") /\ run[p].todo = {}
    /\ Becomes(p, [run[p] EXCEPT !.pc = "written",
                                 !.bank = {t \in RowsOf(run[p].r) : bankjour[t] = "0"}])
    /\ UNCHANGED <<Kept, tables, spent>>

(* The section is on paper; the next, or the receipt goes to the center,   *)
(* whose answer changes nothing.                                           *)
NextCur(p) ==
    /\ At(p, "written")
    /\ IF run[p].curs = {Cur(p)}
       THEN Stop(p)
       ELSE Becomes(p, [run[p] EXCEPT !.pc = "compare", !.todo = Kinds,
                                      !.curs = @ \ {Cur(p)}])
    /\ UNCHANGED <<Kept, tables, spent>>
-----------------------------------------------------------------------------
(* A statement fails, or the process dies. *)
SettleDies(p) == /\ run[p].pc # "idle" /\ Spend
                 /\ Stop(p)
                 /\ UNCHANGED <<Kept, tables>>

(* A request writes what it knows of its row (OP_DoFinish, PF_0009, ...).  *)
Rewrite(t) ==
    /\ trn[t] # "absent" /\ Spend
    /\ \E s \in {"unknown", "settled", "failed"} \ {trn[t]} : trn' = [trn EXCEPT ![t] = s]
    /\ touched' = touched \cup {t}
    /\ UNCHANGED <<marks, listed, wrote, over, tables, run, own, overlap>>

SettleStep(p) ==
    \/ PF_1604(p) \/ FilesFetched(p)
    \/ DeleteBankJour(p) \/ InsertBankJour(p)
    \/ DeleteSums(p) \/ LoadSum(p) \/ DeleteReconInfo(p) \/ InsertReconInfo(p)
    \/ FailExcess(p) \/ CheckDiffAndList(p) \/ RecFeeSum(p) \/ RecExchgFile(p)
    \/ UpdSettledDateround(p)
    \/ PF_1606(p) \/ Compared(p) \/ ListBankRows(p) \/ NextCur(p) \/ SettleDies(p)

SettlementNext ==
    \/ \E p \in Settlers : SettleStep(p)
    \/ \E p \in Settlers, r \in 0..LastRound : PF_1605(p, r) \/ PF_1606ByHand(p, r)
    \/ \E p \in Settlers, t \in Txns : SettleRow(p, t) \/ ListCenterRow(p, t)
    \/ \E p \in Settlers, k \in Kinds : Compare(p, k)
    \/ \E t \in Txns : Rewrite(t)

SettlementSpec == SettlementInit /\ [][SettlementNext]_settleVars
-----------------------------------------------------------------------------
(* A receipt can be relied on when the last reconciliation that began found *)
(* the bank's own view, dealt with the whole list, and nobody was in the   *)
(* way: the others compare the center's view with itself, or half of it.   *)
Reliable(p) ==
    LET R == RowsOf(run[p].r) IN
    /\ overlap \cap InRound(run[p].r) = {}
    /\ \A t \in R : own[t] \in {"in", "out"}
    /\ InRound(run[p].r) \subseteq over /\ touched \cap R = {}
Own(p) == {t \in RowsOf(run[p].r) : own[t] = "in"}

(* A currency that the receipt calls in agreement was in agreement before  *)
(* the reconciliation corrected trnjour: for every kind the bank had as    *)
(* many transactions as the center.                                        *)
ReceiptIsTrue ==
    \A p \in Settlers : At(p, "written") /\ Reliable(p) /\ ~run[p].differs =>
        \A k \in Kinds : Cardinality(Having(Own(p), Cur(p), k))
                       = Cardinality(Having(listed \cap RowsOf(run[p].r), Cur(p), k))

(* The list of a receipt that says they differ names what only the center  *)
(* had, and what only the bank had, and nothing else.                      *)
DifferencesListed ==
    \A p \in Settlers : At(p, "written") /\ Reliable(p) /\ run[p].differs =>
        /\ run[p].center = (listed \cap RowsOf(run[p].r)) \ Own(p)
        /\ run[p].bank = Own(p) \ listed
=============================================================================
