---------------------------- MODULE MCBackOffice ----------------------------
(* The parts of the back office for TLC, in one run: Init chooses one,     *)
(* and the others stand still.  Receipts and Fees share the engine; every  *)
(* part is served by the same processes, which are interchangeable.        *)
EXTENDS Receipts, Fees, Clearing, Agreements, Params, Operators, Settlement, TLC

VARIABLE part

MCSt(d) == <<"st", 0, d>>
MCRt(d) == <<"rt", 0, d>>
MCRoundOf(d) == 1
MCDateOf(r)  == (r + 1) \div 2
MCNumber(r)  == 2 - (r % 2)
MCLeg(way, d, r) == <<way, d, r>>
MCTrans == {[day |-> 1, ref |-> r] : r \in {"a", "b", "c"}}
MCFree  == {[day |-> 1, ref |-> "b"]}
MCForeign == {<<way, d, "c">> : way \in {"zz", "cash"}, d \in 1..LastDay}
MCKeys  == {<<k, 0, d>> : k \in {"st", "rt"}, d \in Debits}
           \cup {<<way, d, r>> : way \in {"zz", "cash"}, d \in 1..LastDay, r \in {"a", "b", "c"}}
MCTables == <<"organinfo", "noteinfo">>

\* Two rounds, two currencies, both directions.
MCRound == [t \in {"a", "b", "c"} |-> IF t = "c" THEN 2 ELSE 1]
MCKind  == [t \in {"a", "b", "c"} |-> IF t = "b" THEN "in" ELSE "out"]
MCCur   == [t \in {"a", "b", "c"} |-> IF t = "b" THEN 2 ELSE 1]

Symmetric == Permutations(Procs)

BackInit == /\ part \in {"receipts", "fees", "clearing", "agreements", "status",
                         "race", "tables", "operators", "settlement", "settlers"}
            /\ Init /\ ReceiptsInit /\ FeesInit /\ ClearingInit /\ AgreementsInit
            /\ ParamsInit /\ OperatorsInit /\ SettlementInit
            /\ part = "settlers" => trn["c"] = "absent" /\ "c" \notin listed
            /\ part \notin {"settlement", "settlers"} =>
                  listed = {} /\ \A t \in Txns : trn[t] = "absent"

Still(v) == UNCHANGED <<part, v>>

BackNext ==
    \/ part = "receipts" /\ ReceiptsNext
       /\ Still(<<feeVars, clearVars, agreeVars, paramVars, operVars, settleVars>>)
    \/ part = "fees" /\ FeesNext
       /\ Still(<<recVars, clearVars, agreeVars, paramVars, operVars, settleVars>>)
    \/ part = "clearing" /\ ClearingNext
       /\ Still(<<bookVars, recVars, feeVars, agreeVars, paramVars, operVars, settleVars>>)
    \/ part = "agreements" /\ AgreementsNext
       /\ Still(<<bookVars, recVars, feeVars, clearVars, paramVars, operVars, settleVars>>)
    \/ part \in {"status", "race"} /\ SyncNext
       /\ Still(<<bookVars, recVars, feeVars, clearVars, agreeVars, operVars, settleVars>>)
    \/ part = "tables" /\ DownloadNext
       /\ Still(<<bookVars, recVars, feeVars, clearVars, agreeVars, operVars, settleVars>>)
    \/ part = "operators" /\ OperatorsNext
       /\ Still(<<bookVars, recVars, feeVars, clearVars, agreeVars, paramVars, settleVars>>)
    \/ part \in {"settlement", "settlers"} /\ SettlementNext
       /\ Still(<<bookVars, recVars, feeVars, clearVars, agreeVars, paramVars, operVars>>)

backVars == <<part, bookVars, recVars, feeVars, clearVars, agreeVars, paramVars, operVars,
              settleVars>>
BackSpec == BackInit /\ [][BackNext]_backVars

(* Bounds beside the constants: the free transaction and the one in a      *)
(* foreign currency are charged in a batch only, as its first and its last *)
(* row, and nothing begins once the latter is recorded; a forced batch, a  *)
(* fee in cash or in a foreign currency is alone at its time; bankclear    *)
(* gets two rows of a type that has a sum; two handlers of the status at   *)
(* once ("race") see one move of the center; two settlers at once work at  *)
(* one round, one after the other at two.                                  *)
BoundedStep ==
    /\ \A p \in Procs : \A t \in task'[p].row :
          /\ t.ref # "a" => task'[p].batch
          /\ t.ref = "a" => MCFree \cap task'[p].rows = {}
          /\ t.ref = "c" => task'[p].rows = {}
    /\ (\E p \in Procs : \/ task'[p].way = "cash" \/ task'[p].force
                         \/ \E t \in task'[p].row : t.ref = "c") =>
          \A p, q \in Procs : fstage'[p] # "idle" /\ fstage'[q] # "idle" => p = q
    /\ \A t \in Trans : t.ref = "c" /\ feelist[t] # {} =>
          \A p \in Procs : fstage[p] = "idle" => fstage'[p] = "idle"
    /\ \A t \in Types : Cardinality({r \in bankclear' : r.type = t}) <= (IF t \in Nothing THEN 1 ELSE 2)
    /\ part = "race" => status \in {Start, status'}
    /\ part = "status" => \A p, q \in Handlers : hand'[p] # Nobody /\ hand'[q] # Nobody => p = q
    /\ part = "settlers" => msgRound' <= 1
    /\ part = "settlement" =>
          \A p, q \in Settlers : run'[p].pc # "idle" /\ run'[q].pc # "idle" => p = q

(* What a process remembers of a call that is over and the teller's serial   *)
(* are read by no action here.                                              *)
BackView ==
    <<part, recVars, feeVars, clearVars, agreeVars, paramVars, operVars, settleVars,
      acct, calls, answers, serial, pc, reopened, blind,
      [p \in Procs |-> IF pc[p] = "idle" /\ rstage[p] # "receiving" THEN 0 ELSE job[p]],
      [p \in Procs |-> IF rstage[p] = "idle" /\ fstage[p] = "idle" THEN "none" ELSE ret[p]]>>
=============================================================================
