------------------------------- MODULE Returns -------------------------------
(***************************************************************************)
(* The return of an inbound ticket: an outbound transaction of TrnCode 7,  *)
(* which PF10_108 hands to TP_Process.  Two legs are booked before the     *)
(* center is asked (8247 or 8955, then 8956); when the second fails the    *)
(* first is reversed, and when the center does not settle the return both  *)
(* are, the second first.  When it does, the original ticket is flagged as *)
(* returned (trnjour.tpflag).                                              *)
(*                                                                         *)
(* The request passes through the same stages as any outbound transaction: *)
(* the actions of OutTran, with TP_Process in place of PF10_108's own      *)
(* BeforeTransOut and AfterTransOut.                                       *)
(***************************************************************************)
EXTENDS OutTran

VARIABLES flagged,   \* tpflag of the original ticket
          leg        \* where each process is in TP_Process

retVars == <<outVars, flagged, leg>>

(* Accounting books neither leg of a transaction in a foreign currency, and *)
(* no outbound leg of a return has the trncode ACCOUNT_OUTCREDIT: both are  *)
(* booked or none.                                                          *)
ASSUME ReturnsAssumption == Main \in Foreign <=> Side \in Foreign

TPA == Main   \* ACCOUNT_OUTCREDIT_TPA or ACCOUNT_OUTDEBIT_TPA
TPB == Side   \* ACCOUNT_OUTCREDIT_TPB or ACCOUNT_OUTDEBIT_TPB

Legs == {"none", "first", "second", "undo", "cancelSecond", "cancelFirst"}

ReturnInit == OutInit /\ flagged = FALSE /\ leg = [p \in Procs |-> "none"]

(* The stages of OutTran that do not enter TP_Process, or leave it alone. *)
Skeleton ==
    /\ UNCHANGED flagged
    /\ \/ /\ Engine \/ CenterDecide \/ PF_0009 \/ OPT_ADM_DELTRAN
          /\ UNCHANGED leg
       \/ \E p \in Procs :
             /\ \/ Submit(p) \/ TransferToPH(p) \/ CenterAnswer(p) \/ OPAfterCommToPH(p)
                \/ Reply(p) \/ OP_DoFinish(p)
                \/ PF_0066Ask(p) \/ PF_0066Update(p) \/ ManualReversed(p)
                \/ \E k \in {TPA, TPB} : ManualReverse(p, k)
             /\ UNCHANGED leg
       \/ \E p \in Procs : Die(p) /\ leg' = [leg EXCEPT ![p] = "none"]

At(p, l) == stage[p] = "booking" /\ leg[p] = l /\ Returned(p)
Keep(p)  == UNCHANGED <<kind, row, center, tc, doubts, byHand>>
Enter(p, l) == /\ To(p, "booking") /\ leg' = [leg EXCEPT ![p] = l]
               /\ UNCHANGED code
Leave(p, c) == /\ Exit(p, c) /\ leg' = [leg EXCEPT ![p] = "none"]
               /\ UNCHANGED bookVars
ToCenter(p) == /\ To(p, "pack") /\ leg' = [leg EXCEPT ![p] = "none"]
               /\ UNCHANGED <<code, bookVars>>

(* AddDigest may fail; then TP_Process before the center: the first leg.   *)
(* (ACCOUNT_GET_DATE may fail too, which nobody looks at.)                 *)
FirstLeg(p) ==
    /\ stage[p] = "before"
    /\ Keep(p) /\ UNCHANGED flagged
    /\ \/ Leave(p, "CHECK")
       \/ AccountingStart(p, TPA) /\ Enter(p, "first")

\* Mutant: the second leg is booked whatever became of the first.
SecondLegAny(p) ==
    /\ At(p, "first")
    /\ Keep(p) /\ UNCHANGED flagged
    /\ AccountingStart(p, TPB) /\ Enter(p, "second")

(* Only E_APP_ACCOUNTSUCC leads on to the second leg; 0, of a return that  *)
(* is not booked, goes to the center; anything else ends the request.      *)
SecondLeg(p) ==
    /\ At(p, "first")
    /\ Keep(p) /\ UNCHANGED flagged
    /\ \/ ret[p] = "SUCC" /\ AccountingStart(p, TPB) /\ Enter(p, "second")
       \/ ret[p] = "OK" /\ ToCenter(p)
       \/ ret[p] \notin {"SUCC", "OK"} /\ Leave(p, ret[p])

\* Mutant: the first leg is left as it is when the second fails.
SecondBookedKeep(p) ==
    /\ At(p, "second")
    /\ Keep(p) /\ UNCHANGED flagged
    /\ IF ret[p] = "SUCC" THEN ToCenter(p) ELSE Leave(p, "ANDCZ")

SecondBooked(p) ==
    /\ At(p, "second")
    /\ Keep(p) /\ UNCHANGED flagged
    /\ \/ ret[p] = "SUCC" /\ ToCenter(p)
       \/ ret[p] # "SUCC" /\ AccountCancelStart(p, TPA, 2) /\ Enter(p, "undo")

CancelCode(p) == IF ret[p] = "OK" THEN "ANDCZ" ELSE "NOCZ"

FirstUndone(p) ==
    /\ At(p, "undo")
    /\ Keep(p) /\ UNCHANGED flagged
    /\ Leave(p, CancelCode(p))

(* After the center: opTCRetcode 0 flags the original and books nothing;   *)
(* any other, a lost or unclear answer included, reverses the second leg.  *)
AfterCenter(p) ==
    /\ stage[p] = "after"
    /\ Keep(p)
    /\ \/ /\ tc[p] = "ok"
          /\ \/ flagged' = TRUE /\ Leave(p, "OK")
             \/ UNCHANGED flagged /\ \E c \in {"OK", "DB"} : Leave(p, c)
       \/ /\ tc[p] # "ok"
          /\ AccountCancelStart(p, TPB, 3) /\ Enter(p, "cancelSecond")
          /\ UNCHANGED flagged

\* Mutant: the legs are reversed in the order they were booked in.
CancelFirstAny(p) ==
    /\ At(p, "cancelSecond")
    /\ Keep(p) /\ UNCHANGED flagged
    /\ AccountCancelStart(p, TPA, 3) /\ Enter(p, "cancelFirst")

(* The first leg is reversed only when the second was. *)
CancelFirst(p) ==
    /\ At(p, "cancelSecond")
    /\ Keep(p) /\ UNCHANGED flagged
    /\ \/ ret[p] = "OK" /\ AccountCancelStart(p, TPA, 3) /\ Enter(p, "cancelFirst")
       \/ ret[p] # "OK" /\ Leave(p, "NOCZ")

FirstCancelled(p) ==
    /\ At(p, "cancelFirst")
    /\ Keep(p) /\ UNCHANGED flagged
    /\ Leave(p, CancelCode(p))

TP_Process(p) == \/ FirstLeg(p) \/ SecondLeg(p) \/ SecondBooked(p) \/ FirstUndone(p)
                 \/ AfterCenter(p) \/ CancelFirst(p) \/ FirstCancelled(p)

ReturnNext == Skeleton \/ \E p \in Procs : TP_Process(p)

ReturnSpec == ReturnInit /\ [][ReturnNext]_retVars

-----------------------------------------------------------------------------
(* What the core system did of leg k is what the journal says it did. *)
Known(k) == Trusted(k) /\ acct[k].res # "unknown"

(* The first leg of a return is reversed last: once the platform has asked *)
(* for that, the second leg does not stand in the core system -- unless    *)
(* the journal has it in doubt, which is where a lost answer leaves it.    *)
FirstUndoneLast ==
    (\E c \in calls : c.op = "reverse" /\ c.key = TPA) /\ TPA \notin byHand
        => (Known(TPB) => ~Stands(TPB))

(* The answer tells what stands: "booked and reversed" that no leg does    *)
(* whose outcome the journal knows, success that both do.                  *)
ReturnAnswer ==
    \A p \in Procs : stage[p] = "reply" =>
        /\ code[p] = "ANDCZ" => \A k \in {TPA, TPB} : Known(k) => ~Stands(k)
        /\ code[p] = "OK" => \A k \in {TPA, TPB} : Trusted(k) => Stands(k)

(* The original ticket is flagged as returned only if the center settled   *)
(* the return and both legs stand in the core system: neither a lost       *)
(* answer nor a failure between the legs flags it.                         *)
FlaggedWasReturned ==
    flagged => center = "settled" /\ \A k \in {TPA, TPB} : Trusted(k) => Stands(k)
=============================================================================
