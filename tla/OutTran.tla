------------------------------- MODULE OutTran -------------------------------
(***************************************************************************)
(* The life of one outbound transaction (OPTCODE 108 of bank 1015): it is  *)
(* journalled in trnjour, booked before or after the clearing center is    *)
(* asked, reversed when the center refuses, answered, and its journal row  *)
(* closed by OP_DoFinish.  Meanwhile the client may submit it again, an    *)
(* operator may query it (0066) or reverse it by hand (0113), the center   *)
(* may report its state (0009), and processes may die.                     *)
(*                                                                         *)
(* Bookings are made by the engine of module Booking, whose variables this *)
(* module shares: a process whose pc is not "idle" is inside Accounting or *)
(* AccountCancel, and its ret is what that call returned.  The center is   *)
(* external: it decides a transaction once, and may answer before it does. *)
(***************************************************************************)
EXTENDS Booking

CONSTANTS Main,   \* the leg of the note type's own trncode
          Side,   \* the second leg of a personal transaction
          Fee,    \* the leg of trncode ACCOUNT_CATCH_FEE
          Kinds   \* the kinds of transaction considered

(* No outbound leg has the trncode ACCOUNT_INCREDIT, and no leg of a debit  *)
(* has ACCOUNT_OUTCREDIT: its legs are of one currency, booked or not.     *)
ASSUME OutTranAssumption ==
    /\ {Main, Side, Fee} \subseteq Keys \ InCredit
    /\ Main # Side /\ Main # Fee /\ Side # Fee
    /\ Kinds \subseteq {"credit", "person", "old", "debit", "fee", "cash", "feecash"}
    /\ Kinds \cap {"cash", "feecash"} # {} /\ Side \in Foreign => Main \in Foreign

VARIABLES kind,    \* what the submitted request is
          row,     \* trnjour.clearstate of the transaction
          center,  \* what became of it at the center
          stage,   \* where each process is in appsMain and server.c
          tc,      \* the center's answer to each process (opTCRetcode)
          code,    \* the platform code each process ends with
          doubts,  \* history: answers that left the center's decision open
          byHand   \* history: legs an operator reversed (0113)

tranVars == <<kind, row, center, stage, tc, code, doubts, byHand>>
outVars  == <<bookVars, tranVars>>

ClearStates == {"absent", "unknown", "settled", "failed"}
Stages == {"idle", "before", "booking", "pack", "wait", "update", "after", "cancel",
           "side", "main", "reply", "finish", "query", "manual"}
Replies == {"none", "ok", "rejected", "unclear", "lost"}
(* Besides the codes of the engine: a check that failed, E_SYS_COMM,       *)
(* E_SYS_COMM_PH, E_APP_NONEEDACCOUNT, E_APP_ACCOUNTANDCZ, .._ACCOUNTNOCZ. *)
OutCodes == Codes \cup {"CHECK", "COMM", "COMMPH", "NONEED", "ANDCZ", "NOCZ"}

IsCredit == kind \in {"credit", "person", "old"}

\* Mutant: a debit is booked like a credit.
BeforeLegsDebit == IF kind \in {"fee", "feecash"} THEN {Fee}
                   ELSE IF kind = "old" THEN {} ELSE {Main}

(* Legs booked before the center is asked; they are what is reversed.      *)
(* An "old" transaction (opReserved = 1) is not booked at all.             *)
BeforeLegs == IF kind \in {"credit", "person"} THEN {Main}
              ELSE IF kind \in {"fee", "feecash"} THEN {Fee} ELSE {}

(* What is booked first once the center has settled it, and where. *)
HasSide == kind \in {"person", "cash", "feecash"}
AfterLegs == (IF HasSide THEN {Side} ELSE {}) \cup (IF IsCredit THEN {} ELSE {Main})

OutInit == /\ Init
           /\ kind \in Kinds
           /\ row = "absent" /\ center = "none"
           /\ stage = [p \in Procs |-> "idle"]
           /\ tc = [p \in Procs |-> "none"]
           /\ code = [p \in Procs |-> "none"]
           /\ doubts = {} /\ byHand = {}

To(p, s) == stage' = [stage EXCEPT ![p] = s]

(* goto EXIT with platform code c. *)
Exit(p, c) == To(p, "reply") /\ code' = [code EXCEPT ![p] = c]

(* The engine call the process made has returned. *)
Returned(p) == pc[p] = "idle" /\ ret[p] # "none"

\* Mutant: only a definite refusal stops the request.
SuccessUnlessRefused(c) == c # "FAIL"

Success(c) == c \in {"OK", "SUCC"}

-----------------------------------------------------------------------------
(* OPInitOPTran, case OPT_TRAN_OUT: the journal row, state unknown.  The   *)
(* insert of a transaction that is there already fails on the primary key. *)
Submit(p) ==
    /\ stage[p] = "idle"
    /\ UNCHANGED <<bookVars, kind, center, tc, doubts, byHand>>
    /\ \/ /\ row = "absent" /\ row' = "unknown"
          /\ To(p, "before") /\ UNCHANGED code
       \/ Exit(p, "DB") /\ UNCHANGED row

(* AddDigest, then PF10_108 before the center: a lookup or check fails, or *)
(* the legs that come first are booked.                                    *)
BeforeTransOut(p) ==
    /\ stage[p] = "before"
    /\ UNCHANGED <<kind, row, center, tc, doubts, byHand>>
    /\ \/ Exit(p, "CHECK") /\ UNCHANGED bookVars
       \/ /\ \E k \in BeforeLegs : AccountingStart(p, k)
          /\ To(p, "booking") /\ UNCHANGED code
       \/ /\ BeforeLegs = {}
          /\ To(p, "pack") /\ UNCHANGED <<bookVars, code>>

BeforeBooked(p) ==
    /\ stage[p] = "booking" /\ Returned(p)
    /\ UNCHANGED <<bookVars, kind, row, center, tc, doubts, byHand>>
    /\ \/ Success(ret[p]) /\ To(p, "pack") /\ UNCHANGED code
       \/ ~Success(ret[p]) /\ Exit(p, ret[p])

(* The request is formatted and leaves; it may not arrive. *)
TransferToPH(p) ==
    /\ stage[p] = "pack"
    /\ UNCHANGED <<bookVars, kind, row, tc, doubts, byHand>>
    /\ \/ Exit(p, "CONV") /\ UNCHANGED center
       \/ /\ To(p, "wait") /\ UNCHANGED code
          /\ center' = "asked" \/ UNCHANGED center

(* The answer: of a decision, of one of the codes isClearstateUnknowTran   *)
(* lists, none at all (opTCRetcode is set to E_SYS_COMM_PH), or unreadable. *)
CenterAnswer(p) ==
    /\ stage[p] = "wait"
    /\ UNCHANGED <<bookVars, kind, row, center, byHand>>
    /\ \/ \E r \in {"ok", "rejected", "unclear", "lost"} :
             /\ r = "ok" => center = "settled"
             /\ r = "rejected" => center = "rejected"
             /\ r = "unclear" => center = "asked"
             /\ tc' = [tc EXCEPT ![p] = r]
             /\ doubts' = doubts \cup ({r} \cap {"unclear", "lost"})
             /\ To(p, "update") /\ UNCHANGED code
       \/ /\ center # "none"
          /\ Exit(p, "CONV") /\ UNCHANGED <<tc, doubts>>

\* Mutant: a communication failure is journalled as settled.
AfterCommToPHLost(p) ==
    /\ stage[p] = "update"
    /\ UNCHANGED <<bookVars, kind, center, tc, code, doubts, byHand>>
    /\ row' = IF tc[p] \in {"ok", "lost"} THEN "settled" ELSE "failed"
    /\ To(p, "after")

(* OPTranAfterCommToPH: the row follows the answer. *)
OPAfterCommToPH(p) ==
    /\ stage[p] = "update"
    /\ UNCHANGED <<bookVars, kind, center, tc, doubts, byHand>>
    /\ \/ Exit(p, "DB") /\ UNCHANGED row
       \/ /\ row' = CASE tc[p] = "ok" -> "settled"
                      [] tc[p] = "lost" -> "unknown"
                      [] OTHER -> "failed"
          /\ To(p, "after") /\ UNCHANGED code

(* PF10_108 after the center.  Of a credit an unclear code ends the        *)
(* request; a lost answer is handled like a refusal.  Of a debit anything  *)
(* but success is a refusal.                                               *)
RefusalAny(p) == tc[p] # "ok"      \* mutant: unclear codes of a credit too

Refusal(p) == \/ tc[p] \in {"rejected", "lost"}
              \/ tc[p] = "unclear" /\ ~IsCredit

AfterTransOut(p) ==
    /\ stage[p] = "after"
    /\ UNCHANGED <<kind, row, center, tc, doubts, byHand>>
    /\ \/ Exit(p, "CHECK") /\ UNCHANGED bookVars        \* a lookup fails
       \/ /\ tc[p] = "unclear" /\ IsCredit
          /\ Exit(p, "COMM") /\ UNCHANGED bookVars
       \/ /\ Refusal(p) /\ BeforeLegs = {}
          /\ Exit(p, IF IsCredit THEN "FAIL" ELSE "NONEED") /\ UNCHANGED bookVars
       \/ /\ Refusal(p)
          /\ \E k \in BeforeLegs : AccountCancelStart(p, k, 1)
          /\ To(p, "cancel") /\ UNCHANGED code
       \/ /\ tc[p] = "ok" /\ AfterLegs = {}
          /\ \E c \in {"OK"} \cup (IF kind = "old" THEN {"DB"} ELSE {}) : Exit(p, c)
          /\ UNCHANGED bookVars
       \/ /\ tc[p] = "ok" /\ HasSide
          /\ AccountingStart(p, Side)
          /\ To(p, "side") /\ UNCHANGED code
       \/ /\ tc[p] = "ok" /\ AfterLegs = {Main}
          /\ AccountingStart(p, Main)
          /\ To(p, "main") /\ UNCHANGED code

\* Mutant: the outcome of the reversal is not looked at.
CancelledAny(p) ==
    /\ stage[p] = "cancel" /\ Returned(p)
    /\ Exit(p, "ANDCZ")
    /\ UNCHANGED <<bookVars, kind, row, center, tc, doubts, byHand>>

Cancelled(p) ==
    /\ stage[p] = "cancel" /\ Returned(p)
    /\ Exit(p, IF ret[p] = "OK" THEN "ANDCZ" ELSE "NOCZ")
    /\ UNCHANGED <<bookVars, kind, row, center, tc, doubts, byHand>>

(* A personal credit ends with its second leg; a cash debit goes on. *)
SideBooked(p) ==
    /\ stage[p] = "side" /\ Returned(p)
    /\ UNCHANGED <<kind, row, center, tc, doubts, byHand>>
    /\ \/ /\ ret[p] # "SUCC" \/ IsCredit
          /\ Exit(p, ret[p]) /\ UNCHANGED bookVars
       \/ /\ ret[p] = "SUCC" /\ ~IsCredit
          /\ AccountingStart(p, Main)
          /\ To(p, "main") /\ UNCHANGED code

MainBooked(p) ==
    /\ stage[p] = "main" /\ Returned(p)
    /\ Exit(p, ret[p])
    /\ UNCHANGED <<bookVars, kind, row, center, tc, doubts, byHand>>

(* ConvertOP2RSP, opException and svr_snd: the answer is sent, is not sent *)
(* for a reason that leaves the code alone, or replaces the code.          *)
Reply(p) ==
    /\ stage[p] = "reply"
    /\ To(p, "finish")
    /\ code' = code \/ \E c \in {"CONV", "COMMPH"} : code' = [code EXCEPT ![p] = c]
    /\ UNCHANGED <<bookVars, kind, row, center, tc, doubts, byHand>>

(* OP_DoFinish: the row is closed by the code, if it is there and the      *)
(* UPDATE does not fail; then the process ends.                            *)
Closing(c) == IF Success(c) THEN "settled"
              ELSE IF c \in {"COMM", "COMMPH"} THEN "unknown" ELSE "failed"

OP_DoFinish(p) ==
    /\ stage[p] = "finish"
    /\ row' = (IF row = "absent" THEN row ELSE Closing(code[p])) \/ UNCHANGED row
    /\ To(p, "idle")
    /\ code' = [code EXCEPT ![p] = "none"]
    /\ tc' = [tc EXCEPT ![p] = "none"]
    /\ UNCHANGED <<bookVars, kind, center, doubts, byHand>>

-----------------------------------------------------------------------------
(* The center decides once. *)
CenterDecide ==
    /\ center = "asked"
    /\ center' \in {"settled", "rejected"}
    /\ UNCHANGED <<bookVars, kind, row, stage, tc, code, doubts, byHand>>

(* PF_0009: the center reports its decision, and the row is set to it. *)
PF_0009 ==
    /\ center \in {"settled", "rejected"} /\ row # "absent"
    /\ row' = IF center = "settled" THEN "settled" ELSE "failed"
    /\ UNCHANGED <<bookVars, kind, center, stage, tc, code, doubts, byHand>>

(* A teller deletes the transaction: one UPDATE, whatever the row says.    *)
OPT_ADM_DELTRAN ==
    /\ row # "absent"
    /\ row' = "failed"
    /\ UNCHANGED <<bookVars, kind, center, stage, tc, code, doubts, byHand>>

(* PF_0066: the center is queried, and its answer is written when it has   *)
(* come: an unclear result as unknown (IsClearState).                      *)
PF_0066Ask(p) ==
    /\ stage[p] = "idle" /\ center # "none"
    /\ tc' = [tc EXCEPT ![p] = CASE center = "settled" -> "ok"
                                 [] center = "rejected" -> "rejected"
                                 [] center = "asked" -> "unclear"]
    /\ To(p, "query")
    /\ UNCHANGED <<bookVars, kind, row, center, code, doubts, byHand>>

IsClearStateRaw(r) == r      \* mutant: the answer is written, not a state

IsClearState(r) == CASE r = "ok" -> "settled"
                     [] r = "unclear" -> "unknown"
                     [] OTHER -> "failed"

PF_0066Update(p) ==
    /\ stage[p] = "query"
    /\ row' = (IF row = "absent" THEN row ELSE IsClearState(tc[p])) \/ UNCHANGED row
    /\ To(p, "idle")
    /\ tc' = [tc EXCEPT ![p] = "none"]
    /\ UNCHANGED <<bookVars, kind, center, code, doubts, byHand>>

(* PF10_111: an operator reverses a leg by the serial the core system gave *)
(* it, which its row has once it was answered.                             *)
ManualReverse(p, k) ==
    /\ stage[p] = "idle"
    /\ acct[k].res \in {"booked"} \cup Closed
    /\ AccountCancelStart(p, k, 1)
    /\ To(p, "manual")
    /\ byHand' = byHand \cup {k}
    /\ UNCHANGED <<kind, row, center, tc, code, doubts>>

ManualReversed(p) ==
    /\ stage[p] = "manual" /\ Returned(p)
    /\ To(p, "idle")
    /\ UNCHANGED <<bookVars, kind, row, center, tc, code, doubts, byHand>>

(* The process dies, inside the engine or outside. *)
Die(p) ==
    /\ stage[p] # "idle"
    /\ \/ Crash(p)
       \/ pc[p] = "idle" /\ UNCHANGED bookVars
    /\ To(p, "idle")
    /\ code' = [code EXCEPT ![p] = "none"]
    /\ tc' = [tc EXCEPT ![p] = "none"]
    /\ UNCHANGED <<kind, row, center, doubts, byHand>>

(* Steps inside the engine and of the core system; PF_1609. *)
Engine == /\ \/ \E p \in Procs : ProcStep(p)
             \/ \E c \in calls : BankExecute(c)
             \/ \E k \in Keys, r \in Results : ManualAdjust(k, r)
          /\ UNCHANGED tranVars

Request(p) == \/ Submit(p) \/ BeforeTransOut(p) \/ BeforeBooked(p) \/ TransferToPH(p)
              \/ CenterAnswer(p) \/ OPAfterCommToPH(p) \/ AfterTransOut(p)
              \/ Cancelled(p) \/ SideBooked(p) \/ MainBooked(p) \/ Reply(p)
              \/ OP_DoFinish(p)

OutNext == \/ Engine
           \/ CenterDecide \/ PF_0009 \/ OPT_ADM_DELTRAN
           \/ \E p \in Procs : \/ Request(p) \/ PF_0066Ask(p) \/ PF_0066Update(p)
                               \/ ManualReversed(p) \/ Die(p)
           \/ \E p \in Procs, k \in Keys : ManualReverse(p, k)

OutSpec == OutInit /\ [][OutNext]_outVars

-----------------------------------------------------------------------------
(* The variables have their types: the row has a clearing state, every     *)
(* process ends with a platform code.                                      *)
OutTypeOK == /\ TypeOK
             /\ kind \in Kinds
             /\ row \in ClearStates
             /\ center \in {"none", "asked", "settled", "rejected"}
             /\ stage \in [Procs -> Stages]
             /\ tc \in [Procs -> Replies]
             /\ code \in [Procs -> OutCodes]
             /\ doubts \subseteq {"unclear", "lost"}
             /\ byHand \subseteq Keys

(* The bank pays first: the center hears of a booked credit only when the  *)
(* customer's account was debited in the core system.                      *)
DebitedBeforeAsked ==
    IsCredit /\ BeforeLegs = {Main} /\ center # "none" /\ Main \notin blind \cup Foreign
        => Posted(Main) # {}

(* Of a debit, and of the second leg of a personal transaction, money      *)
(* moves only when the center has settled: no lost or unclear answer, no   *)
(* resubmission and no crash makes the bank advance it.                    *)
CreditedAfterSettled ==
    \A k \in AfterLegs : Posted(k) # {} => center = "settled"

(* trnjour says "settled" only of what the center settled. *)
SettledIsCleared == row = "settled" => center = "settled"

(* The customer's leg is reversed only when the center refused, or when    *)
(* its answer was lost; never on an unclear answer, never by a retry.      *)
(* (Reversals an operator orders are not the platform's.)                  *)
ReversalJustified ==
    \A c \in calls : c.op = "reverse" /\ c.key = Main /\ Main \notin byHand =>
        center = "rejected" \/ "lost" \in doubts

(* The code a request ends with says what happened (err.h): "booked" or 0  *)
(* that the center settled and the legs are posted and stand; "booked and  *)
(* reversed" that the reversal was executed; "booking failed" of a credit  *)
(* that the center was never asked and nothing was posted.                 *)
Stands(k) == Posted(k) # {} /\ \A b \in Posted(k) : ~Undone(b.serial)
Trusted(k) == k \notin blind \cup byHand \cup Foreign
AnswerTellsOutcome ==
    \A p \in Procs : stage[p] = "reply" =>
        /\ Success(code[p]) =>
              /\ center = "settled"
              /\ \A k \in BeforeLegs \cup AfterLegs : Trusted(k) => Stands(k)
        /\ code[p] = "ANDCZ" =>
              \A k \in BeforeLegs : Trusted(k) => \E b \in Posted(k) : Undone(b.serial)
        /\ code[p] = "FAIL" /\ IsCredit /\ ~HasSide /\ kind # "old" =>
              center = "none" /\ Posted(Main) = {}

(* tcop.h gives clearstate 9 the meaning "clearing failed" and 7 "clearing *)
(* state unknown".  So, local failures apart, a request whose answer from  *)
(* the center was lost is not closed as failed when the center settled.    *)
LocalFailures == {"DB", "CHECK", "CONV"}
LostIsNotFailed ==
    \A p \in Procs :
        /\ stage[p] = "finish" /\ tc[p] = "lost"
        /\ Closing(code[p]) = "failed" /\ code[p] \notin LocalFailures
        => center # "settled"
=============================================================================
