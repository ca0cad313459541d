-------------------------------- MODULE InTran --------------------------------
(***************************************************************************)
(* The life of one inbound transaction (OPTCODE 104 of bank 1015): the     *)
(* center delivers it, perhaps more than once; CheckInTrans and the        *)
(* primary key of trnjour keep it from being taken twice; PF10_104 books   *)
(* it; the answer goes to the center and OP_DoFinish closes the row.  The  *)
(* center may ask for it to be reversed (0010) or for its result (0006),   *)
(* an operator may confirm it (0111) or reverse a leg of it (0113), and    *)
(* processes may die.  Bookings are made by the engine of module Booking.  *)
(***************************************************************************)
EXTENDS Booking, FiniteSets

CONSTANTS First,  \* the leg of ACCOUNT_INCREDIT_FS
          Main,   \* the leg of the trncode notetypemap gives
          Chk,    \* the leg of the confirmation (ACCOUNT_INCREDIT_CHK, ..)
          Kinds,  \* the kinds of transaction considered
          Requests  \* the other requests considered, by TCTCODE; 1609 is PF_1609

ASSUME InTranAssumption ==
    /\ Keys = {First, Main, Chk}
    /\ First # Main /\ First # Chk /\ Main # Chk
    /\ Kinds \subseteq {"credit", "fs", "debit", "hold"}
    /\ Requests \subseteq {"0006", "0010", "0111", "0113", "1609"}

VARIABLES kind,    \* what the center sends; "hold" is a debit that is not truncated
          row,     \* trnjour.clearstate of the transaction
          stage,   \* where each process is
          code,    \* the platform code each process ends with
          byHand   \* history: legs an operator reversed (0113)

tranVars == <<kind, row, stage, code, byHand>>
inVars   == <<bookVars, tranVars>>

ClearStates == {"absent", "unknown", "settled", "failed"}
Stages == {"idle", "insert", "exists", "resettle", "handle", "first", "main", "reply",
           "finish", "reverse", "cancel", "mark", "sync", "confirm", "answer", "manual"}
(* Besides the codes of the engine: a check that failed, a negative code,  *)
(* E_SYS_COMM_PH, E_TRAN_EXISTSUCC, .._EXISTUNKNOW, E_APP_CZSUCC,          *)
(* E_DB_NORECORD, and the answers 0000 and 8999 of PF_0006.                *)
InCodes == Codes \cup {"CHECK", "NEG", "COMMPH", "EXISTSUCC", "EXISTUNKNOW", "CZSUCC",
                       "NORECORD", "R0000", "R8999"}

IsCredit == kind \in {"credit", "fs"}

InInit == /\ Init
          /\ kind \in Kinds
          /\ row = "absent"
          /\ stage = [p \in Procs |-> "idle"]
          /\ code = [p \in Procs |-> "none"]
          /\ byHand = {}

To(p, s) == stage' = [stage EXCEPT ![p] = s]
Leave(p, s, c) == To(p, s) /\ code' = [code EXCEPT ![p] = c]

(* goto EXIT of a delivered transaction; of every other request. *)
Exit(p, c)   == Leave(p, "reply", c)
AnswerWith(p, c) == Leave(p, "answer", c)

Returned(p) == pc[p] = "idle" /\ ret[p] # "none"

(* The acctjour rows of the transaction, of any trncode. *)
Journalled == {k \in Keys : acct[k] # Absent}

-----------------------------------------------------------------------------
(* OPInitOPTran, case OPT_TRAN_IN. *)

(* CheckInTrans counts the rows with this key. *)
Deliver(p) ==
    /\ stage[p] = "idle"
    /\ UNCHANGED <<bookVars, kind, row, byHand>>
    /\ \/ Exit(p, "DB")
       \/ To(p, IF row = "absent" THEN "insert" ELSE "exists") /\ UNCHANGED code

(* It is there: a settled one has succeeded, a credit is to be settled, a  *)
(* debit is in an unknown state.                                           *)
CheckInTrans(p) ==
    /\ stage[p] = "exists"
    /\ UNCHANGED <<bookVars, kind, row, byHand>>
    /\ \/ Exit(p, "DBSEL")
       \/ row = "settled" /\ Exit(p, "EXISTSUCC")
       \/ row # "settled" /\ IsCredit /\ To(p, "resettle") /\ UNCHANGED code
       \/ row # "settled" /\ ~IsCredit /\ Exit(p, "EXISTUNKNOW")

Resettle(p) ==
    /\ stage[p] = "resettle"
    /\ UNCHANGED <<bookVars, kind, byHand>>
    /\ \/ row' = "settled" /\ Exit(p, "EXISTSUCC")
       \/ Exit(p, "DB") /\ UNCHANGED row

\* Mutant: trnjour has no primary key.
InsertTrnjourNoKey(p) ==
    /\ stage[p] = "insert"
    /\ UNCHANGED <<bookVars, kind, byHand>>
    /\ row' = "settled" /\ To(p, "handle") /\ UNCHANGED code

(* It is not there: it is journalled as settled, before it is booked.      *)
InsertTrnjour(p) ==
    /\ stage[p] = "insert"
    /\ UNCHANGED <<bookVars, kind, byHand>>
    /\ \/ row = "absent" /\ row' = "settled" /\ To(p, "handle") /\ UNCHANGED code
       \/ Exit(p, "DB") /\ UNCHANGED row

(* PF10_104: a check fails, perhaps with a negative code; a debit that is  *)
(* not truncated is left to an operator; the others are booked.            *)
PF10_104(p) ==
    /\ stage[p] = "handle"
    /\ UNCHANGED <<kind, row, byHand>>
    /\ \/ /\ \E c \in {"CHECK", "NEG", "FAIL"} : Exit(p, c)
          /\ UNCHANGED bookVars
       \/ kind = "hold" /\ Exit(p, "OK") /\ UNCHANGED bookVars
       \/ /\ kind = "fs"
          /\ AccountingStart(p, First) /\ To(p, "first") /\ UNCHANGED code
       \/ /\ kind \in {"credit", "debit"}
          /\ AccountingStart(p, Main) /\ To(p, "main") /\ UNCHANGED code

(* What ACCOUNT_INCREDIT_FS returned; its answer may still say "no". *)
FirstBooked(p) ==
    /\ stage[p] = "first" /\ Returned(p)
    /\ UNCHANGED <<kind, row, byHand>>
    /\ \/ ret[p] # "SUCC" /\ Exit(p, ret[p]) /\ UNCHANGED bookVars
       \/ ret[p] = "SUCC" /\ Exit(p, "FAIL") /\ UNCHANGED bookVars
       \/ /\ ret[p] = "SUCC"
          /\ AccountingStart(p, Main) /\ To(p, "main") /\ UNCHANGED code

\* Mutant: a debit is answered like a credit.
MainBookedOK(p) ==
    /\ stage[p] = "main" /\ Returned(p)
    /\ Exit(p, IF ret[p] = "DB" THEN "DB" ELSE "SUCC")
    /\ UNCHANGED <<bookVars, kind, row, byHand>>

(* A credit succeeds whatever its booking did. *)
MainBooked(p) ==
    /\ stage[p] = "main" /\ Returned(p)
    /\ Exit(p, IF IsCredit THEN "OK" ELSE ret[p])
    /\ UNCHANGED <<bookVars, kind, row, byHand>>

(* ConvertOP2RSP, opException and svr_snd: the answer is sent, is not sent *)
(* for a reason that leaves the code alone, or replaces the code.          *)
Reply(p) ==
    /\ stage[p] = "reply"
    /\ To(p, "finish")
    /\ code' = code \/ \E c \in {"CONV", "COMMPH"} : code' = [code EXCEPT ![p] = c]
    /\ UNCHANGED <<bookVars, kind, row, byHand>>

(* OP_DoFinish: a success leaves the row as it is. *)
ClosingRaw(c) == c      \* mutant: the code is written, not a state

Closing(c) == IF c \in {"COMMPH", "NEG"} THEN "unknown" ELSE "failed"

OP_DoFinish(p) ==
    /\ stage[p] = "finish"
    /\ \/ row # "absent" /\ code[p] \notin {"OK", "SUCC", "EXISTSUCC"} /\ row' = Closing(code[p])
       \/ UNCHANGED row
    /\ Leave(p, "idle", "none")
    /\ UNCHANGED <<bookVars, kind, byHand>>

-----------------------------------------------------------------------------
(* PF10_157, the center's reversal: the trnjour row is read; ... *)
PF10_157(p) ==
    /\ "0010" \in Requests /\ stage[p] = "idle"
    /\ UNCHANGED <<bookVars, kind, row, byHand>>
    /\ \/ AnswerWith(p, "DB")
       \/ row # "settled" /\ AnswerWith(p, "CZSUCC")
       \/ row = "settled" /\ To(p, "reverse") /\ UNCHANGED code

(* ... then the acctjour row, which must be the only one; ... *)
ReverseIn(p) ==
    /\ stage[p] = "reverse"
    /\ UNCHANGED <<kind, row, byHand>>
    /\ \/ AnswerWith(p, "DB") /\ UNCHANGED bookVars
       \/ Journalled = {} /\ AnswerWith(p, "CZSUCC") /\ UNCHANGED bookVars
       \/ \E k \in Keys : /\ Journalled = {k}
                          /\ AccountCancelStart(p, k, 1)
                          /\ To(p, "cancel") /\ UNCHANGED code

(* ... and when AccountCancel returned 0 the trnjour row is failed. *)
ReversedIn(p) ==
    /\ stage[p] = "cancel" /\ Returned(p)
    /\ UNCHANGED <<bookVars, kind, byHand>>
    /\ \/ ret[p] # "OK" /\ AnswerWith(p, "CZFAIL") /\ UNCHANGED row
       \/ /\ ret[p] = "OK"
          /\ row' = "failed" \/ UNCHANGED row
          /\ AnswerWith(p, "OK")

\* Mutant: a booking in doubt counts as booked.
ResultOfRaw(r) == IF r \in {"failed", "reversed"} THEN "R8999" ELSE "R0000"

(* What PF_0006 makes of acctjour.result: a suspended credit is a success. *)
ResultOf(r) == IF r \in {"booked", "suspended"} THEN "R0000" ELSE "R8999"

(* PF_0006, the center asks for the result: both journals are read; ... *)
PF_0006(p) ==
    /\ "0006" \in Requests /\ stage[p] = "idle"
    /\ UNCHANGED <<bookVars, kind, row, byHand>>
    /\ \/ AnswerWith(p, "NORECORD")      \* no trnjour row, not one acctjour row, an error
       \/ \E k \in Keys :
             /\ row # "absent" /\ Journalled = {k}
             /\ Leave(p, "sync", ResultOf(acct[k].res))

(* ... and the trnjour row follows what acctjour said. *)
PF_0006Update(p) ==
    /\ stage[p] = "sync"
    /\ row' = (IF code[p] = "R0000" THEN "settled" ELSE "failed") \/ UNCHANGED row
    /\ To(p, "answer")
    /\ UNCHANGED <<bookVars, kind, code, byHand>>

\* Mutant: a credit is confirmed whatever became of its booking.
ConfirmableAny == IF IsCredit THEN acct[Main] # Absent
                  ELSE Cardinality({k \in Keys : acct[k].res = "booked"}) # 1

(* What PF10_123 may confirm: a credit that the core system suspended; a   *)
(* debit of which the SELECT does not find the one booked row.             *)
Confirmable == IF IsCredit THEN acct[Main].res = "suspended"
               ELSE Cardinality({k \in Keys : acct[k].res = "booked"}) # 1

(* PF10_123, an operator confirms; trnjour.chkflag is left out. *)
PF10_123(p) ==
    /\ "0111" \in Requests /\ stage[p] = "idle" /\ row # "absent"
    /\ UNCHANGED <<kind, row, byHand>>
    /\ \/ AnswerWith(p, "NORECORD") /\ UNCHANGED bookVars
       \/ /\ Confirmable
          /\ AccountingStart(p, Chk)
          /\ To(p, "confirm") /\ UNCHANGED code

Confirmed(p) ==
    /\ stage[p] = "confirm" /\ Returned(p)
    /\ AnswerWith(p, ret[p])
    /\ UNCHANGED <<bookVars, kind, row, byHand>>

(* The answer to such a request leaves; OP_DoFinish has nothing to do. *)
SendAnswer(p) ==
    /\ stage[p] = "answer"
    /\ Leave(p, "idle", "none")
    /\ UNCHANGED <<bookVars, kind, row, byHand>>

(* PF10_111: an operator reverses a leg by the serial the core system gave *)
(* it, which its row has once it was answered.                             *)
PF10_111(p, k) ==
    /\ "0113" \in Requests /\ stage[p] = "idle"
    /\ acct[k].res \in {"booked"} \cup Closed
    /\ AccountCancelStart(p, k, 1)
    /\ To(p, "manual")
    /\ byHand' = byHand \cup {k}
    /\ UNCHANGED <<kind, row, code>>

ReversedByHand(p) ==
    /\ stage[p] = "manual" /\ Returned(p)
    /\ AnswerWith(p, IF ret[p] = "OK" THEN "CZSUCC" ELSE "CZFAIL")
    /\ UNCHANGED <<bookVars, kind, row, byHand>>

(* The process dies, inside the engine or outside. *)
Die(p) ==
    /\ stage[p] # "idle"
    /\ \/ Crash(p)
       \/ pc[p] = "idle" /\ UNCHANGED bookVars
    /\ Leave(p, "idle", "none")
    /\ UNCHANGED <<kind, row, byHand>>

(* Steps inside the engine and of the core system; PF_1609. *)
Engine == /\ \/ \E p \in Procs : ProcStep(p)
             \/ \E c \in calls : BankExecute(c)
             \/ "1609" \in Requests /\ \E k \in Keys, r \in Results : ManualAdjust(k, r)
          /\ UNCHANGED tranVars

InNext == \/ Engine
          \/ \E p \in Procs :
                \/ Deliver(p) \/ CheckInTrans(p) \/ Resettle(p) \/ InsertTrnjour(p)
                \/ PF10_104(p) \/ FirstBooked(p) \/ MainBooked(p) \/ Reply(p)
                \/ OP_DoFinish(p)
                \/ PF10_157(p) \/ ReverseIn(p) \/ ReversedIn(p)
                \/ PF_0006(p) \/ PF_0006Update(p)
                \/ PF10_123(p) \/ Confirmed(p) \/ SendAnswer(p)
                \/ ReversedByHand(p) \/ Die(p)
          \/ \E p \in Procs, k \in Keys : PF10_111(p, k)

InSpec == InInit /\ [][InNext]_inVars

-----------------------------------------------------------------------------
(* The variables have their types, as in OutTran. *)
InTypeOK == /\ TypeOK
            /\ kind \in Kinds
            /\ row \in ClearStates
            /\ stage \in [Procs -> Stages]
            /\ code \in [Procs -> InCodes]
            /\ byHand \subseteq Keys

(* However often the center delivers the transaction, and to however many  *)
(* processes at once, the core system is asked to book it at most once:    *)
(* no retry, crash or reversal makes room for a second request.            *)
RequestedOnce ==
    \A k \in {First, Main} : \A c1, c2 \in calls :
        c1.op = "book" /\ c2.op = "book" /\ c1.key = k /\ c2.key = k => c1 = c2

(* A confirmation moves the money of a credit only when the core system    *)
(* had taken the credit and suspended it.                                  *)
ConfirmedWasSuspended ==
    IsCredit /\ Posted(Chk) # {} =>
        \E b \in Posted(Main) : Answer(b.serial, "suspended")

Trusted(k) == k \notin blind \cup Foreign

(* What the center is told of a debit is what happened: "booked" that the  *)
(* core system posted it, where its answer could be read; "booking failed" *)
(* that it did not and never will.                                         *)
DebitAnsweredTruly ==
    \A p \in Procs : stage[p] = "reply" /\ kind = "debit" =>
        /\ code[p] = "SUCC" /\ Trusted(Main) => Posted(Main) # {}
        /\ code[p] = "FAIL" =>
              /\ Posted(Main) = {}
              /\ \A c \in calls : c.key = Main /\ c.op = "book" => Answered(c.serial)

(* A result the center asks for and gets as success stands for a posting.  *)
ResultToldTruly ==
    \A p \in Procs : stage[p] = "sync" /\ code[p] = "R0000" =>
        \E k \in Keys : Posted(k) # {} \/ k \in blind
=============================================================================
