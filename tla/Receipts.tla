------------------------------ MODULE Receipts ------------------------------
(***************************************************************************)
(* Outbound debits after their round: the branch that presented them is    *)
(* credited when it asks for the round (PF10_122), unless the paying bank  *)
(* sent the debit back, which arrives as an inbound return (PF10_104 hands *)
(* it to TP_Process) and is booked at once.  Both mark the row of the      *)
(* debit in trnjour: stflag received, tpflag returned.                     *)
(*                                                                         *)
(* Legs are booked by the engine of module Booking, several requests at a  *)
(* time.  The clock counts half rounds: round r works at 2r - 1 and is     *)
(* over at 2r.  A row carries the date and the number of its round; the    *)
(* system has an exchange date and number of its own, which the center     *)
(* sets (PF_1602) and which need not agree with them.  The center is       *)
(* external: it passes a return on while the round of the debit works, or  *)
(* the next one.                                                           *)
(***************************************************************************)
EXTENDS Booking

CONSTANTS Debits,      \* non-truncated outbound debits, not of note type 03, 04
          St(_),       \* the leg ACCOUNT_OUTDEBIT_ST of a debit
          Rt(_),       \* the leg ACCOUNT_OUTDEBIT_TPB or .._TPA_BP of its return
          RoundOf(_),  \* the round a debit was presented in
          WorkDateOf(_), WorkRoundOf(_),   \* WORKDATE and WORKROUND of the rows of a round
          ExchDateOf(_), ExchRoundOf(_),   \* EXCHGDATE and EXCHGROUND while it lasts
          MaxClock     \* bound on the clock

\* The key of a leg holds workdate, refid, originator and trncode: those of two
\* debits, of two returns, of a debit and a return differ.  Nothing is assumed of
\* how the dates of one round follow those of another.
ASSUME ReceiptsAssumption ==
    /\ MaxClock \in Nat \ {0}
    /\ \A d \in Debits : St(d) \in Keys /\ Rt(d) \in Keys /\ RoundOf(d) \in 1..MaxClock
    /\ \A d, e \in Debits : /\ St(d) # Rt(e)
                            /\ St(d) = St(e) => d = e
                            /\ Rt(d) = Rt(e) => d = e
    /\ \A r \in 0..(MaxClock + 1) : {WorkDateOf(r), WorkRoundOf(r), ExchDateOf(r), ExchRoundOf(r)}
                                     \subseteq Nat

VARIABLES clock,
          checked,   \* debits with clearstate C, reconciled
          stflag, tpflag,
          back,      \* debits that came back, with the round they did in
          late,      \* history: debits whose return was not flagged in time
          rstage,    \* where each process is in PF10_122 or TP_Process
          todo       \* the rows it works on

recVars  == <<clock, checked, stflag, tpflag, back, late, rstage, todo>>
receiptVars == <<bookVars, recVars>>

RoundAt(c)   == (c + 1) \div 2
WorkingAt(c) == c % 2 = 1          \* SysStat 1
Round        == RoundAt(clock)
InTime(d) == clock <= 2 * RoundOf(d) + 1

ReceiptsInit == /\ clock = 1 /\ checked = {}
                /\ stflag = {} /\ tpflag = {} /\ late = {}
                /\ back = [d \in Debits |-> 0]
                /\ rstage = [p \in Procs |-> "idle"]
                /\ todo = [p \in Procs |-> {}]

RTo(p, s, rows) == /\ rstage' = [rstage EXCEPT ![p] = s]
                   /\ todo' = [todo EXCEPT ![p] = rows]
Done(p) == RTo(p, "idle", {})
EngineReturned(p) == pc[p] = "idle" /\ ret[p] # "none"

-----------------------------------------------------------------------------
(* TP_Process of an inbound return: the UPDATE of tpflag is not checked.   *)
ReturnArrives(p, d) ==
    /\ rstage[p] = "idle" /\ back[d] = 0 /\ InTime(d)
    /\ back' = [back EXCEPT ![d] = Round]
    /\ RTo(p, "flag", {d})
    /\ UNCHANGED <<bookVars, clock, checked, stflag, tpflag, late>>

FlagReturned(p) ==
    /\ rstage[p] = "flag"
    /\ RTo(p, "type", todo[p])
    /\ \/ /\ tpflag' = tpflag \cup todo[p]
          /\ late' = late \cup {d \in todo[p] : ~InTime(d)}
       \/ UNCHANGED tpflag /\ late' = late \cup todo[p]
    /\ UNCHANGED <<bookVars, clock, checked, stflag, back>>

(* How the debit had been credited is asked of the core system, which may  *)
(* fail; then its return is booked.                                        *)
BookReturn(p) ==
    /\ rstage[p] = "type"
    /\ \/ Done(p) /\ UNCHANGED bookVars
       \/ \E d \in todo[p] : AccountingStart(p, Rt(d)) /\ RTo(p, "returning", todo[p])
    /\ UNCHANGED <<clock, checked, stflag, tpflag, back, late>>

ReturnBooked(p) ==
    /\ rstage[p] = "returning" /\ EngineReturned(p)
    /\ Done(p)
    /\ UNCHANGED <<bookVars, clock, checked, stflag, tpflag, back, late>>

-----------------------------------------------------------------------------
(* PF10_122: may round r be received when the clock is at c?  Not before   *)
(* its date; on the exchange date not in the current round, nor while the  *)
(* round after it works, nor while the first round does.                   *)
MayReceiveAt(r, c) ==
    LET R == RoundAt(c)
    IN  /\ WorkDateOf(r) <= WorkDateOf(R)
        /\ WorkDateOf(r) = ExchDateOf(R) =>
              /\ WorkRoundOf(r) < ExchRoundOf(R)
              /\ ~(WorkingAt(c) /\ (ExchRoundOf(R) - WorkRoundOf(r) = 1 \/ ExchRoundOf(R) = 1))

(* The returns that arrived in the round itself are flagged once more; an  *)
(* UPDATE that fails is not noticed.                                       *)
PF10_122(p, r) ==
    /\ rstage[p] = "idle" /\ MayReceiveAt(r, clock)
    /\ RTo(p, "select", {d \in Debits : RoundOf(d) = r})
    /\ \E ds \in SUBSET {d \in Debits : back[d] = r} : tpflag' = tpflag \cup ds
    /\ UNCHANGED <<bookVars, clock, checked, stflag, back, late>>

\* Mutant: returned debits are selected too.
SelectReturned(p) ==
    /\ rstage[p] = "select"
    /\ RTo(p, "receive", (todo[p] \cap checked) \ stflag)
    /\ UNCHANGED <<bookVars, clock, checked, stflag, tpflag, back, late>>

(* The SELECT of the reconciled rows neither received nor returned.        *)
SelectRows(p) ==
    /\ rstage[p] = "select"
    /\ \/ RTo(p, "receive", (todo[p] \cap checked) \ (stflag \cup tpflag))
       \/ Done(p)
    /\ UNCHANGED <<bookVars, clock, checked, stflag, tpflag, back, late>>

(* They are booked one after the other; whatever becomes of one, the next  *)
(* one follows.                                                            *)
Receive(p) ==
    /\ rstage[p] = "receive"
    /\ \/ todo[p] = {} /\ Done(p) /\ UNCHANGED bookVars
       \/ \E d \in todo[p] : AccountingStart(p, St(d)) /\ RTo(p, "receiving", todo[p])
    /\ UNCHANGED <<clock, checked, stflag, tpflag, back, late>>

Received(p) ==
    /\ rstage[p] = "receiving" /\ EngineReturned(p)
    /\ \E d \in todo[p] :
          /\ St(d) = job[p].key
          /\ RTo(p, "receive", todo[p] \ {d})
          /\ \/ UNCHANGED stflag
             \/ ret[p] = "SUCC" /\ stflag' = stflag \cup {d}
    /\ UNCHANGED <<bookVars, clock, checked, tpflag, back, late>>

-----------------------------------------------------------------------------
(* A round ends or begins; the reconciliation of module DayEnd marks the   *)
(* debits of a round that is over.                                         *)
Tick == /\ clock < MaxClock
        /\ clock' = clock + 1
        /\ UNCHANGED <<bookVars, checked, stflag, tpflag, back, late, rstage, todo>>

Reconcile(d) == /\ d \notin checked /\ clock >= 2 * RoundOf(d)
                /\ checked' = checked \cup {d}
                /\ UNCHANGED <<bookVars, clock, stflag, tpflag, back, late, rstage, todo>>

ReceiptEngine == /\ \/ \E p \in Procs : ProcStep(p)
                    \/ \E c \in calls : BankExecute(c)
                 /\ UNCHANGED recVars

ReceiptDie(p) == /\ rstage[p] # "idle"
                 /\ Crash(p) \/ (pc[p] = "idle" /\ UNCHANGED bookVars)
                 /\ late' = late \cup (IF rstage[p] = "flag" THEN todo[p] ELSE {})
                 /\ Done(p)
                 /\ UNCHANGED <<clock, checked, stflag, tpflag, back>>

ReceiptsNext ==
    \/ Tick \/ ReceiptEngine
    \/ \E d \in Debits : Reconcile(d)
    \/ \E p \in Procs :
          \/ FlagReturned(p) \/ BookReturn(p) \/ ReturnBooked(p)
          \/ SelectRows(p) \/ Receive(p) \/ Received(p) \/ ReceiptDie(p)
          \/ \E d \in Debits : ReturnArrives(p, d)
          \/ \E d \in Debits : PF10_122(p, RoundOf(d))

ReceiptsSpec == Init /\ ReceiptsInit /\ [][ReceiptsNext]_receiptVars

-----------------------------------------------------------------------------
\* The dates let no request take the round of a debit while its return is in time.
HeldBack(d) == \A c \in 1..(2 * RoundOf(d) + 1) : ~MayReceiveAt(RoundOf(d), c)
EndsOnce(d) ==
    d \in late \/ St(d) \in reopened \/ Rt(d) \in reopened \/
        \A a, b \in Posted(St(d)) \cup Posted(Rt(d)) : a = b

(* A debit ends one way: it is received or returned, and once, however     *)
(* often its round is asked for and by however many requests at a time --  *)
(* unless its return was not flagged before the round after it was over or *)
(* a leg was booked over a closed row.  It is said of the debits PF10_122  *)
(* holds back: of the last round of a date, and of a round whose exchange  *)
(* date moved on inside the work day, it does not.                         *)
DebitEndsOnce == \A d \in Debits : HeldBack(d) => EndsOnce(d)
=============================================================================
